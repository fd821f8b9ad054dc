------------------------------ MODULE WalProbe ------------------------------
(***************************************************************************)
(* scripts/wal_pid_probe.py: timed inserts into a disposable table, while  *)
(* an observer thread samples what the inserting backends wait for.  The   *)
(* main thread creates the table, submits the inserts, waits for them,     *)
(* stops the observer, judges the run and drops the table; the inserts run *)
(* on a thread pool and share a queue of connections.  Percentiles and the *)
(* correlation of waits with slow commits are left out.  At most one       *)
(* keyboard interrupt comes, at any point.                                 *)
(***************************************************************************)
EXTENDS Integers, Sequences, FiniteSets

CONSTANTS
  Total,          \* rate * seconds
  Workers,
  Expected,       \* samples the observer should take
  MaxFailures     \* bound: failed calls, late starts and interrupts

Items == 1..Total
None == -1

VARIABLES
  pc,             \* preflight, create, connect, load, drain, join, report, close, drop, finish, done
  failures, interrupted,
  table,          \* the table exists in the database
  created,        \* and run() knows that it does
  answerLost,     \* history: CREATE TABLE was executed and its answer lost
  pool,           \* queue of idle connections
  open, broken,   \* connections not yet closed; connections that are lost
  item, conn,     \* of every insert: its state and its connection
  success,        \* inserts whose commit() returned
  committed,      \* history: rows that the database committed
  lag,            \* an insert started 100 ms late or more
  stop, thread,   \* the observer: off, connecting, loop, query, ended
  wait_output,    \* the observer opened its file
  samples, query_errors, observer_error,
  error, cleanup_pass,
  output,         \* the result file: none, running, recovery (both name the table), clean
  exit

main == <<pc, interrupted>>
database == <<table, created, answerLost>>
connections == <<pool, open, broken>>
inserts == <<item, conn, success, committed, lag>>
observation == <<stop, thread, wait_output, samples, query_errors, observer_error>>
result == <<error, cleanup_pass, output, exit>>
vars == <<main, failures, database, connections, inserts, observation, result>>

Init ==
  /\ pc = "preflight" /\ failures = 0 /\ interrupted = FALSE
  /\ table = FALSE /\ created = FALSE /\ answerLost = FALSE
  /\ pool = <<>> /\ open = {} /\ broken = {}
  /\ item = [i \in Items |-> "idle"] /\ conn = [i \in Items |-> 0]
  /\ success = {} /\ committed = {} /\ lag = FALSE
  /\ stop = FALSE /\ thread = "off" /\ wait_output = FALSE
  /\ samples = 0 /\ query_errors = 0 /\ observer_error = FALSE
  /\ error = FALSE /\ cleanup_pass = FALSE /\ output = "none" /\ exit = None

Failing == failures < MaxFailures /\ failures' = failures + 1
Working == failures' = failures

-----------------------------------------------------------------------------
\* The main thread.

\* The durability settings are right, and the marker is written before anything
\* is created; or they are not, and nothing is done.
Preflight ==
  /\ pc = "preflight"
  /\ \/ Working /\ pc' = "create" /\ output' = "running" /\ exit' = exit
     \/ Failing /\ pc' = "done" /\ exit' = 1 /\ output' = output
  /\ UNCHANGED <<interrupted, database, connections, inserts, observation, error, cleanup_pass>>

\* created is set only after the answer came.
Create ==
  /\ pc = "create"
  /\ \/ Working /\ table' = TRUE /\ created' = TRUE /\ pc' = "connect" /\ UNCHANGED <<answerLost, error>>
     \/ /\ Failing /\ table' \in BOOLEAN /\ answerLost' = table' /\ error' = TRUE /\ pc' = "close"
        /\ created' = created
  /\ UNCHANGED <<interrupted, connections, inserts, observation, cleanup_pass, output, exit>>

\* One connection for every worker; after the last the observer is started.
Connect ==
  /\ pc = "connect"
  /\ \/ /\ Working /\ pool' = Append(pool, Len(pool) + 1) /\ open' = open \cup {Len(pool) + 1}
        /\ IF Len(pool) + 1 = Workers
           THEN pc' = "load" /\ thread' = "connecting"
           ELSE UNCHANGED <<pc, thread>>
        /\ error' = error
     \/ Failing /\ error' = TRUE /\ pc' = "close" /\ UNCHANGED <<pool, open, thread>>
  /\ UNCHANGED <<interrupted, database, broken, inserts, stop, wait_output, samples, query_errors,
                 observer_error, cleanup_pass, output, exit>>

Submit ==
  /\ pc = "load" /\ Working
  /\ LET i == Cardinality({j \in Items : item[j] # "idle"}) + 1
     IN /\ item' = [item EXCEPT ![i] = "queued"]
        /\ pc' = IF i = Total THEN "drain" ELSE pc
  /\ UNCHANGED <<interrupted, database, connections, conn, success, committed, lag, observation, result>>

\* The executor is left when every submitted insert has returned, also on the
\* way out of an interrupt; then the observer is told to stop.
Drain ==
  /\ pc = "drain" /\ Working
  /\ \A i \in Items : item[i] \in {"idle", "done"}
  /\ stop' = TRUE /\ pc' = "join"
  /\ UNCHANGED <<interrupted, database, connections, inserts, thread, wait_output, samples, query_errors,
                 observer_error, result>>

\* thread.join(timeout=10)
Join ==
  /\ pc = "join"
  /\ \/ thread = "ended" /\ Working /\ observer_error' = observer_error
     \/ thread # "ended" /\ Failing /\ observer_error' = TRUE
  /\ pc' = IF interrupted THEN "close" ELSE "report"
  /\ UNCHANGED <<interrupted, database, connections, inserts, stop, thread, wait_output, samples,
                 query_errors, result>>

StrictGateFailed ==
  \/ success # Items \/ lag
  \/ observer_error \/ query_errors > 0 \/ samples * 10 < Expected * 8

\* Writing the rows or reading the observer's file may fail.
Report ==
  /\ pc = "report" /\ pc' = "close"
  /\ \/ Working /\ error' = (~wait_output \/ StrictGateFailed)
     \/ Failing /\ error' = TRUE
  /\ UNCHANGED <<interrupted, database, connections, inserts, observation, cleanup_pass, output, exit>>

\* The connections that are in the queue are closed.
Close ==
  /\ pc = "close" /\ Working
  /\ pool' = <<>> /\ open' = open \ {pool[k] : k \in 1..Len(pool)}
  /\ pc' = IF created THEN "drop" ELSE "finish"
  /\ cleanup_pass' = ~created
  /\ UNCHANGED <<interrupted, database, broken, inserts, observation, error, output, exit>>

Drop ==
  /\ pc = "drop" /\ pc' = "finish"
  /\ \/ Working /\ table' = FALSE /\ cleanup_pass' = TRUE
     \/ Failing /\ table' \in {table, FALSE} /\ cleanup_pass' = cleanup_pass
  /\ UNCHANGED <<interrupted, created, answerLost, connections, inserts, observation, error, output, exit>>

\* main() writes the result, which names the table only when the clean-up
\* failed; an interrupt passes through and leaves the marker.
Finish ==
  /\ pc = "finish" /\ pc' = "done" /\ Working
  /\ output' = IF interrupted THEN output ELSE IF cleanup_pass THEN "clean" ELSE "recovery"
  /\ exit' = IF ~interrupted /\ cleanup_pass /\ ~error THEN 0 ELSE 1
  /\ UNCHANGED <<interrupted, database, connections, inserts, observation, error, cleanup_pass>>

\* A keyboard interrupt runs the finally blocks that enclose the place where it
\* comes; in the last one it ends the process.
Interrupt ==
  /\ pc \notin {"preflight", "done"} /\ ~interrupted /\ interrupted' = TRUE /\ Failing
  /\ pc' = CASE pc \in {"load", "drain"} -> "drain"
             [] pc \in {"create", "connect", "join", "report"} -> "close"
             [] OTHER -> "done"
  /\ table' \in IF pc = "create" THEN BOOLEAN ELSE {table}
  /\ exit' = IF pc' = "done" THEN 1 ELSE exit
  /\ UNCHANGED <<created, answerLost, connections, inserts, observation, error, cleanup_pass, output>>

-----------------------------------------------------------------------------
\* insert_once on a thread of the executor.

Busy == {i \in Items : item[i] \in {"got", "executed", "failed"}}
Ready(i) ==
  /\ item[i] = "queued" /\ \A j \in 1..(i - 1) : item[j] # "queued"
  /\ Cardinality(Busy) < Workers

\* A thread is free and takes the oldest insert; pool.get finds a connection.
Start(i) ==
  /\ Ready(i) /\ pool # <<>>
  /\ item' = [item EXCEPT ![i] = "got"]
  /\ conn' = [conn EXCEPT ![i] = Head(pool)] /\ pool' = Tail(pool)
  /\ \/ Working /\ lag' = lag
     \/ Failing /\ lag' = TRUE
  /\ UNCHANGED <<main, database, open, broken, success, committed, observation, result>>

\* A call fails that may lose its connection; a call on a lost one fails at once.
Fails(c) == c \notin broken /\ Failing /\ broken' \in {broken, broken \cup {c}}
FailsAtOnce(c) == c \in broken /\ Working /\ broken' = broken

Execute(i) ==
  /\ item[i] = "got"
  /\ \/ conn[i] \notin broken /\ Working /\ broken' = broken /\ item' = [item EXCEPT ![i] = "executed"]
     \/ (Fails(conn[i]) \/ FailsAtOnce(conn[i])) /\ item' = [item EXCEPT ![i] = "failed"]
  /\ UNCHANGED <<main, database, pool, open, conn, success, committed, lag, observation, result>>

\* Mutant of PutBack: a connection whose call failed is not returned.
PutBackIntact(i) ==
  /\ pool' = IF item[i] = "failed" THEN pool ELSE Append(pool, conn[i])
  /\ item' = [item EXCEPT ![i] = "done"] /\ conn' = [conn EXCEPT ![i] = 0]

\* pool.put in the finally block.
PutBack(i) ==
  /\ pool' = Append(pool, conn[i])
  /\ item' = [item EXCEPT ![i] = "done"] /\ conn' = [conn EXCEPT ![i] = 0]

\* A commit that fails may have been made.
Commit(i) ==
  /\ item[i] = "executed"
  /\ \/ /\ Working /\ PutBack(i)
        /\ committed' = committed \cup {i} /\ success' = success \cup {i} /\ broken' = broken
     \/ /\ Fails(conn[i])
        /\ committed' \in {committed, committed \cup {i}}
        /\ item' = [item EXCEPT ![i] = "failed"] /\ UNCHANGED <<pool, conn, success>>
  /\ UNCHANGED <<main, database, open, lag, observation, result>>

\* The rollback of the error path; that it fails is ignored.
Rollback(i) ==
  /\ item[i] = "failed" /\ PutBack(i)
  /\ \/ conn[i] \notin broken /\ Working /\ broken' = broken
     \/ Fails(conn[i]) \/ FailsAtOnce(conn[i])
  /\ UNCHANGED <<main, database, open, success, committed, lag, observation, result>>

-----------------------------------------------------------------------------
\* observe on its own thread, a daemon: it ends with the process.

ObserverConnect ==
  /\ thread = "connecting" /\ pc # "done"
  /\ \/ Working /\ thread' = "loop" /\ wait_output' = TRUE /\ observer_error' = observer_error
     \/ Failing /\ thread' = "ended" /\ wait_output' \in BOOLEAN /\ observer_error' = TRUE
  /\ UNCHANGED <<main, database, connections, inserts, stop, samples, query_errors, result>>

\* The test of stop; a query that has begun is finished.
Wake ==
  /\ thread = "loop" /\ pc # "done" /\ Working
  /\ thread' = IF stop THEN "ended" ELSE "query"
  /\ UNCHANGED <<main, database, connections, inserts, stop, wait_output, samples, query_errors,
                 observer_error, result>>

\* A failed query is counted and rolled back; the rollback may fail as well.
Query ==
  /\ thread = "query" /\ pc # "done"
  /\ \/ /\ samples < Expected /\ Working /\ samples' = samples + 1 /\ thread' = "loop"
        /\ UNCHANGED <<query_errors, observer_error>>
     \/ /\ Failing /\ query_errors' = query_errors + 1 /\ samples' = samples
        /\ \/ thread' = "loop" /\ observer_error' = observer_error
           \/ thread' = "ended" /\ observer_error' = TRUE
  /\ UNCHANGED <<main, database, connections, inserts, stop, wait_output, result>>

-----------------------------------------------------------------------------
Main ==
  \/ Preflight \/ Create \/ Connect \/ Submit \/ Drain \/ Join \/ Report \/ Close \/ Drop \/ Finish
  \/ Interrupt

Next ==
  \/ Main
  \/ \E i \in Items : Start(i) \/ Execute(i) \/ Commit(i) \/ Rollback(i)
  \/ ObserverConnect \/ Wake \/ Query

Spec == Init /\ [][Next]_vars

-----------------------------------------------------------------------------
\* An exit code of 0 means that every scheduled row was committed, although
\* commits may be made and not answered, that the table is gone, and that the
\* observer sampled as required without an error.
PassMeansMeasured ==
  exit = 0 =>
    /\ committed = Items /\ ~lag /\ ~table
    /\ thread = "ended" /\ query_errors = 0 /\ samples * 10 >= Expected * 8

\* However the probe ends, a table that it leaves behind is named by its result
\* file: by the marker or by the result of a failed clean-up.  The exception is
\* a CREATE TABLE that was executed and reported as failed: created is not set,
\* nothing is dropped and cleanup_pass is reported.
TableIsNamed == pc = "done" /\ table => answerLost \/ output \in {"running", "recovery"}

\* No connection of the probe is open when the table is dropped, whichever of
\* its calls failed: one left in a transaction would make DROP TABLE wait.
DropIsNotBlocked == pc = "drop" => open = {}

\* There are as many connections as threads and each is returned: an insert
\* that a free thread takes never waits in pool.get.
ConnectionsSuffice == \A i \in Items : Ready(i) => pool # <<>>
=============================================================================
