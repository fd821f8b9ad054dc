------------------------------ MODULE HoldAudit ------------------------------
(***************************************************************************)
(* The audit after a load (verify_cloud_holds.py).  It has the counts of   *)
(* answers the load workers wrote down, and compares them with PostgreSQL  *)
(* and with the reservation streams.  Every query is a statement of its    *)
(* own, so the writers and the expiry worker can act between two of them.  *)
(***************************************************************************)
EXTENDS Integers, FiniteSets, FiniteSetsExt

CONSTANTS
  Items,         \* hold requests of the load, numbered
  Runs,          \* run ids: one per load worker
  RunOf,         \* RunOf[i]: whose key prefix item i carries
  SeatOf,        \* SeatOf[i]
  RedisFirst,    \* reservation mode of the load
  MaxTime,       \* bound on the clock
  MaxTtl,        \* bound on the length of a hold
  MaxFailures    \* bound: lost answers, refused commands, sales of a held seat

VARIABLES
  now,
  reply,      \* reply[i]: none, 201, 202, refused or lost, as the worker counted it
  queue,      \* commands in the stream
  expires,    \* deadline of each command or hold
  created,    \* created_at of each order
  status,     \* of each hold in PostgreSQL: none, ACTIVE or EXPIRED
  pc,         \* of the audit: load, runs, overlaps, streams, done
  checked,    \* runs whose query was made
  row,        \* what it returned
  overlaps, audited_holds, stream_entries,
  settled,    \* whether nothing was left to do when the audit began
  failures

system == <<reply, queue, expires, created, status>>
audit == <<pc, checked, row, overlaps, audited_holds, stream_entries, settled>>
vars == <<now, system, audit, failures>>

Init ==
  /\ now = 0
  /\ reply = [i \in Items |-> "none"] /\ queue = {}
  /\ expires = [i \in Items |-> 0] /\ created = [i \in Items |-> 0]
  /\ status = [i \in Items |-> "none"]
  /\ pc = "load" /\ checked = {} /\ settled = FALSE
  /\ row = [r \in Runs |-> [records |-> 0, active |-> 0, durable |-> 0]]
  /\ overlaps = 0 /\ audited_holds = 0 /\ stream_entries = 0
  /\ failures = 0

Failing == failures < MaxFailures /\ failures' = failures + 1

Tick == now < MaxTime /\ now' = now + 1 /\ UNCHANGED <<system, audit, failures>>

-----------------------------------------------------------------------------
(***************************************************************************)
(* The system under audit.                                                 *)
(***************************************************************************)

\* Holds in PostgreSQL, with their record, order and items.
Recorded == {i \in Items : status[i] # "none"}

Blocked(i) == \E j \in Recorded \cup queue : j # i /\ SeatOf[j] = SeatOf[i] /\ now < expires[j]

\* The answer reaches the worker, or is lost.
Answered(i, a) ==
  \/ reply' = [reply EXCEPT ![i] = a] /\ UNCHANGED failures
  \/ reply' = [reply EXCEPT ![i] = "lost"] /\ Failing

\* A hold of a seat that is held already is what the audit is there to find.
Admitted(i) == ~Blocked(i) \/ failures < MaxFailures

\* PostgreSQL mode.
Hold(i, ttl) ==
  /\ pc = "load" /\ reply[i] = "none" /\ ~RedisFirst /\ Admitted(i)
  /\ expires' = [expires EXCEPT ![i] = now + ttl]
  /\ created' = [created EXCEPT ![i] = now]
  /\ status' = [status EXCEPT ![i] = "ACTIVE"]
  /\ IF Blocked(i) THEN reply' = [reply EXCEPT ![i] = "201"] /\ Failing ELSE Answered(i, "201")
  /\ UNCHANGED <<now, queue, audit>>

\* Redis-first mode: the command carries its deadline into the stream.
Enqueue(i, ttl) ==
  /\ pc = "load" /\ reply[i] = "none" /\ RedisFirst /\ Admitted(i)
  /\ expires' = [expires EXCEPT ![i] = now + ttl]
  /\ queue' = queue \cup {i}
  /\ IF Blocked(i) THEN reply' = [reply EXCEPT ![i] = "202"] /\ Failing ELSE Answered(i, "202")
  /\ UNCHANGED <<now, created, status, audit>>

\* A 503 whose COMMIT took effect is a lost answer here: the worker counts
\* neither as a hold.
Refused(i) ==
  /\ pc = "load" /\ reply[i] = "none" /\ reply' = [reply EXCEPT ![i] = "refused"]
  /\ UNCHANGED <<now, queue, expires, created, status, audit, failures>>

\* The writer makes the hold durable, or the command fails and leaves no row.
Persist(i) ==
  /\ i \in queue /\ queue' = queue \ {i}
  /\ \/ /\ now < expires[i]
        /\ created' = [created EXCEPT ![i] = now] /\ status' = [status EXCEPT ![i] = "ACTIVE"]
        /\ UNCHANGED failures
     \/ (IF now < expires[i] THEN Failing ELSE UNCHANGED failures) /\ UNCHANGED <<created, status>>
  /\ UNCHANGED <<now, reply, expires, audit>>

Expire(i) ==
  /\ status[i] = "ACTIVE" /\ now >= expires[i]
  /\ status' = [status EXCEPT ![i] = "EXPIRED"]
  /\ UNCHANGED <<now, reply, queue, expires, created, audit, failures>>

-----------------------------------------------------------------------------
(***************************************************************************)
(* The audit.                                                              *)
(***************************************************************************)
Of(r) == {i \in Items : RunOf[i] = r}

Acknowledged(r, codes) == Cardinality({i \in Of(r) : reply[i] \in codes})

\* The load is over; its workers' results are the input.
Begin ==
  /\ pc = "load" /\ \A i \in Items : reply[i] # "none"
  /\ pc' = "runs"
  /\ settled' = (queue = {} /\ \A i \in Items : status[i] # "ACTIVE")
  /\ UNCHANGED <<now, system, checked, row, overlaps, audited_holds, stream_entries, failures>>

\* The query of one run.  Holds and orders are those of the records, and the
\* commands counted are the DURABLE ones.
CheckRun(r) ==
  /\ pc = "runs" /\ r \notin checked
  /\ checked' = checked \cup {r}
  /\ row' = [row EXCEPT ![r] =
       [records |-> Cardinality(Of(r) \cap Recorded),
        active |-> Cardinality({i \in Of(r) : status[i] = "ACTIVE"}),
        durable |-> IF RedisFirst THEN Cardinality(Of(r) \cap Recorded) ELSE 0]]
  /\ pc' = IF checked' = Runs THEN "overlaps" ELSE pc
  /\ UNCHANGED <<now, system, overlaps, audited_holds, stream_entries, settled, failures>>

\* Rows before i in the window: PARTITION BY seat ORDER BY created_at, id.
Preceding(i) ==
  {j \in Recorded : SeatOf[j] = SeatOf[i] /\ (created[j] < created[i] \/ (created[j] = created[i] /\ j < i))}

Overlapping(i) == Preceding(i) # {} /\ created[i] < Max({expires[j] : j \in Preceding(i)})

CheckOverlaps ==
  /\ pc = "overlaps" /\ pc' = "streams"
  /\ overlaps' = Cardinality({i \in Recorded : Overlapping(i)})
  /\ audited_holds' = Cardinality(Recorded)
  /\ UNCHANGED <<now, system, checked, row, stream_entries, settled, failures>>

\* XLEN and XPENDING of every stream: an entry leaves when it is acknowledged.
CheckStreams ==
  /\ pc = "streams" /\ pc' = "done"
  /\ stream_entries' = Cardinality(queue)
  /\ UNCHANGED <<now, system, checked, row, overlaps, audited_holds, settled, failures>>

\* Mutant of passed: holds that are still active do not matter.
passedByMaximum(r) == row[r].records <= Acknowledged(r, {"201", "202"})

passed(r) ==
  /\ row[r].records = Acknowledged(r, {"201", "202"}) /\ row[r].active = 0
  /\ row[r].durable = Acknowledged(r, {"202"})

durability_and_expiry_pass ==
  /\ pc = "done" /\ \A r \in Runs : passed(r)
  /\ overlaps = 0
  /\ audited_holds = Cardinality({i \in Items : reply[i] \in {"201", "202"}})
  /\ stream_entries = 0

Next ==
  \/ Tick \/ Begin \/ CheckOverlaps \/ CheckStreams
  \/ \E i \in Items : \/ Refused(i) \/ Persist(i) \/ Expire(i)
                      \/ \E ttl \in 1 .. MaxTtl : Hold(i, ttl) \/ Enqueue(i, ttl)
  \/ \E r \in Runs : CheckRun(r)

Spec == Init /\ [][Next]_vars

-----------------------------------------------------------------------------
Overlap(i, j) == SeatOf[i] = SeatOf[j] /\ created[i] < expires[j] /\ created[j] < expires[i]

\* The window query: when it counts nothing, no two holds it saw had the same
\* seat at the same time, however their intervals nest.
OverlapsAreFound ==
  (pc = "streams" /\ audited_holds = Cardinality(Recorded)) =>
    (overlaps = 0 <=> \A i, j \in Recorded : i # j => ~Overlap(i, j))

\* durability_and_expiry_pass: when no answer was lost, a pass means that
\* exactly the acknowledged requests have a hold, that every hold has ended and
\* that no command is left, although the four queries ran at different times.
PassMeansSettled ==
  durability_and_expiry_pass /\ (\A i \in Items : reply[i] # "lost") =>
    /\ Recorded = {i \in Items : reply[i] \in {"201", "202"}}
    /\ \A i \in Recorded : status[i] = "EXPIRED"
    /\ queue = {}

\* The audit has no false alarm: started after the drain of a load in which
\* nothing went wrong, it passes if no command expired in the stream.
QuietLoadPasses ==
  pc = "done" /\ settled /\ failures = 0 /\ (\A i \in Items : reply[i] \in {"201", "202"} => i \in Recorded) =>
    durability_and_expiry_pass

=============================================================================
