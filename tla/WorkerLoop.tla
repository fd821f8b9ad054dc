------------------------------ MODULE WorkerLoop ------------------------------
(***************************************************************************)
(* The loop every worker process runs (workers.main): open the clients of  *)
(* its role, call the role's batch functions until a signal clears         *)
(* running, rest when there was nothing to do and after an error, and      *)
(* close the clients.  What a batch does is in the modules of the roles;   *)
(* here it finds work, finds none, or raises.                              *)
(***************************************************************************)
EXTENDS Integers, FiniteSets

CONSTANTS
  Roles,         \* publisher, consumer, reservation-writer, maintenance, refresh,
                 \* expiry, reconciler and simulator
  MaxFailures    \* bound: batches, constructors and closings that raise

VARIABLES
  role, running,
  pc,        \* start, loop, schedule, first, second, rest, recover, finally, exited
  work,      \* of this iteration
  due,       \* now >= next_warm
  opened,    \* clients that are open
  leaked,    \* clients that a raising close left open
  failures

vars == <<role, running, pc, work, due, opened, leaked, failures>>

\* Clients of the role beside the database and Redis.
Own ==
  CASE role = "simulator" -> {"executor"} [] role = "publisher" -> {"producer"}
    [] role = "consumer" -> {"consumer"} [] OTHER -> {}

Init ==
  /\ running = TRUE /\ pc = "start" /\ work = FALSE
  /\ role \in Roles /\ due = TRUE
  /\ opened = {"db", "redis"} /\ leaked = {} /\ failures = 0

Failing == failures < MaxFailures /\ failures' = failures + 1

loop == <<work, due>>
clients == <<opened, leaked>>

\* SIGTERM or SIGINT: it interrupts neither a batch nor a sleep.
Stop == running /\ running' = FALSE /\ UNCHANGED <<role, pc, loop, clients, failures>>

\* The constructors of the role's clients.  One that raises goes to finally.
Start ==
  /\ pc = "start"
  /\ \/ opened' = opened \cup Own /\ pc' = "loop" /\ UNCHANGED failures
     \/ Own # {} /\ Failing /\ pc' = "finally" /\ UNCHANGED opened
  /\ UNCHANGED <<role, running, loop, leaked>>

\* Mutant of Continues: the loop looks at nothing.
ContinuesAlways == TRUE

Continues == running

Iterate ==
  /\ pc = "loop"
  /\ pc' = IF ~Continues THEN "finally" ELSE IF role = "reconciler" /\ due THEN "schedule" ELSE "first"
  /\ work' = FALSE
  /\ UNCHANGED <<role, running, due, clients, failures>>

TimePasses == ~due /\ due' = TRUE /\ UNCHANGED <<role, running, pc, work, clients, failures>>

\* maintain_schedule and next_warm: it may raise, which is only logged.
Schedule ==
  /\ pc = "schedule" /\ pc' = "first" /\ due' = FALSE
  /\ UNCHANGED <<role, running, work, clients, failures>>

Two == role = "maintenance"

\* The batch of the role; the maintenance role has two, refresh and expiry.
Batch ==
  /\ pc \in {"first", "second"}
  /\ \/ /\ \E w \in BOOLEAN : work' = (w \/ work)
        /\ pc' = IF Two /\ pc = "first" THEN "second" ELSE IF work' THEN "loop" ELSE "rest"
        /\ UNCHANGED failures
     \/ Failing /\ pc' = "recover" /\ UNCHANGED work
  /\ UNCHANGED <<role, running, due, clients>>

\* The handler of an exception counts it and sleeps for a second.
Recover ==
  /\ pc = "recover" /\ pc' = "loop"
  /\ UNCHANGED <<role, running, work, due, clients, failures>>

Rest ==
  /\ pc = "rest" /\ pc' = "loop"
  /\ UNCHANGED <<role, running, work, due, clients, failures>>

\* finally: executor, producer, consumer, database, Redis, as far as opened.
\* A close that raises leaves the ones after it open.
Close ==
  /\ pc = "finally" /\ pc' = "exited"
  /\ \/ opened' = {} /\ UNCHANGED <<leaked, failures>>
     \/ Failing /\ \E k \in SUBSET opened : k # {} /\ opened' = k /\ leaked' = k
  /\ UNCHANGED <<role, running, loop>>

Process == Start \/ Iterate \/ Schedule \/ Batch \/ Recover \/ Rest \/ Close

Next == Stop \/ TimePasses \/ Process

Spec == Init /\ [][Next]_vars

-----------------------------------------------------------------------------
\* "a failure here must not stop reconciliation already scheduled": while the
\* worker runs it calls reconcile_pass again and again, even if
\* maintain_schedule never succeeds.
PassesGoOn == role = "reconciler" => []<>(pc = "first") \/ <>(~running) \/ <>(pc = "exited")

\* stop, while running and finally of main: a signal ends the process after
\* the current iteration, also while its batches fail, and leaves no client
\* open unless closing one raises.
StopEnds == (~running) ~> (pc = "exited" /\ opened = leaked)

=============================================================================
