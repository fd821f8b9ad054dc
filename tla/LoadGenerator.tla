---------------------------- MODULE LoadGenerator ----------------------------
(***************************************************************************)
(* The HTTP load generator: it prepares a workload, dispatches every item  *)
(* at its due time or drops it, retries transient failures under the same  *)
(* idempotency key and judges the run by what it counted.                  *)
(*                                                                         *)
(* The API is here what the generator can see of it: an idempotent hold of *)
(* a seat behind the shield, transient refusals and errors, and answers    *)
(* that get lost, before or after the request took effect.                 *)
(***************************************************************************)
EXTENDS Naturals, FiniteSets

CONSTANTS
  Workload,      \* number of items
  Kind,          \* Kind[i]: read, hold or hot
  Inflight,      \* --inflight
  MaxAttempts,   \* --max-attempts
  LateWindow,    \* whether --late-delivery-window-ms is set
  Shows,         \* shows whose validators are fetched first
  MaxWarming,    \* max_attempts of the bootstrap
  MaxFailures    \* bound: errors and lost answers

Items == 1 .. Workload
Writes == {i \in Items : Kind[i] # "read"}

\* Ordinary holds have a seat each, hot ones share seat 0.
Seat(i) == IF Kind[i] = "hot" THEN 0 ELSE i

VARIABLES
  mode,       \* of run: boot, measuring, done, aborted
  warm,       \* attempts made for each show's validator
  booted,     \* shows whose validator is known
  next,       \* next item of the workload
  pending,    \* tasks the dispatch loop still counts
  phase,      \* of each item's task
  attempts,   \* HTTP attempts of each item
  wire,       \* what is on the wire for each item
  stray,      \* requests whose sender has given up
  held,       \* held[s]: the item whose key created the hold of seat s, or 0
  statuses,   \* final status of each counted item
  counted, task_errors, drops, expected_hot, late_deliveries,
  failures

counters == <<counted, task_errors, drops, expected_hot, late_deliveries>>
boot == <<warm, booted>>
vars == <<mode, boot, next, pending, phase, attempts, wire, stray, held, statuses, counters, failures>>

Init ==
  /\ mode = "boot" /\ warm = [s \in Shows |-> 0] /\ booted = {}
  /\ next = 1 /\ pending = {}
  /\ phase = [i \in Items |-> "planned"] /\ attempts = [i \in Items |-> 0]
  /\ wire = [i \in Items |-> "none"] /\ stray = {}
  /\ held = [s \in {Seat(i) : i \in Writes} |-> 0]
  /\ statuses = [i \in Items |-> "none"]
  /\ counted = 0 /\ task_errors = 0 /\ drops = 0 /\ expected_hot = 0 /\ late_deliveries = 0
  /\ failures = 0

Failing == failures < MaxFailures /\ failures' = failures + 1

-----------------------------------------------------------------------------
(***************************************************************************)
(* Before the measurement.                                                 *)
(***************************************************************************)

\* fetch_initial_validators: only SEATMAP_WARMING is tried again.
Bootstrap(s) ==
  /\ mode = "boot" /\ s \in Shows \ booted
  /\ warm' = [warm EXCEPT ![s] = @ + 1]
  /\ \/ booted' = booted \cup {s} /\ UNCHANGED <<mode, failures>>
     \/ /\ Failing /\ UNCHANGED booted
        /\ IF warm'[s] < MaxWarming THEN UNCHANGED mode ELSE mode' = "aborted"
  /\ UNCHANGED <<next, pending, phase, attempts, wire, stray, held, statuses, counters>>

\* The manifest is refused, not ready, or expires; the start was missed.
Abort ==
  /\ mode = "boot" /\ Failing
  /\ mode' = "aborted"
  /\ UNCHANGED <<boot, next, pending, phase, attempts, wire, stray, held, statuses, counters>>

Start ==
  /\ mode = "boot" /\ booted = Shows
  /\ mode' = "measuring"
  /\ UNCHANGED <<boot, next, pending, phase, attempts, wire, stray, held, statuses, counters, failures>>

-----------------------------------------------------------------------------
(***************************************************************************)
(* The dispatch loop.  lag is "none", within the late-delivery window, or  *)
(* beyond it.                                                              *)
(***************************************************************************)
Slot == Cardinality(pending) < Inflight

RecoverLate(lag) == lag = "window" /\ LateWindow /\ Slot

Dropped(lag) == ~RecoverLate(lag) /\ (lag # "none" \/ ~Slot)

Dispatch(lag) ==
  /\ mode = "measuring" /\ next <= Workload
  /\ next' = next + 1
  /\ IF Dropped(lag)
     THEN /\ drops' = drops + 1
          /\ phase' = [phase EXCEPT ![next] = "dropped"]
          /\ UNCHANGED <<pending, late_deliveries>>
     ELSE /\ pending' = pending \cup {next}
          /\ phase' = [phase EXCEPT ![next] = "send"]
          /\ late_deliveries' = IF RecoverLate(lag) THEN late_deliveries + 1 ELSE late_deliveries
          /\ UNCHANGED drops
  /\ UNCHANGED <<mode, boot, attempts, wire, stray, held, statuses, counted, task_errors, expected_hot, failures>>

-----------------------------------------------------------------------------
(***************************************************************************)
(* request                                                                 *)
(***************************************************************************)
Send(i) ==
  /\ phase[i] = "send"
  /\ phase' = [phase EXCEPT ![i] = "await"]
  /\ attempts' = [attempts EXCEPT ![i] = IF @ < MaxAttempts THEN @ + 1 ELSE @]
  /\ wire' = [wire EXCEPT ![i] = "request"]
  /\ UNCHANGED <<mode, boot, next, pending, stray, held, statuses, counters, failures>>

\* Idempotency-Key: run id and index.
SameKey(i) == held[Seat(i)] = i

\* What the API answers to a hold.  The shield refuses it while an abandoned
\* attempt for the seat is still being served.
HoldAnswer(i) ==
  IF \E j \in stray : Seat(j) = Seat(i) THEN "SEAT_BUSY"
  ELSE IF held[Seat(i)] = 0 \/ SameKey(i) THEN "201" ELSE "SEAT_UNAVAILABLE"

Serve(i) ==
  /\ wire[i] = "request"
  /\ \/ /\ wire' = [wire EXCEPT ![i] = IF i \in Writes THEN HoldAnswer(i) ELSE "200"]
        /\ held' = IF i \in Writes /\ wire'[i] = "201" THEN [held EXCEPT ![Seat(i)] = i] ELSE held
        /\ UNCHANGED failures
     \/ wire' = [wire EXCEPT ![i] = "retryable"] /\ UNCHANGED <<held, failures>>
     \/ wire' = [wire EXCEPT ![i] = "500"] /\ Failing /\ UNCHANGED held
  /\ UNCHANGED <<mode, boot, next, pending, phase, attempts, stray, statuses, counters>>

\* A transport error: the request or its answer is lost, or the request is
\* still being served.
Lose(i) ==
  /\ phase[i] = "await" /\ wire[i] \notin {"none", "lost"} /\ Failing
  /\ wire' = [wire EXCEPT ![i] = "lost"]
  /\ stray' \in IF wire[i] = "request" /\ i \in Writes THEN {stray, stray \cup {i}} ELSE {stray}
  /\ UNCHANGED <<mode, boot, next, pending, phase, attempts, held, statuses, counters>>

ServeStray(i) ==
  /\ i \in stray
  /\ stray' = stray \ {i}
  /\ held' = IF held[Seat(i)] = 0 THEN [held EXCEPT ![Seat(i)] = i] ELSE held
  /\ UNCHANGED <<mode, boot, next, pending, phase, attempts, wire, statuses, counters, failures>>

\* retryable_response, or an httpx.HTTPError, while attempts are left.
Retried(i) == wire[i] \in {"retryable", "lost"} /\ attempts[i] < MaxAttempts

\* One status per item.
Count(i) == 1

Retry(i) ==
  /\ phase[i] = "await" /\ wire[i] \notin {"none", "request"} /\ Retried(i)
  /\ phase' = [phase EXCEPT ![i] = "send"] /\ wire' = [wire EXCEPT ![i] = "none"]
  /\ UNCHANGED <<mode, boot, next, pending, attempts, stray, held, statuses, counters, failures>>

Finish(i) ==
  /\ phase[i] = "await" /\ wire[i] \notin {"none", "request"} /\ ~Retried(i)
  /\ phase' = [phase EXCEPT ![i] = "finished"]
  /\ statuses' = [statuses EXCEPT ![i] = wire[i]]
  /\ counted' = counted + Count(i)
  /\ expected_hot' = IF Kind[i] = "hot" /\ wire[i] \in {"SEAT_BUSY", "SEAT_UNAVAILABLE"}
                     THEN expected_hot + 1 ELSE expected_hot
  /\ UNCHANGED <<mode, boot, next, pending, attempts, wire, stray, held, task_errors, drops, late_deliveries, failures>>

\* An answer the task cannot use (a read without ETag): it ends by exception.
TaskError(i) ==
  /\ phase[i] = "await" /\ wire[i] = "200" /\ Failing
  /\ phase' = [phase EXCEPT ![i] = "raised"]
  /\ UNCHANGED <<mode, boot, next, pending, attempts, wire, stray, held, statuses, counters>>

\* The done callback runs in a later turn of the event loop.
Completed(i) ==
  /\ phase[i] \in {"finished", "raised"} /\ i \in pending
  /\ pending' = pending \ {i}
  /\ task_errors' = IF phase[i] = "raised" THEN task_errors + 1 ELSE task_errors
  /\ UNCHANGED <<mode, boot, next, phase, attempts, wire, stray, held, statuses, counted, drops,
                 expected_hot, late_deliveries, failures>>

\* gather, then the summary.
Summarize ==
  /\ mode = "measuring" /\ next > Workload /\ pending = {}
  /\ mode' = "done"
  /\ UNCHANGED <<boot, next, pending, phase, attempts, wire, stray, held, statuses, counters, failures>>

Task(i) == Send(i) \/ Serve(i) \/ Retry(i) \/ Finish(i) \/ Completed(i)

Dispatched == \E lag \in {"none", "window", "beyond"} : Dispatch(lag)

Next ==
  \/ \E s \in Shows : Bootstrap(s)
  \/ Abort \/ Start \/ Dispatched \/ Summarize
  \/ \E i \in Items : Task(i) \/ Lose(i) \/ ServeStray(i) \/ TaskError(i)

Spec == Init /\ [][Next]_vars

-----------------------------------------------------------------------------
(***************************************************************************)
(* The verdict.                                                            *)
(***************************************************************************)
Expected(i) ==
  IF i \in Writes THEN {"201"} ELSE {"200"}

\* Mutant of unexpected: any 409 of a hot hold is expected.
unexpectedHotIgnored == Cardinality({i \in Items : phase[i] = "finished" /\ Kind[i] # "hot" /\ statuses[i] \notin Expected(i)})

\* Counted answers other than the expected ones, known hot conflicts apart.
unexpected ==
  Cardinality({i \in Items : phase[i] = "finished" /\ statuses[i] \notin Expected(i)}) - expected_hot

\* workload_gate_pass, the latency percentiles apart.
accounting_pass == counted + task_errors + drops = Workload
workload_gate_pass == drops = 0 /\ unexpected = 0 /\ task_errors = 0 /\ accounting_pass

(***************************************************************************)
(* Properties.                                                             *)
(***************************************************************************)

\* A run that passes its gate lost nothing: every item was answered, every
\* ordinary hold exists under its own item's key, and every hot hold was granted
\* or told that the seat is busy or taken.
GateIsHonest ==
  mode = "done" /\ workload_gate_pass =>
    /\ \A i \in Items : phase[i] = "finished"
    /\ \A i \in Writes : Kind[i] = "hold" => held[Seat(i)] = i
    /\ \A i \in Items : Kind[i] = "hot" => statuses[i] \in {"201", "SEAT_BUSY", "SEAT_UNAVAILABLE"}

\* The accounting of a finished run adds up whatever was retried, dropped,
\* delivered late or ended by an exception.
AccountingAddsUp == mode = "done" => accounting_pass

\* A retry finds the hold its item's lost attempt created: no item is told
\* that its seat was taken when it is itself the owner.
RetryFindsItsHold ==
  \A i \in Writes : statuses[i] = "SEAT_UNAVAILABLE" => held[Seat(i)] # i

=============================================================================
