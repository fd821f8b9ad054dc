---------------------------- MODULE Reconciliation ----------------------------
(***************************************************************************)
(* The reconciliation schedule: rows of event_reconciliation are seeded    *)
(* while their event is in its sale window, claimed oldest first under a   *)
(* lease, reconciled by a full snapshot and rescheduled, deferred with a   *)
(* capped exponential backoff, and pruned after the window.                *)
(*                                                                         *)
(* Clock times are kept relative to now, in ticks: next_due_at is due (0   *)
(* once it has passed), lease_until is lease.  Rows that are due stand in  *)
(* queue in the order of next_due_at.  A worker stands for the token of    *)
(* its batch, since it runs one batch at a time.                           *)
(***************************************************************************)
EXTENDS Naturals, Sequences, FiniteSets, SequencesExt

CONSTANTS
  Events, Workers,
  None,
  Poison,       \* events whose snapshot always fails
  BatchSize,    \* reconcile_batch_size
  SeedBatch,    \* reconcile_seed_batch
  Interval,     \* reconcile_interval_seconds
  Backoff,      \* reconcile_backoff_ms
  ShiftCap,     \* BACKOFF_SHIFT_CAP
  Lease,        \* reconcile_lease_seconds
  MaxFailures   \* bound: failed calls, crashes and leases outlived

VARIABLES
  window,    \* sale window of each event: before, open, over
  row,       \* schedule rows: None or a record
  queue,     \* due rows, oldest next_due_at first
  batch,     \* rest of each worker's event_ids
  step,      \* what a worker does with Head(batch)
  failures

vars == <<window, row, queue, batch, step, failures>>

Init ==
  /\ window = [e \in Events |-> "before"]
  /\ row = [e \in Events |-> None]
  /\ queue = <<>>
  /\ batch = [w \in Workers |-> <<>>]
  /\ step = [w \in Workers |-> "idle"]
  /\ failures = 0

Failing == failures < MaxFailures /\ failures' = failures + 1

Open == {e \in Events : window[e] = "open"}
Rows == {e \in Events : row[e] # None}
Unleased(e) == row[e].token = None \/ row[e].lease = 0
Without(e) == SelectSeq(queue, LAMBDA q : q # e)

-----------------------------------------------------------------------------
\* statement_timestamp() enters or leaves sale_starts - window .. sale_ends + window.
WindowMoves(e) ==
  /\ window[e] # "over"
  /\ window' = [window EXCEPT ![e] = IF @ = "before" THEN "open" ELSE "over"]
  /\ UNCHANGED <<row, queue, batch, step, failures>>

\* A batch that is being worked on outlives its lease.
Outlived == {e \in Rows : row[e].lease = 1 /\ \E w \in Workers : row[e].token = w /\ Contains(batch[w], e)}

Tick ==
  /\ \E e \in Rows : row[e].due > 0 \/ row[e].lease > 0
  /\ IF Outlived = {} THEN UNCHANGED failures ELSE Failing
  /\ row' = [e \in Events |->
               IF e \notin Rows THEN None
               ELSE [row[e] EXCEPT !.due = IF @ > 0 THEN @ - 1 ELSE 0, !.lease = IF @ > 0 THEN @ - 1 ELSE 0]]
  /\ \E s \in SetToSeqs({e \in Rows : row[e].due = 1}) : queue' = queue \o s
  /\ UNCHANGED <<window, batch, step>>

Prunable == {e \in Rows : window[e] # "open" /\ Unleased(e)}

Bounded(S, n) == {T \in SUBSET S : Cardinality(T) = IF Cardinality(S) < n THEN Cardinality(S) ELSE n}

\* maintain_schedule: seed, then prune, in one transaction.  A new row is due.
Maintain ==
  \E seeded \in Bounded(Open \ Rows, SeedBatch), pruned \in Bounded(Prunable, SeedBatch) :
    /\ seeded \cup pruned # {}
    /\ row' = [e \in Events |->
                 IF e \in seeded THEN [due |-> 0, fails |-> 0, lease |-> 0, token |-> None]
                 ELSE IF e \in pruned THEN None ELSE row[e]]
    /\ \E s \in SetToSeqs(seeded) : queue' = SelectSeq(queue, LAMBDA q : q \notin pruned) \o s
    /\ UNCHANGED <<window, batch, step, failures>>

-----------------------------------------------------------------------------
(***************************************************************************)
(* reconcile_batch                                                         *)
(***************************************************************************)
Due == SelectSeq(queue, LAMBDA e : Unleased(e) /\ e \in Open)

\* Mutant of Oldest: the rows are claimed by event_id.
OldestById == LET s == SetToSeq(ToSet(Due)) IN SubSeq(s, 1, IF Len(s) < BatchSize THEN Len(s) ELSE BatchSize)

\* ORDER BY next_due_at LIMIT
Oldest == SubSeq(Due, 1, IF Len(Due) < BatchSize THEN Len(Due) ELSE BatchSize)

\* claim_due_events
Claim(w) ==
  /\ step[w] = "idle" /\ Due # <<>>
  /\ batch' = [batch EXCEPT ![w] = Oldest]
  /\ row' = [e \in Events |-> IF Contains(Oldest, e) THEN [row[e] EXCEPT !.lease = Lease, !.token = w] ELSE row[e]]
  /\ step' = [step EXCEPT ![w] = "claimed"]
  /\ UNCHANGED <<window, queue, failures>>

Fenced(w, e) == e \in Rows /\ row[e].token = w

\* On to the next event of the batch, or to the next batch.
Advance(w) ==
  /\ batch' = [batch EXCEPT ![w] = Tail(@)]
  /\ step' = [step EXCEPT ![w] = IF Len(batch[w]) = 1 THEN "idle" ELSE "next"]

\* The wall-clock budget is spent: the rest is given back, unless that fails.
\* Before the first event it counts as a failure to get anything done.
Deadline(w) ==
  /\ step[w] \in {"claimed", "next"}
  /\ LET released == [e \in Events |->
                       IF Contains(batch[w], e) /\ Fenced(w, e)
                       THEN [row[e] EXCEPT !.lease = 0, !.token = None] ELSE row[e]]
     IN \/ step[w] = "next" /\ row' = released /\ UNCHANGED failures
        \/ Failing /\ row' \in {released, row}
  /\ batch' = [batch EXCEPT ![w] = <<>>] /\ step' = [step EXCEPT ![w] = "idle"]
  /\ UNCHANGED <<window, queue>>

\* snapshot writes the map, or raises.
Snapshot(w) ==
  /\ step[w] \in {"claimed", "next"}
  /\ \/ /\ Head(batch[w]) \notin Poison
        /\ step' = [step EXCEPT ![w] = "complete"] /\ UNCHANGED failures
     \/ /\ IF Head(batch[w]) \in Poison THEN UNCHANGED failures ELSE Failing
        /\ step' = [step EXCEPT ![w] = "defer"]
  /\ UNCHANGED <<window, row, queue, batch>>

\* Mutant of Completed: the token is not compared.
CompletedAlways(w, e) == e \in Rows

\* WHERE event_id = ... AND lease_token = ...
Completed(w, e) == Fenced(w, e)

\* complete_reconciliation; without the token nothing changes, and after an
\* error the lease stays.  (An error after the COMMIT leaves what success leaves.)
Complete(w) ==
  /\ step[w] = "complete"
  /\ LET e == Head(batch[w]) IN
     \/ /\ Completed(w, e)
        /\ row' = [row EXCEPT ![e] = [due |-> Interval, fails |-> 0, lease |-> 0, token |-> None]]
        /\ queue' = Without(e) /\ UNCHANGED failures
     \/ ~Completed(w, e) /\ UNCHANGED <<row, queue, failures>>
     \/ Failing /\ UNCHANGED <<row, queue>>
  /\ Advance(w)
  /\ UNCHANGED window

\* LEAST(base * power(2, LEAST(consecutive_failures, cap)), base * 2**cap)
Delay(fails) == Backoff * 2 ^ (IF fails < ShiftCap THEN fails ELSE ShiftCap)

\* The counter only matters up to the cap: the model saturates it above.
Counted(fails) == IF fails > ShiftCap THEN fails ELSE fails + 1

\* defer_reconciliation; it may fail in turn, and the lease stays.
Defer(w) ==
  /\ step[w] = "defer"
  /\ LET e == Head(batch[w]) IN
     \/ /\ Fenced(w, e)
        /\ row' = [row EXCEPT ![e] = [due |-> Delay(row[e].fails), fails |-> Counted(row[e].fails),
                                      lease |-> 0, token |-> None]]
        /\ queue' = IF Delay(row[e].fails) = 0 THEN queue ELSE Without(e)
        /\ UNCHANGED failures
     \/ ~Fenced(w, e) /\ UNCHANGED <<row, queue, failures>>
     \/ Failing /\ UNCHANGED <<row, queue>>
  /\ Advance(w)
  /\ UNCHANGED window

Crash(w) ==
  /\ step[w] # "idle" /\ Failing
  /\ batch' = [batch EXCEPT ![w] = <<>>] /\ step' = [step EXCEPT ![w] = "idle"]
  /\ UNCHANGED <<window, row, queue>>

Work(w) == Claim(w) \/ Snapshot(w) \/ Complete(w) \/ Defer(w)

Next ==
  \/ \E e \in Events : WindowMoves(e)
  \/ Tick \/ Maintain
  \/ \E w \in Workers : Work(w) \/ Deadline(w) \/ Crash(w)

Spec == Init /\ [][Next]_vars

-----------------------------------------------------------------------------
(***************************************************************************)
(* Properties.                                                             *)
(***************************************************************************)

\* In a step, a worker whose lease another worker has taken over moves neither
\* the deadline nor the failure count of the row: "a stale token cannot move
\* another worker's deadline".
StaleWorkerIsFenced ==
  \A w \in Workers, e \in Events :
    /\ step[w] \in {"complete", "defer"} /\ step'[w] # step[w]
    /\ row'[e] # row[e]
    => row[e].token = w

\* "A leased row is never removed underneath a worker": what a worker holds
\* under a live lease stays in the schedule in every step, also after the sale window.
LeasedRowIsKept ==
  \A e \in Rows : row[e].token # None /\ row[e].lease > 0 => row'[e] # None

\* ... and so again whenever it has become due.
DueEventIsReconciled ==
  \A e \in Events \ Poison :
    e \in Rows /\ row[e].due = 0 ~> e \notin Rows \/ window[e] = "over" \/ (row[e].due > 0 /\ row[e].fails = 0)

=============================================================================
