-------------------------- MODULE MCWorkerProgress --------------------------
(***************************************************************************)
(* Small instances of the workers that keep maps, commands and the         *)
(* schedule moving, with their fairness: SeatProjection (its refresh       *)
(* workers, then its reconcilers), RedisFirst, Reconciliation and          *)
(* WorkerLoop.  system says which one runs, the others stay as they        *)
(* started.                                                                *)
(***************************************************************************)
EXTENDS Naturals, SequencesExt

CONSTANTS None, e1, e2, s1, k1, c1, c2, w1, w2

VARIABLES
  system, failures,
  version, outbox, generation, completed_generation, seat_ids, lease_token, lease_live, rows,
  completed, work, seatmap, late, maps, seen,
  sale_open, expired, intake_map, intake_maps, idem, status, payload, stream, pending, row, hold,
  batch, step, writer_rows, reads, cached,
  window, schedule_row, queue, schedule_batch, schedule_step,
  role, running, pc, has_work, due, opened, leaked

projectionVars ==
  <<version, outbox, generation, completed_generation, seat_ids, lease_token, lease_live, rows,
    completed, work, seatmap, late, maps, seen>>
intakeVars ==
  <<sale_open, expired, intake_map, intake_maps, idem, status, payload, stream, pending, row, hold,
    batch, step, writer_rows, reads, cached>>
scheduleVars == <<window, schedule_row, queue, schedule_batch, schedule_step>>
loopVars == <<role, running, pc, has_work, due, opened, leaked>>
vars == <<system, failures, projectionVars, intakeVars, scheduleVars, loopVars>>

Refresh == INSTANCE SeatProjection WITH
  Events <- {e1}, Seats <- {s1}, Workers <- {w1, w2}, Reconcilers <- {}, RefreshLimit <- 1,
  MaxVersion <- 2, MaxMaps <- 1, MaxFailures <- 1

Repair == INSTANCE SeatProjection WITH
  Events <- {e1}, Seats <- {s1}, Workers <- {}, Reconcilers <- {w1, w2}, RefreshLimit <- 1,
  MaxVersion <- 1, MaxMaps <- 2, MaxFailures <- 1

Intake == INSTANCE RedisFirst WITH
  Seats <- {s1}, Keys <- {k1}, Commands <- {c1, c2}, Writers <- {w1}, Clients <- {},
  MaxBacklog <- 2, BatchLimit <- 2, MaxMaps <- 1, MaxReads <- 0, MaxFailures <- 1,
  seatmap <- intake_map, maps <- intake_maps, rows <- writer_rows

\* The snapshot of e1 fails every time.
Schedule == INSTANCE Reconciliation WITH
  Events <- {e1, e2}, Workers <- {w1}, Poison <- {e1}, BatchSize <- 1, SeedBatch <- 1,
  Interval <- 1, Backoff <- 1, ShiftCap <- 1, Lease <- 2, MaxFailures <- 1,
  row <- schedule_row, batch <- schedule_batch, step <- schedule_step

Loop == INSTANCE WorkerLoop WITH
  Roles <- {"publisher", "consumer", "reservation-writer", "maintenance", "refresh", "expiry",
            "reconciler", "simulator"},
  MaxFailures <- 3, work <- has_work

OnRefresh(A) == system = "refresh" /\ A /\ UNCHANGED <<system, intakeVars, scheduleVars, loopVars>>
OnRepair(A) == system = "repair" /\ A /\ UNCHANGED <<system, intakeVars, scheduleVars, loopVars>>
OnIntake(A) == system = "intake" /\ A /\ UNCHANGED <<system, projectionVars, scheduleVars, loopVars>>
OnSchedule(A) == system = "schedule" /\ A /\ UNCHANGED <<system, projectionVars, intakeVars, loopVars>>
OnLoop(A) == system = "loop" /\ A /\ UNCHANGED <<system, projectionVars, intakeVars, scheduleVars>>

Init ==
  /\ system \in {"refresh", "repair", "intake", "schedule", "loop"}
  /\ IF system = "repair" THEN Repair!Init ELSE Refresh!Init
  /\ Intake!Init /\ Schedule!Init /\ Loop!Init
  /\ system # "loop" => role = "publisher"

Next ==
  \/ OnRefresh(Refresh!Next)
  \/ OnRepair(Repair!Next)
  \/ OnIntake(Intake!Next)
  \/ OnSchedule(Schedule!Next)
  \/ OnLoop(Loop!Next)

\* Refresh workers and consumers keep running; nothing makes a failure happen,
\* and a lease whose batch is gone does pass its deadline.
RefreshFairness ==
  /\ WF_vars(OnRefresh(\E m \in outbox : \E ids \in {m.seats, None} : Refresh!ConsumeSeatsChanged(m, ids)))
  /\ \A w \in {w1, w2} :
       /\ WF_vars(OnRefresh(\E E \in SUBSET {e1} : Refresh!Claim(w, E)))
       /\ WF_vars(OnRefresh(\E r \in rows[w] : Refresh!ReadRow(w, r)))
       /\ WF_vars(OnRefresh(Refresh!ReadAll(w, e1)))
       /\ WF_vars(OnRefresh(Refresh!Write(w)))
       /\ WF_vars(OnRefresh(Refresh!Complete(w)))
  /\ WF_vars(OnRefresh(~Refresh!Held(e1) /\ Refresh!LeaseLapse(e1)))

\* Every event of the active window comes up in the reconciliation schedule
\* again and again (claim_due_events takes the oldest deadline first), and the
\* consumers keep running.
RepairFairness ==
  /\ WF_vars(OnRepair(\E m \in outbox : \E ids \in {m.seats, None} : Repair!ConsumeSeatsChanged(m, ids)))
  /\ \A w \in {w1, w2} : SF_vars(OnRepair(Repair!ReadAll(w, e1))) /\ WF_vars(OnRepair(Repair!Write(w)))

\* Writers keep polling and their calls are answered.  An entry that nobody
\* has in hand comes up for XAUTOCLAIM again and again; a claim makes its
\* entries busy for the lease interval, so new entries get read in between.
IntakeFairness ==
  /\ SF_vars(OnIntake(Intake!Read(w1)))
  /\ \A c \in {c1, c2} :
       SF_vars(OnIntake(/\ ~Intake!InHand(c)
                        /\ \E I \in SUBSET ToSet(stream) : Intake!Reclaim(w1, I)
                        /\ c \in ToSet(batch'[w1])))
  /\ WF_vars(OnIntake(\/ Intake!Persist(w1) \/ Intake!MarkDurable(w1) \/ Intake!MarkFailed(w1)
                      \/ Intake!SnapshotRead(w1) \/ Intake!SnapshotWrite(w1) \/ Intake!Acknowledge(w1)))

\* Time passes, and the loop of every reconciler runs maintain_schedule and
\* reconcile_pass again and again.  A pass stops at its deadline only after
\* it has reconciled something, but for the failures that are counted.
ScheduleFairness ==
  WF_vars(OnSchedule(Schedule!Tick)) /\ WF_vars(OnSchedule(Schedule!Maintain)) /\ WF_vars(OnSchedule(Schedule!Work(w1)))

\* Calls return: each has a timeout.  Nobody has to send a signal.
LoopFairness == WF_vars(OnLoop(Loop!Process))

FairSpec ==
  Init /\ [][Next]_vars /\ RefreshFairness /\ RepairFairness /\ IntakeFairness /\ ScheduleFairness /\ LoopFairness

-----------------------------------------------------------------------------
\* Of SeatProjection: refresh_batch brings every committed change of a seat to
\* the map, unless the map is lost, which reconciliation repairs.
ChangesReachTheMap == Refresh!ChangesReachTheMap

\* Of SeatProjection: reconciliation alone repairs a lost map, a half-written
\* one and a stale snapshot.
MapsBecomeCurrent == system = "repair" => Repair!MapsBecomeCurrent

\* Of RedisFirst: persist_reservation_batch settles every accepted command,
\* across crashes and abandoned batches.
CommandsAreSettled == Intake!CommandsAreSettled

\* Of Reconciliation: every due event is reconciled although the snapshot of
\* another one fails every time.
DueEventIsReconciled == Schedule!DueEventIsReconciled

\* Of WorkerLoop: main calls reconcile_pass again and again although
\* maintain_schedule may never succeed, until a signal ends the process.
LoopGoesOnUntilStopped == Loop!StopEnds /\ (system = "loop" => Loop!PassesGoOn)
=============================================================================
