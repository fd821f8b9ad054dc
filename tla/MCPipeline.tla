----------------------------- MODULE MCPipeline -----------------------------
(***************************************************************************)
(* A small instance of Outbox for TLC, and one of Reconciliation: system   *)
(* says which one runs, the other stays as it started.                     *)
(***************************************************************************)
EXTENDS Outbox, TLC

VARIABLES system, window, row, queue, batch, step

scheduleVars == <<window, row, queue, batch, step>>

Schedule == INSTANCE Reconciliation WITH
  Workers <- Consumers, Poison <- {}, BatchSize <- 2, SeedBatch <- 1, Interval <- 1,
  Backoff <- 1, ShiftCap <- 1, Lease <- 2

pipelineVars == <<outbox_events, published, leased, lease_token, pub, rows, pending, confirmed,
                  inflight, acked, log, offset, assigned, position, con, attempts, consumer_inbox,
                  applied, dead_letters, replaying>>

MCInit == system \in {"pipeline", "schedule"} /\ Init /\ Schedule!Init

MCNext ==
  \/ system = "pipeline" /\ Next /\ UNCHANGED <<system, scheduleVars>>
  \/ system = "schedule" /\ Schedule!Next /\ UNCHANGED <<system, pipelineVars>>

MCSpec == MCInit /\ [][MCNext]_<<system, vars, scheduleVars>>

Symmetry == Permutations(Events) \cup Permutations(Publishers) \cup Permutations(Consumers)

\* StaleWorkerIsFenced and LeasedRowIsKept of Reconciliation: a worker whose
\* lease lapsed moves no deadline with complete_reconciliation or
\* defer_reconciliation, and maintain_schedule prunes no row under a lease.
StaleWorkerIsFenced == [][Schedule!StaleWorkerIsFenced /\ Schedule!LeasedRowIsKept]_<<row, step>>
=============================================================================
