----------------------------- MODULE MCLoadTools -----------------------------
(***************************************************************************)
(* Small instances of the payment simulator and of the tools that load the *)
(* service and judge the result: the load generator, its coordinator, the  *)
(* audit of holds and the contention measurement.  The initial state picks *)
(* one of them; the others stay as they started.                           *)
(***************************************************************************)
EXTENDS PaymentSimulator

VARIABLES
  system,
  mode, warm, booted, next, pending, task, attempts, wire, stray, held, statuses,
  counted, task_errors, drops, expected_hot, late_deliveries,
  coordinator, args, started, process, gate, skewed, credentials, waited, reaped, summary,
  now, reply, queue, expires, created, status, auditor, checked, durable, overlaps,
  audited_holds, stream_entries, settled,
  require_ingress, wave, cpc, outcome, stuck, proc, start, req, answer, late_starts, reconnected, untimed,
  owner

simulatorVars == <<due, deliveries, lease_token, lease_until, phase, at, late, received, callbacks, effects>>
generatorVars == <<mode, warm, booted, next, pending, task, attempts, wire, stray, held, statuses,
                   counted, task_errors, drops, expected_hot, late_deliveries>>
coordinatorVars == <<coordinator, args, started, process, gate, skewed, credentials, waited, reaped, summary>>
auditVars == <<now, reply, queue, expires, created, status, auditor, checked, durable, overlaps,
               audited_holds, stream_entries, settled>>
waveVars == <<require_ingress, wave, cpc, outcome, stuck, proc, start, req, answer, late_starts, reconnected,
              untimed, owner>>
all == <<system, simulatorVars, generatorVars, coordinatorVars, auditVars, waveVars, failures>>

\* Two requests for a hot seat around one for an ordinary one.
Generator == INSTANCE LoadGenerator WITH
  Workload <- 3, Kind <- <<"hot", "hold", "hot">>, Inflight <- 2, MaxAttempts <- 2,
  LateWindow <- TRUE, Shows <- {"v1"}, MaxWarming <- 2, MaxFailures <- 2, phase <- task

\* A run without conflicts in which nothing may start late.
Strict == INSTANCE LoadGenerator WITH
  Workload <- 3, Kind <- <<"hold", "read", "hold">>, Inflight <- 2, MaxAttempts <- 2,
  LateWindow <- FALSE, Shows <- {"v1"}, MaxWarming <- 2, MaxFailures <- 2, phase <- task

\* Three workers that may fail, and the shards of larger manifests.
Workers == INSTANCE LoadCoordinator WITH
  MaxWorkers <- 3, MaxShows <- 3, MaxViewersPerShow <- 1, MaxRate <- 3, MaxFailures <- 2,
  pc <- coordinator, late <- skewed
Shards == INSTANCE LoadCoordinator WITH
  MaxWorkers <- 3, MaxShows <- 5, MaxViewersPerShow <- 2, MaxRate <- 7, MaxFailures <- 0,
  pc <- coordinator, late <- skewed

\* Items 1 and 3 belong to one worker, item 2 to the other.
Direct == INSTANCE HoldAudit WITH
  Items <- 1 .. 3, Runs <- {0, 1}, RunOf <- [i \in 1 .. 3 |-> i % 2], SeatOf <- [i \in 1 .. 3 |-> 1],
  RedisFirst <- FALSE, MaxTime <- 3, MaxTtl <- 3, MaxFailures <- 1, pc <- auditor, row <- durable
Queued == INSTANCE HoldAudit WITH
  Items <- 1 .. 3, Runs <- {0, 1}, RunOf <- [i \in 1 .. 3 |-> i % 2], SeatOf <- [i \in 1 .. 3 |-> 1],
  RedisFirst <- TRUE, MaxTime <- 2, MaxTtl <- 2, MaxFailures <- 1, pc <- auditor, row <- durable

\* One worker on warm connections, two on cold ones, and the same backwards.
Matrix == INSTANCE ContentionWave WITH
  Contenders <- 3, Lanes <- 2, FirstSeat <- 0, MaxFailures <- 1, row <- answer,
  Variants <- <<[mode |-> "warm", workers |-> 1], [mode |-> "cold", workers |-> 2]>>

MCInit ==
  /\ system \in {"simulator", "generator", "strict", "workers", "shards", "direct", "queued", "matrix"}
  /\ Init /\ Direct!Init /\ Matrix!Init
  /\ system # "matrix" => ~require_ingress
  /\ IF system = "strict" THEN Strict!Init ELSE Generator!Init
  /\ CASE system = "workers" -> Workers!Init
       [] system = "shards" -> Shards!Init
       [] OTHER -> Workers!Init /\ args = [workers |-> 1, rate |-> 1, shows |-> 1, viewers |-> 1]

MCNext ==
  \/ /\ system = "simulator" /\ Next
     /\ UNCHANGED <<system, generatorVars, coordinatorVars, auditVars, waveVars>>
  \/ /\ \/ system = "generator" /\ Generator!Next
        \/ system = "strict" /\ Strict!Next
     /\ UNCHANGED <<system, simulatorVars, coordinatorVars, auditVars, waveVars>>
  \/ /\ \/ system = "workers" /\ Workers!Next
        \/ system = "shards" /\ Shards!Next
     /\ UNCHANGED <<system, simulatorVars, generatorVars, auditVars, waveVars>>
  \/ /\ \/ system = "direct" /\ Direct!Next
        \/ system = "queued" /\ Queued!Next
     /\ UNCHANGED <<system, simulatorVars, generatorVars, coordinatorVars, waveVars>>
  \/ /\ system = "matrix" /\ Matrix!Next
     /\ UNCHANGED <<system, simulatorVars, generatorVars, coordinatorVars, auditVars>>

MCSpec == MCInit /\ [][MCNext]_all

-----------------------------------------------------------------------------
\* The verdict of a load run (run in the load generator): its gate passes only
\* if no answer was unexpected, every item is accounted for once, and a retry
\* is never refused the hold that its own first attempt created.
LoadVerdictIsHonest ==
  /\ system = "generator" => Generator!GateIsHonest /\ Generator!AccountingAddsUp /\ Generator!RetryFindsItsHold
  /\ system = "strict" => Strict!GateIsHonest /\ Strict!AccountingAddsUp /\ Strict!RetryFindsItsHold

\* The coordinator of a distributed run: a merged pass speaks for every worker,
\* the shards add up to the whole load and share no show, and no process and no
\* file with credentials outlives the run.
MergedVerdictIsHonest ==
  /\ system = "workers" => Workers!PassSpeaksForAll /\ Workers!NothingIsLeft
  /\ system = "shards" => Shards!RatesAddUp /\ Shards!ShardsKeepTheirShows

\* The audit of holds (durability and expiry): a pass means that every
\* accepted hold is recorded and has lapsed, overlapping holds of a seat are
\* found, and a load that had settled is not failed.
AuditIsExact ==
  /\ system = "direct" => Direct!PassMeansSettled /\ Direct!OverlapsAreFound /\ Direct!QuietLoadPasses
  /\ system = "queued" => Queued!PassMeansSettled /\ Queued!OverlapsAreFound /\ Queued!QuietLoadPasses

\* The contention measurement: nobody starts before all are ready, a pass names
\* the owner of the seat, and a wave without faults passes.
WaveMeasuresContention ==
  system = "matrix" => Matrix!NobodyStartsEarly /\ Matrix!PassNamesTheOwner /\ Matrix!QuietWavePasses
=============================================================================
