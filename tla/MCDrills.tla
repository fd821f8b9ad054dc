------------------------------- MODULE MCDrills -------------------------------
(***************************************************************************)
(* Small instances of the measurements and drills: the capacity, the seat  *)
(* map and the WAL probe, the failure drill, the unattended capacity       *)
(* stage, the stability suite and the observers.  The initial state picks  *)
(* one; the others stay as they started.                                   *)
(***************************************************************************)
EXTENDS Integers

VARIABLES
  system, failures,
  now, hold_seconds, probe, next, task, sent, burst, hold_status, pay_status, expires, order,
  remaining, version, announced, dirty, cached, booked, seen, projection_done,
  stage, browse, next_seat, viewer, seat, arrival, drops, reply, sold, monitor, results, saved,
  local, step, raising, ended, start_failed, up, late_stop, stray, origin, sale, payment, delivered,
  paid_events, tickets,
  call, deployed, observers, load_start_attempted, load_exit, audit_exit, admission_exit, error,
  finalizer_errors, private_dir, evidence, remote, orphans, verdict,
  suite, block, rate, keepalive, fallbacks, api, observer, stages, configure_error, report,
  kind, clock, due, began, samples, errors, observe, late, ticks, used, net, previous_processes,
  previous_net, cpu_sum, net_sum, net_first, count, served, first, last, firstServed, lastServed,
  restarted,
  wal, interrupted, table, created, answerLost, pool, open, broken, item, conn, success, committed, lag,
  stop, thread, wait_output, wait_samples, query_errors, observer_error, wal_error, cleanup_pass, output,
  exit

probeVars == <<now, hold_seconds, probe, next, task, sent, burst, hold_status, pay_status, expires,
               order, remaining, version, announced, dirty, cached, booked, seen, projection_done>>
browseVars == <<stage, browse, next_seat, viewer, seat, arrival, drops, reply, sold, monitor, results, saved>>
drillVars == <<local, step, raising, ended, start_failed, up, late_stop, stray, origin, sale, payment,
               delivered, paid_events, tickets>>
stageVars == <<call, deployed, observers, load_start_attempted, load_exit, audit_exit, admission_exit,
               error, finalizer_errors, private_dir, evidence, remote, orphans, verdict>>
suiteVars == <<suite, block, rate, keepalive, fallbacks, api, observer, stages, configure_error, report>>
observerVars == <<kind, clock, due, began, samples, errors, observe, late, ticks, used, net,
                  previous_processes, previous_net, cpu_sum, net_sum, net_first, count, served, first,
                  last, firstServed, lastServed, restarted>>
walVars == <<wal, interrupted, table, created, answerLost, pool, open, broken, item, conn, success, committed,
             lag, stop, thread, wait_output, wait_samples, query_errors, observer_error, wal_error,
             cleanup_pass, output, exit>>
all == <<system, failures, probeVars, browseVars, drillVars, stageVars, suiteVars, observerVars, walVars>>

\* Holds that the check refuses, just refuses and accepts.
Hot == INSTANCE CapacityProbe WITH
  Profile <- "hot", Total <- 3, Timeout <- 2, Slack <- 0, HoldTimes <- {4, 5, 6}, Inflight <- 2, Duplicates <- 1,
  wait_projection <- FALSE, MaxTime <- 6, MaxFailures <- 1, pc <- probe
\* A rate of 60 journeys per second.
Spread == INSTANCE CapacityProbe WITH
  Profile <- "spread", Total <- 5, Timeout <- 1, Slack <- 3, HoldTimes <- {4}, Inflight <- 3, Duplicates <- 1,
  wait_projection <- FALSE, MaxTime <- 5, MaxFailures <- 0, pc <- probe
\* Journeys that pay, with a callback that comes twice.
Checkout == INSTANCE CapacityProbe WITH
  Profile <- "checkout", Total <- 2, Timeout <- 1, Slack <- 0, HoldTimes <- {2}, Inflight <- 2, Duplicates <- 2,
  wait_projection <- FALSE, MaxTime <- 2, MaxFailures <- 1, pc <- probe
\* The same, waiting for the map: two journeys without failures, then one with.
Projected == INSTANCE CapacityProbe WITH
  Profile <- "checkout", Total <- 2, Timeout <- 1, Slack <- 0, HoldTimes <- {1}, Inflight <- 2, Duplicates <- 1,
  wait_projection <- TRUE, MaxTime <- 1, MaxFailures <- 0, pc <- probe
Faulty == INSTANCE CapacityProbe WITH
  Profile <- "checkout", Total <- 1, Timeout <- 1, Slack <- 0, HoldTimes <- {2}, Inflight <- 2, Duplicates <- 1,
  wait_projection <- TRUE, MaxTime <- 2, MaxFailures <- 1, pc <- probe

\* The second stage asks for the last seat of a show and may ask for one more.
Browse == INSTANCE SeatmapProbe WITH
  Shows <- {0, 1}, Viewers <- {0, 1}, Rates <- <<2, 3>>, SeatsPerShow <- 5, WriteEvery <- 2,
  Inflight <- 2, MaxFailures <- 1, pc <- browse, next <- arrival

Drill == INSTANCE FailureDrill WITH MaxFailures <- 2, pc <- step, order <- sale

Stage == INSTANCE CapacityStage WITH MaxFailures <- 3, pc <- call

\* Rates 400 and 500, fallbacks 200 and 100.
Suite == INSTANCE StabilitySuite WITH
  Blocks <- 2, Rates <- <<4, 5>>, FallbackRates <- <<2, 1>>, Keepalives <- 2, MaxFailures <- 3,
  pc <- suite, verdict <- report

Observer == INSTANCE Observers WITH
  Pids <- {1, 2}, Replicas <- {1, 2}, Seconds <- 4, Interval <- 2, MaxCost <- 3, MaxCount <- 1,
  MaxFailures <- 2, pc <- observe, now <- clock

\* More inserts than threads; the observer needs both of its samples.
Wal == INSTANCE WalProbe WITH
  Total <- 3, Workers <- 2, Expected <- 2, MaxFailures <- 2,
  pc <- wal, samples <- wait_samples, error <- wal_error

Probes == {"hot", "spread", "checkout", "projected", "faulty"}

MCInit ==
  /\ system \in Probes \union {"browse", "drill", "stage", "suite", "observer", "wal"}
  /\ CASE system = "spread" -> Spread!Init
       [] system = "checkout" -> Checkout!Init [] system = "projected" -> Projected!Init
       [] system = "faulty" -> Faulty!Init
       [] OTHER -> Hot!Init
  /\ Browse!Init /\ Drill!Init /\ Stage!Init /\ Suite!Init /\ Observer!Init /\ Wal!Init
  /\ system \notin Probes => hold_seconds = 4
  /\ system # "drill" => local
  /\ system # "observer" => kind = "generator" /\ \A p \in {1, 2} : ticks[p] = 1

MCNext ==
  \/ /\ \/ system = "hot" /\ Hot!Next
        \/ system = "spread" /\ Spread!Next
        \/ system = "checkout" /\ Checkout!Next
        \/ system = "projected" /\ Projected!Next
        \/ system = "faulty" /\ Faulty!Next
     /\ UNCHANGED <<system, browseVars, drillVars, stageVars, suiteVars, observerVars, walVars>>
  \/ /\ system = "browse" /\ Browse!Next
     /\ UNCHANGED <<system, probeVars, drillVars, stageVars, suiteVars, observerVars, walVars>>
  \/ /\ system = "drill" /\ Drill!Next
     /\ UNCHANGED <<system, probeVars, browseVars, stageVars, suiteVars, observerVars, walVars>>
  \/ /\ system = "stage" /\ Stage!Next
     /\ UNCHANGED <<system, probeVars, browseVars, drillVars, suiteVars, observerVars, walVars>>
  \/ /\ system = "suite" /\ Suite!Next
     /\ UNCHANGED <<system, probeVars, browseVars, drillVars, stageVars, observerVars, walVars>>
  \/ /\ system = "observer" /\ Observer!Next
     /\ UNCHANGED <<system, probeVars, browseVars, drillVars, stageVars, suiteVars, walVars>>
  \/ /\ system = "wal" /\ Wal!Next
     /\ UNCHANGED <<system, probeVars, browseVars, drillVars, stageVars, suiteVars, observerVars>>

MCSpec == MCInit /\ [][MCNext]_all

-----------------------------------------------------------------------------
\* The capacity probe: the generator keeps no queue and makes no burst, its
\* check of the hold time leaves a hot seat one winner, and a passing checkout
\* means that what it counted was delivered and had reached the seat map.
ProbeMeasuresTheSystem ==
  /\ system = "hot" => Hot!NoQueueNoBurst /\ Hot!HotHasOneWinner
  /\ system = "spread" => Spread!NoQueueNoBurst
  /\ system = "checkout" => Checkout!NoQueueNoBurst /\ Checkout!PassMeansDelivered
  /\ system = "projected" => Projected!PassMeansDelivered /\ Projected!PassMeansProjected
  /\ system = "faulty" => Faulty!PassMeansDelivered /\ Faulty!PassMeansProjected

\* The seat map probe: a stage passes exactly when its requests were answered
\* as wanted, and holds are unique over all stages and stay inside the fixture.
\* The WAL probe: its exit code means what its gate says, its table is dropped or named, and its
\* connections suffice and are closed before the drop.
ProbeGatesAreHonest ==
  /\ Browse!GateIsHonest /\ Browse!SeatsFit
  /\ Wal!PassMeansMeasured /\ Wal!TableIsNamed /\ Wal!DropIsNotBlocked /\ Wal!ConnectionsSuffice

\* The failure drills: services run again however a drill ends, and a drill
\* that passes found a recovered system.
DrillLeavesServicesUp ==
  [][system = "drill" => Drill!ServicesAreRestarted' /\ Drill!PassMeansRecovered]_all

\* The capacity stage: a pass means both hosts are as before, a stage that ends
\* is cleaned up, a supervised job keeps its manifest, and a failed load is
\* still audited.
StageIsUndone ==
  /\ Stage!PassMeansRestored /\ Stage!CleanupIsComplete
  /\ Stage!JobKeepsItsManifest /\ Stage!FailedLoadIsAudited

\* The stability suite: a recorded stage measured the API of its own block with
\* one observer, and success covers every rate of the blocks configured.
SuiteReportsItsStages == Suite!StagesMeasureTheirBlock /\ Suite!OneObserver /\ Suite!SuccessCoversEveryRate

\* The observers: differences add up to what was really used and counted,
\* through failed samples, ended processes and restarts, and the time that
\* samples take does not add up.
SamplesAreReal ==
  /\ Observer!NetworkAddsUp /\ Observer!CpuIsReal
  /\ Observer!DeltaIsReal /\ Observer!NoDrift
=============================================================================
