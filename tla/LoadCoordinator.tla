--------------------------- MODULE LoadCoordinator ---------------------------
(***************************************************************************)
(* parallel_cloud_load: the coordinator splits one manifest into shards,   *)
(* starts a load generator process per shard, waits for all of them and    *)
(* merges their results.  Whatever happens, its finally clause ends the    *)
(* processes and removes their credentials.                                *)
(***************************************************************************)
EXTENDS Naturals, FiniteSets

CONSTANTS
  MaxWorkers, MaxShows, MaxViewersPerShow, MaxRate,   \* bounds of the manifest and the arguments
  MaxFailures                                         \* bound: failed starts, bad exits, interrupts

VARIABLES
  pc,            \* validate, start, wait, merge, finally, ended, killed
  args,          \* workers, rate, and the sizes of the manifest
  started,       \* processes started
  process,       \* of each worker: none, running, exited (killed or failed), done
  gate,          \* what the result file of each worker says: none, pass, fail
  late,          \* workers that started late: their skew is over the limit
  credentials,   \* workers whose private shard exists
  waited,        \* processes waited for, in order
  reaped,        \* processes the finally clause has dealt with
  summary,
  failures

vars == <<pc, args, started, process, gate, late, credentials, waited, reaped, summary, failures>>

Workers == 1 .. args.workers

Init ==
  /\ pc = "validate"
  /\ args \in [workers : 1 .. MaxWorkers, rate : 1 .. MaxRate, shows : 1 .. MaxShows,
               viewers : 1 .. MaxShows * MaxViewersPerShow]
  /\ started = 0 /\ waited = 0 /\ reaped = 0
  /\ process = [w \in Workers |-> "none"] /\ gate = [w \in Workers |-> "none"]
  /\ late = {} /\ credentials = {} /\ summary = "none" /\ failures = 0

Failing == failures < MaxFailures /\ failures' = failures + 1

-----------------------------------------------------------------------------
(***************************************************************************)
(* The shards.  Positions count from 0, as the slices do.                  *)
(***************************************************************************)

\* The conditions of p.error.
Valid ==
  /\ args.rate >= args.workers
  /\ args.shows % args.workers = 0 /\ args.viewers % args.shows = 0

worker_rate(i) == (args.rate \div args.workers) + (IF i < args.rate % args.workers THEN 1 ELSE 0)

\* Position in the manifest of element j of the slice that starts at i.
Slice(i, j) == i + j * args.workers

ShardSize(i, n) == Cardinality({j \in 0 .. n : Slice(i, j) < n})

\* The show the generator of shard i uses for its viewer j.
ShowOf(i, j) == Slice(i, j % ShardSize(i, args.shows))

-----------------------------------------------------------------------------
Validate ==
  /\ pc = "validate"
  /\ pc' = IF Valid THEN "start" ELSE "refused"
  /\ UNCHANGED <<args, started, process, gate, late, credentials, waited, reaped, summary, failures>>

\* A shard is written, then its process started; an old result file or a
\* failed start leaves the loop in between.  Popen and the append to the
\* list of processes are one step: an interrupt falls before or after both.
Start ==
  /\ pc = "start" /\ started < args.workers
  /\ LET w == started + 1
     IN  /\ credentials' = credentials \cup {w}
         /\ \/ /\ started' = w /\ process' = [process EXCEPT ![w] = "running"]
               /\ UNCHANGED <<pc, failures>>
            \/ Failing /\ pc' = "finally" /\ UNCHANGED <<started, process>>
  /\ UNCHANGED <<args, gate, late, waited, reaped, summary>>

Started ==
  /\ pc = "start" /\ started = args.workers /\ pc' = "wait"
  /\ UNCHANGED <<args, started, process, gate, late, credentials, waited, reaped, summary, failures>>

\* The generator ends with its gate, or without a result.
WorkerEnds(w) ==
  /\ process[w] = "running"
  /\ \/ /\ process' = [process EXCEPT ![w] = "done"] /\ gate' = [gate EXCEPT ![w] = "pass"]
        /\ \/ UNCHANGED <<late, failures>>
           \/ late' = late \cup {w} /\ Failing
     \/ /\ Failing /\ process' = [process EXCEPT ![w] = "exited"]
        /\ gate' \in {gate, [gate EXCEPT ![w] = "fail"]} /\ UNCHANGED late
  /\ UNCHANGED <<pc, args, started, credentials, waited, reaped, summary>>

Wait ==
  /\ pc = "wait"
  /\ IF waited = args.workers THEN pc' = "merge" /\ UNCHANGED waited
     ELSE process[waited + 1] # "running" /\ waited' = waited + 1 /\ UNCHANGED pc
  /\ UNCHANGED <<args, started, process, gate, late, credentials, reaped, summary, failures>>

\* Mutant of workload_gate_pass: the workers that left no result are not missed.
workload_gate_passOfResults ==
  /\ late \in {{}, Workers}
  /\ \A w \in Workers : gate[w] \in {"none", "pass"}

\* Every worker left a result, exited with zero, started within the skew
\* and passed its own gate.
workload_gate_pass ==
  /\ \A w \in Workers : gate[w] # "none" /\ process[w] = "done"
  /\ late \in {{}, Workers}
  /\ \A w \in Workers : gate[w] = "pass"

Merge ==
  /\ pc = "merge" /\ pc' = "finally"
  /\ summary' = IF workload_gate_pass THEN "pass" ELSE "fail"
  /\ UNCHANGED <<args, started, process, gate, late, credentials, waited, reaped, failures>>

Interrupt ==
  /\ pc \in {"start", "wait", "merge", "finally"} /\ Failing
  /\ pc' = IF pc = "finally" THEN "killed" ELSE "finally"
  /\ UNCHANGED <<args, started, process, gate, late, credentials, waited, reaped, summary>>

\* One process after the other is terminated if it still runs, waited for
\* and deprived of its credentials; then the directory goes.
Finally ==
  /\ pc = "finally"
  /\ IF reaped < started
     THEN /\ reaped' = reaped + 1
          /\ process' = [process EXCEPT ![reaped'] = IF @ = "running" THEN "exited" ELSE @]
          /\ credentials' = credentials \ {reaped'} /\ UNCHANGED pc
     ELSE pc' = "ended" /\ credentials' = {} /\ UNCHANGED <<reaped, process>>
  /\ UNCHANGED <<args, started, gate, late, waited, summary, failures>>

Coordinator == Validate \/ Start \/ Started \/ Wait \/ Merge \/ Finally

Next == Coordinator \/ Interrupt \/ \E w \in Workers : WorkerEnds(w)

Spec == Init /\ [][Next]_vars

-----------------------------------------------------------------------------
\* The sum of the rates of the shards from i on.
RateFrom[i \in 0 .. MaxWorkers] ==
  IF i >= args.workers THEN 0 ELSE worker_rate(i) + RateFrom[i + 1]

\* worker_rates: the workers offer the requested rate together, none nothing.
RatesAddUp ==
  pc = "start" => RateFrom[0] = args.rate /\ \A w \in Workers : worker_rate(w - 1) > 0

\* The slices of shows and viewers: every viewer is in one shard, and the
\* generator of that shard sends it to the show it has in the manifest.
ShardsKeepTheirShows ==
  pc = "start" =>
    /\ \A v \in 0 .. args.viewers - 1 :
         Cardinality({w \in Workers : \E j \in 0 .. v : Slice(w - 1, j) = v}) = 1
    /\ \A w \in Workers : \A j \in 0 .. ShardSize(w - 1, args.viewers) - 1 :
         ShowOf(w - 1, j) = Slice(w - 1, j) % args.shows

\* workload_gate_pass: a passing summary speaks for every worker.
PassSpeaksForAll ==
  summary = "pass" => \A w \in Workers : process[w] = "done" /\ gate[w] = "pass"

\* The finally clause: a coordinator that ends leaves no process and no
\* credentials behind, interrupted or not.  An interrupt inside the clause ends
\* it early ("killed"), and nothing is said of it.
NothingIsLeft ==
  pc = "ended" => credentials = {} /\ \A w \in Workers : process[w] # "running"

=============================================================================
