------------------------------ MODULE Observers ------------------------------
(***************************************************************************)
(* The two observers of a load test: generator_observe.py samples the      *)
(* load generator's host, cloud_pressure_observe.py scrapes the metrics of *)
(* every API replica.  They share one loop, which is modelled once: take a *)
(* sample, advance the due time by the interval, sleep until it is due.    *)
(* What they report are differences of counters that belong to processes   *)
(* that come and go meanwhile.                                             *)
(***************************************************************************)
EXTENDS Integers, FiniteSets, FiniteSetsExt

CONSTANTS
  Pids,           \* process ids, used again after a process ended
  Replicas,
  Seconds, Interval,
  MaxCost,        \* bound: how long a sample takes
  MaxCount,       \* bound: what is counted during the run
  MaxFailures     \* bound: failed reads, restarts, process changes, late wake-ups

None == -1

VARIABLES
  kind,           \* generator, pressure
  now, due, began, samples, errors,
  pc,             \* loop, sample, sleep, done
  late,           \* history: the last sample or sleep went past its due time
  failures,
  \* the generator's host
  ticks,          \* cpu ticks of each process, or None
  used,           \* history: ticks used by the matching processes
  net,            \* bytes counted by the host's interfaces
  previous_processes, previous_net,
  cpu_sum, net_sum, net_first,  \* sums of the reported differences; first reading
  \* the API replicas
  count,          \* a counter of each replica, lost when it restarts
  served,         \* history: the same, not lost
  first, last,    \* counter in the first and the last scrape, or None
  firstServed, lastServed, restarted

loop == <<kind, now, due, began, samples, errors, pc, late>>
host == <<ticks, used, net>>
memory == <<previous_processes, previous_net, cpu_sum, net_sum, net_first>>
api == <<count, served, restarted>>
scrapes == <<first, last, firstServed, lastServed>>
vars == <<loop, failures, host, memory, api, scrapes>>

Init ==
  /\ kind \in {"generator", "pressure"}
  /\ now = 0 /\ due = 0 /\ began = 0 /\ samples = 0 /\ errors = 0 /\ pc = "loop" /\ late = FALSE /\ failures = 0
  /\ ticks \in [Pids -> IF kind = "generator" THEN {None, 1} ELSE {None}] /\ used = 0 /\ net = 0
  /\ previous_processes = [p \in Pids |-> None] /\ previous_net = None
  /\ cpu_sum = 0 /\ net_sum = 0 /\ net_first = None
  /\ count \in [Replicas -> IF kind = "pressure" THEN {0, 1} ELSE {0}] /\ served = [r \in Replicas |-> 0] /\ restarted = {}
  /\ first = [r \in Replicas |-> None] /\ last = first /\ firstServed = served /\ lastServed = served

Failing == failures < MaxFailures /\ failures' = failures + 1

-----------------------------------------------------------------------------
\* What is observed.

Work(p) ==
  /\ kind = "generator" /\ pc # "done" /\ ticks[p] # None /\ used < MaxCount
  /\ ticks' = [ticks EXCEPT ![p] = @ + 1] /\ used' = used + 1
  /\ UNCHANGED <<loop, failures, net, memory, api, scrapes>>

\* A process ends, or a new one starts under a free process id.
Process(p) ==
  /\ kind = "generator" /\ pc # "done" /\ Failing
  /\ ticks' = [ticks EXCEPT ![p] = IF @ = None THEN 0 ELSE None]
  /\ UNCHANGED <<loop, used, net, memory, api, scrapes>>

Traffic ==
  /\ kind = "generator" /\ pc # "done" /\ net < MaxCount /\ net' = net + 1
  /\ UNCHANGED <<loop, failures, ticks, used, memory, api, scrapes>>

Serve(r) ==
  /\ kind = "pressure" /\ pc # "done" /\ served[r] < MaxCount
  /\ count' = [count EXCEPT ![r] = @ + 1] /\ served' = [served EXCEPT ![r] = @ + 1]
  /\ UNCHANGED <<loop, failures, host, memory, restarted, scrapes>>

Restart(r) ==
  /\ kind = "pressure" /\ pc # "done" /\ Failing
  /\ count' = [count EXCEPT ![r] = 0] /\ restarted' = restarted \cup {r}
  /\ UNCHANGED <<loop, host, memory, served, scrapes>>

-----------------------------------------------------------------------------
\* The loop of both observers.

Begin(n) ==
  /\ pc = "loop" /\ now < Seconds /\ pc' = "sample"
  /\ began' = now /\ samples' = samples + 1 /\ errors' = errors + n
  /\ UNCHANGED <<kind, now, due, late>>

\* Only processes of the previous sample count, and none counts backwards.
process_delta(seen) ==
  MapThenSumSet(LAMBDA p : Max({0, ticks[p] - previous_processes[p]}),
                {p \in seen : previous_processes[p] # None})

\* One sample of the host.  A process that cannot be read is left out of it.
Sample ==
  /\ kind = "generator" /\ Begin(0)
  /\ \E seen \in SUBSET {p \in Pids : ticks[p] # None} :
       /\ IF seen = {p \in Pids : ticks[p] # None} THEN UNCHANGED failures ELSE Failing
       /\ cpu_sum' = cpu_sum + process_delta(seen)
       /\ previous_processes' = [p \in Pids |-> IF p \in seen THEN ticks[p] ELSE None]
  /\ net_sum' = IF previous_net = None THEN 0 ELSE net_sum + net - previous_net
  /\ previous_net' = net /\ net_first' = IF net_first = None THEN net ELSE net_first
  /\ UNCHANGED <<host, api, scrapes>>

\* A failed sample leaves all that the next one is compared with.
Forgotten == UNCHANGED memory

SampleFails ==
  /\ kind = "generator" /\ Begin(1) /\ Failing
  /\ Forgotten
  /\ UNCHANGED <<host, api, scrapes>>

\* Mutant of First: the first scrape after an error is taken as the first one.
FirstAfterError(r) == IF first[r] = None \/ errors > 0 THEN count[r] ELSE first[r]

First(r) == IF first[r] = None THEN count[r] ELSE first[r]

\* One scrape of every replica; those that fail count as errors.
Scrape ==
  /\ kind = "pressure"
  /\ \E ok \in SUBSET Replicas :
       LET bad == Cardinality(Replicas \ ok) IN
       /\ Begin(bad) /\ failures + bad <= MaxFailures /\ failures' = failures + bad
       /\ first' = [r \in Replicas |-> IF r \in ok THEN First(r) ELSE first[r]]
       /\ firstServed' = [r \in Replicas |-> IF r \in ok /\ first[r] = None THEN served[r] ELSE firstServed[r]]
       /\ last' = [r \in Replicas |-> IF r \in ok THEN count[r] ELSE last[r]]
       /\ lastServed' = [r \in Replicas |-> IF r \in ok THEN served[r] ELSE lastServed[r]]
  /\ UNCHANGED <<host, memory, api>>

\* Of a counter, or of the count and the sum of a histogram.
counter_delta(r) == Max({0, last[r] - first[r]})

Due == due + Interval

Written ==
  /\ pc = "sample" /\ pc' = "sleep" /\ due' = Due
  /\ late' = (now > Due)
  /\ UNCHANGED <<kind, now, began, samples, errors, failures, host, memory, api, scrapes>>

Wake ==
  /\ pc = "sleep" /\ now >= due /\ pc' = "loop"
  /\ late' = (late \/ now > due)
  /\ UNCHANGED <<kind, now, due, began, samples, errors, failures, host, memory, api, scrapes>>

\* The summary is written when the time is over.
Finish ==
  /\ pc = "loop" /\ now >= Seconds /\ pc' = "done"
  /\ UNCHANGED <<kind, now, due, began, samples, errors, late, failures, host, memory, api, scrapes>>

\* Time passes while a sample is taken and while the observer sleeps.
Tick ==
  /\ now' = now + 1
  /\ \/ pc = "sample" /\ now - began < MaxCost /\ UNCHANGED failures
     \/ pc = "sleep" /\ now < due /\ UNCHANGED failures
     \/ pc = "sleep" /\ now = due /\ Failing
  /\ UNCHANGED <<kind, due, began, samples, errors, pc, late, host, memory, api, scrapes>>

Next ==
  \/ Traffic \/ Sample \/ SampleFails \/ Scrape \/ Written \/ Wake \/ Finish \/ Tick
  \/ \E p \in Pids : Work(p) \/ Process(p)
  \/ \E r \in Replicas : Serve(r) \/ Restart(r)

Spec == Init /\ [][Next]_vars

-----------------------------------------------------------------------------
\* network_delta: the reported differences add up to the last reading minus
\* the first, whichever samples failed in between; a failed sample is not a
\* hole in the evidence.
NetworkAddsUp == previous_net # None => net_sum = previous_net - net_first

\* generator_delta: never more cpu time than the matching processes used
\* while they were observed, although process ids are used again, processes
\* cannot be read in some samples, and some had run before.
CpuIsReal == cpu_sum <= used

\* counter_delta: a replica's difference is what it counted between its first
\* and its last scrape if it did not restart, and never more than that if it
\* did; failed scrapes change neither.
DeltaIsReal ==
  \A r \in Replicas : last[r] # None =>
    /\ counter_delta(r) <= lastServed[r] - firstServed[r]
    /\ r \notin restarted => counter_delta(r) = lastServed[r] - firstServed[r]

\* The n-th sample never begins before n intervals, and exactly then unless the
\* sample or the sleep before it went past that time: the time that samples take
\* does not add up, and an observer that was late catches up.
NoDrift ==
  pc = "loop" => now >= samples * Interval /\ (~late => now = samples * Interval)

=============================================================================
