----------------------------- MODULE SeatmapProbe -----------------------------
(***************************************************************************)
(* The read-heavy probe (seatmap_load.py).  For each rate and each mode it *)
(* warms the maps, plans the requests of the stage (mostly reads, and      *)
(* holds of seats that were never asked for), starts them on schedule,     *)
(* samples the database meanwhile, and adds a result to the output file.   *)
(***************************************************************************)
EXTENDS Integers, FiniteSets, Sequences

CONSTANTS
  Shows,          \* 0 .. n - 1
  Viewers,        \* 0 .. n - 1
  Rates,          \* sequence of the numbers of requests of a stage
  SeatsPerShow,
  WriteEvery,     \* 20: every 20th request is a hold
  Inflight,
  MaxFailures     \* bound: failed requests, drops, slow stages, failed queries

\* Two stages per rate: one for each mode of reading.
Stages == 1 .. 2 * Len(Rates)
Size(g) == Rates[(g + 1) \div 2]

MaxSize == CHOOSE n \in {Rates[k] : k \in 1 .. Len(Rates)} : \A k \in 1 .. Len(Rates) : Rates[k] <= n
Index == 0 .. MaxSize - 1

VARIABLES
  stage, pc,      \* warm, plan, dispatch, drain, stop, result, done, raised
  next_seat,      \* next seat of each show, kept for the whole run
  viewer,         \* viewer of each planned request
  seat,           \* seat of each planned hold
  next, drops,
  reply,          \* none, sent, ok, bad, error
  sold,           \* <<show, seat>> that have a hold
  monitor,        \* off, running, stopping
  results, saved, \* results in memory and in the output file
  failures

plan == <<viewer, seat>>
run == <<next, drops, reply>>
vars == <<stage, pc, next_seat, plan, run, sold, monitor, results, saved, failures>>

Items == 0 .. Size(stage) - 1
Write(i) == i % WriteEvery = 0
Show(v) == v % Cardinality(Shows)

Init ==
  /\ stage = 1 /\ pc = "warm" /\ next_seat = [s \in Shows |-> 0]
  /\ viewer = [i \in Index |-> 0] /\ seat = [i \in Index |-> 0]
  /\ next = 0 /\ drops = 0 /\ reply = [i \in Index |-> "none"]
  /\ sold = {} /\ monitor = "off" /\ results = <<>> /\ saved = <<>> /\ failures = 0

Failing == failures < MaxFailures /\ failures' = failures + 1

To(s) == pc' = s

\* Snapshots and tags of all shows.  A failure here leaves the run.
Warm ==
  /\ pc = "warm"
  /\ (To("plan") /\ UNCHANGED failures) \/ (To("raised") /\ Failing)
  /\ UNCHANGED <<stage, next_seat, plan, run, sold, monitor, results, saved>>

Writes(v, s) == {i \in Items : Write(i) /\ Show(v[i]) = s}

\* Mutant of First: seats are counted from the start in every stage.
FirstOfStage(s) == 0

First(s) == next_seat[s]

Exhausted(n) == n > SeatsPerShow

\* Any assignment of viewers; the seats of a show are given out in turn.
Plan ==
  /\ pc = "plan"
  /\ \E v \in [Index -> Viewers] :
       /\ \A i \in Index \ Items : v[i] = 0
       /\ viewer' = v
       /\ seat' = [i \in Index |->
            IF i \in Items /\ Write(i)
            THEN First(Show(v[i])) + Cardinality({j \in Writes(v, Show(v[i])) : j < i}) ELSE 0]
       /\ next_seat' = [s \in Shows |-> First(s) + Cardinality(Writes(v, s))]
  /\ To(IF \E s \in Shows : Exhausted(next_seat'[s]) THEN "raised" ELSE "dispatch")
  /\ next' = 0 /\ drops' = 0 /\ reply' = [i \in Index |-> "none"]
  /\ monitor' = IF pc' = "raised" THEN "off" ELSE "running"
  /\ UNCHANGED <<stage, sold, results, saved, failures>>

Pending == {i \in Items : reply[i] = "sent"}

\* Too late or too many open: the request is dropped, not queued.
Dispatch ==
  /\ pc = "dispatch" /\ next < Size(stage) /\ next' = next + 1
  /\ \/ Cardinality(Pending) < Inflight /\ reply' = [reply EXCEPT ![next] = "sent"] /\ UNCHANGED <<drops, failures>>
     \/ Cardinality(Pending) >= Inflight /\ drops' = drops + 1 /\ UNCHANGED <<reply, failures>>
     \/ Failing /\ drops' = drops + 1 /\ UNCHANGED reply
  /\ UNCHANGED <<stage, pc, next_seat, plan, sold, monitor, results, saved>>

\* A read is answered 200 or 304, a hold 201 if the seat exists and is free;
\* or the request fails, and a hold may have been made.
Answer(i) ==
  /\ reply[i] = "sent"
  /\ LET s == <<Show(viewer[i]), seat[i]>>
         free == s \notin sold /\ seat[i] < SeatsPerShow
     IN \/ /\ reply' = [reply EXCEPT ![i] = IF Write(i) /\ ~free THEN "bad" ELSE "ok"]
           /\ sold' = IF Write(i) /\ free THEN sold \cup {s} ELSE sold
           /\ UNCHANGED failures
        \/ /\ \E a \in {"bad", "error"} : reply' = [reply EXCEPT ![i] = a]
           /\ sold' \in {sold, IF Write(i) /\ free /\ reply'[i] = "error" THEN sold \cup {s} ELSE sold}
           /\ Failing
  /\ UNCHANGED <<stage, pc, next_seat, plan, next, drops, monitor, results, saved>>

Gather ==
  /\ pc = "dispatch" /\ next = Size(stage) /\ Pending = {}
  /\ To("stop") /\ monitor' = "stopping"
  /\ UNCHANGED <<stage, next_seat, plan, run, sold, results, saved, failures>>

\* The observer sees the stop event before its next sample; what fails in a
\* sample is kept as evidence and does not end it.
Monitor ==
  /\ monitor = "stopping" /\ monitor' = "off"
  /\ UNCHANGED <<stage, pc, next_seat, plan, run, sold, results, saved, failures>>

\* The last observation is not protected: it can end the run.
Stop ==
  /\ pc = "stop" /\ monitor = "off"
  /\ (To("result") /\ UNCHANGED failures) \/ (To("raised") /\ Failing)
  /\ UNCHANGED <<stage, next_seat, plan, run, sold, monitor, results, saved>>

local_read_gate_pass(fast) ==
  drops = 0 /\ fast /\ \A i \in Items : reply[i] # "none" => reply[i] = "ok"

Written == results'

Result ==
  /\ pc = "result"
  /\ \/ results' = Append(results, local_read_gate_pass(TRUE)) /\ UNCHANGED failures
     \/ Failing /\ results' = Append(results, local_read_gate_pass(FALSE))
  /\ saved' = Written
  /\ IF stage + 1 \in Stages THEN stage' = stage + 1 /\ To("warm") ELSE To("done") /\ UNCHANGED stage
  /\ UNCHANGED <<next_seat, plan, run, sold, monitor>>

Probe == Warm \/ Plan \/ Dispatch \/ Gather \/ Stop \/ Result

Next == Probe \/ Monitor \/ \E i \in Index : Answer(i)

Spec == Init /\ [][Next]_vars

-----------------------------------------------------------------------------
\* local_read_gate_pass: a stage passes exactly when each of its requests was
\* sent and answered as wanted.  Holds are unique over all stages, so a stage
\* in which nothing failed passes, whatever ran before it.
GateIsHonest ==
  pc = "result" =>
    /\ local_read_gate_pass(TRUE) =>
         \A i \in Items : reply[i] = "ok" /\ (Write(i) => <<Show(viewer[i]), seat[i]>> \in sold)
    /\ failures = 0 /\ drops = 0 => local_read_gate_pass(TRUE)

\* "Probe exhausted unique inventory": the probe stops before it asks for a
\* seat that the fixture does not have, and not earlier.
SeatsFit ==
  /\ pc \in {"dispatch", "stop", "result"} => \A i \in Items : seat[i] < SeatsPerShow
  /\ pc = "raised" /\ failures = 0 => \E s \in Shows : next_seat[s] > SeatsPerShow

=============================================================================
