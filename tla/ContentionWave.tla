--------------------------- MODULE ContentionWave ---------------------------
(***************************************************************************)
(* The contention measurement (contention_timing.py).  For each wave of    *)
(* the matrix a coordinator starts worker processes, waits until all of    *)
(* them are ready, releases them with a file that names the start time,    *)
(* and merges their results.  Every contender asks once for the seat of    *)
(* the wave; the contenders of a worker share its connections (lanes).     *)
(***************************************************************************)
EXTENDS Integers, FiniteSets, Sequences, SequencesExt

CONSTANTS
  Contenders,    \* number of contenders of a wave
  Lanes,         \* connections of all workers together
  Variants,      \* sequence of [mode, workers], at most Lanes and Contenders
                 \* workers each; the matrix runs it both ways
  FirstSeat,
  MaxFailures    \* bound: failed boots, missed or late starts, lost answers,
                 \* answers without timing, reconnects

Waves == Variants \o Reverse(Variants)
Crowd == 0 .. Contenders - 1
Nobody == Contenders
Seats == FirstSeat .. FirstSeat + Len(Waves) - 1
Procs == 0 .. 3

VARIABLES
  require_ingress,   \* --require-ingress
  wave,       \* number of the wave, from 1
  cpc,        \* coordinator: spawn, ready, codes, merge, finally, done
  outcome,    \* outcome[i] of wave i: none, passed, failed
  stuck,      \* a terminated worker outlived the ten seconds
  proc,       \* worker process: none, boot, unready, ready, armed, running, ok,
              \* failed, killed
  start,      \* start.json is there
  req,        \* request of a contender: none, lane, sent, done
  row,        \* its row: none, 201, 409, error (another status), transport_error
  late_starts,  \* workers that measured their start over 100 ms after the others
  reconnected,  \* contenders whose request opened a connection
  untimed,    \* contenders whose answer had no ingress timing
  owner,      \* server: owner of each seat
  failures

coordinator == <<require_ingress, wave, cpc, outcome, stuck, start>>
rows == <<req, row, late_starts, reconnected, untimed>>
vars == <<coordinator, proc, rows, owner, failures>>

Workers == 0 .. Waves[wave].workers - 1
Warm == Waves[wave].mode = "warm"

Seat == FirstSeat + wave - 1

Indices(w) == {c \in Crowd : c % Waves[wave].workers = w}

WorkerOf(c) == c % Waves[wave].workers

lane_count == (IF Contenders < Lanes THEN Contenders ELSE Lanes) \div Waves[wave].workers

\* The lane of a contender: its position in the worker's list, modulo the lanes.
Lane(c) == <<WorkerOf(c), (c \div Waves[wave].workers) % lane_count>>

Fresh ==
  /\ proc' = [w \in Procs |-> "none"] /\ start' = FALSE
  /\ req' = [c \in Crowd |-> "none"] /\ row' = [c \in Crowd |-> "none"]
  /\ late_starts' = {} /\ reconnected' = {} /\ untimed' = {}

Init ==
  /\ require_ingress \in BOOLEAN
  /\ wave = 1 /\ cpc = "spawn" /\ stuck = FALSE
  /\ outcome = [i \in 1 .. Len(Waves) |-> "none"]
  /\ proc = [w \in Procs |-> "none"] /\ start = FALSE
  /\ req = [c \in Crowd |-> "none"] /\ row = [c \in Crowd |-> "none"]
  /\ late_starts = {} /\ reconnected = {} /\ untimed = {}
  /\ owner = [s \in Seats |-> Nobody] /\ failures = 0

Failing == failures < MaxFailures /\ failures' = failures + 1

-----------------------------------------------------------------------------
Becomes(w, s) == proc' = [proc EXCEPT ![w] = s]

\* Checks of the manifest, the warm requests, and the ready file.
Boot(w) ==
  /\ proc[w] = "boot"
  /\ (Becomes(w, "ready") /\ UNCHANGED failures) \/ (Becomes(w, "unready") /\ Failing)
  /\ UNCHANGED <<coordinator, rows, owner>>

\* The worker reads the start time; it fails when that time has passed, and
\* when no file came within its own forty seconds.
SeeStart(w) ==
  /\ proc[w] = "ready"
  /\ (start /\ Becomes(w, "armed") /\ UNCHANGED failures) \/ (Becomes(w, "failed") /\ Failing)
  /\ UNCHANGED <<coordinator, rows, owner>>

\* The sleep until the start time can end late.
Release(w) ==
  /\ proc[w] = "armed" /\ Becomes(w, "running")
  /\ req' = [c \in Crowd |-> IF c \in Indices(w) THEN "lane" ELSE req[c]]
  /\ UNCHANGED <<late_starts, failures>> \/ (late_starts' = late_starts \cup {w} /\ Failing)
  /\ UNCHANGED <<coordinator, row, reconnected, untimed, owner>>

LaneFree(c) == \A d \in Crowd : req[d] = "sent" => Lane(d) # Lane(c)

Send(c) ==
  /\ req[c] = "lane" /\ proc[WorkerOf(c)] = "running" /\ LaneFree(c)
  /\ req' = [req EXCEPT ![c] = "sent"]
  /\ \/ reconnected' = (IF Warm THEN reconnected ELSE reconnected \cup {c}) /\ UNCHANGED failures
     \/ Warm /\ reconnected' = reconnected \cup {c} /\ Failing
  /\ UNCHANGED <<coordinator, proc, row, late_starts, untimed, owner>>

\* The row of a contender; one without an answer has no timing either.
Write(c, status, timed) ==
  /\ row' = [row EXCEPT ![c] = status]
  /\ untimed' = IF timed THEN untimed ELSE untimed \cup {c}

\* The answer is another status than 201 and 409, or does not arrive.
Unanswered(c) ==
  Failing /\ \E status \in {"error", "transport_error"} : Write(c, status, status = "error")

\* The server sells the seat once.  A request of a terminated worker can still
\* be served; nobody writes its row.
Serve(c) ==
  /\ req[c] = "sent" /\ req' = [req EXCEPT ![c] = "done"]
  /\ owner' = [owner EXCEPT ![Seat] = IF @ = Nobody THEN c ELSE @]
  /\ IF proc[WorkerOf(c)] # "running" THEN UNCHANGED <<row, untimed, failures>>
     ELSE LET status == IF owner[Seat] = Nobody THEN "201" ELSE "409" IN
          \/ Write(c, status, TRUE) /\ UNCHANGED failures
          \/ Write(c, status, FALSE) /\ Failing
          \/ Unanswered(c)
  /\ UNCHANGED <<coordinator, proc, late_starts, reconnected>>

\* The request has no effect.
Lose(c) ==
  /\ req[c] = "sent" /\ proc[WorkerOf(c)] = "running" /\ Unanswered(c)
  /\ req' = [req EXCEPT ![c] = "done"]
  /\ UNCHANGED <<coordinator, proc, late_starts, reconnected, owner>>

Result(w) ==
  /\ proc[w] = "running" /\ \A c \in Indices(w) : req[c] = "done"
  /\ Becomes(w, "ok")
  /\ UNCHANGED <<coordinator, rows, owner, failures>>

-----------------------------------------------------------------------------
To(s) == cpc' = s

Spawn(w) ==
  /\ cpc = "spawn" /\ proc[w] = "none" /\ \A v \in Workers : v < w => proc[v] # "none"
  /\ Becomes(w, "boot")
  /\ To(IF \A v \in Workers : proc'[v] # "none" THEN "ready" ELSE "spawn")
  /\ UNCHANGED <<require_ingress, wave, outcome, stuck, start, rows, owner, failures>>

HasReadyFile(w) == proc[w] \notin {"none", "boot", "unready"}

\* A worker that failed after it was ready has left its file.
AllReady == \A w \in Workers : HasReadyFile(w)

\* start.json, written aside and moved into place.
Start ==
  /\ cpc = "ready" /\ AllReady
  /\ start' = TRUE /\ To("codes")
  /\ UNCHANGED <<require_ingress, wave, outcome, stuck, proc, rows, owner, failures>>

\* A worker has exited, or the forty seconds are over.
BootstrapFails ==
  /\ cpc = "ready" /\ ~AllReady
  /\ To("finally") /\ outcome' = [outcome EXCEPT ![wave] = "failed"]
  /\ UNCHANGED <<require_ingress, wave, stuck, start, proc, rows, owner, failures>>

Exited(w) == proc[w] \in {"unready", "ok", "failed", "killed"}

Codes ==
  /\ cpc = "codes" /\ \A w \in Workers : Exited(w)
  /\ IF \A w \in Workers : proc[w] = "ok" THEN To("merge") /\ UNCHANGED outcome
     ELSE To("finally") /\ outcome' = [outcome EXCEPT ![wave] = "failed"]
  /\ UNCHANGED <<require_ingress, wave, stuck, start, proc, rows, owner, failures>>

CodesTimeout ==
  /\ cpc = "codes" /\ \E w \in Workers : ~Exited(w)
  /\ To("finally") /\ outcome' = [outcome EXCEPT ![wave] = "failed"]
  /\ UNCHANGED <<require_ingress, wave, stuck, start, proc, rows, owner, failures>>

winners == {c \in Crowd : row[c] = "201"}

accounting_pass == \A c \in Crowd : row[c] # "none"

\* Starts differ by over 100 ms when some workers, and not all, were late.
skew_within_limit == late_starts \in {{}, Workers}

\* A row without an answer has no port to compare.
warm_reuse_pass == reconnected = {} /\ \A c \in Crowd : row[c] # "transport_error"

ingress_timing_complete == untimed = {}

measurement_valid ==
  /\ accounting_pass /\ skew_within_limit /\ (Warm => warm_reuse_pass)
  /\ require_ingress => ingress_timing_complete

\* Mutant of one_http_winner_pass: nobody was told twice.
one_http_winner_passAtMost == Cardinality(winners) <= 1

one_http_winner_pass == Cardinality(winners) = 1

Merge ==
  /\ cpc = "merge" /\ To("finally")
  /\ outcome' = [outcome EXCEPT ![wave] = IF measurement_valid /\ one_http_winner_pass THEN "passed" ELSE "failed"]
  /\ UNCHANGED <<require_ingress, wave, stuck, start, proc, rows, owner, failures>>

Alive == {w \in Workers : proc[w] # "none" /\ ~Exited(w)}

\* finally: in order; a worker that outlives its ten seconds raises, and the
\* ones after it are not terminated.
Terminate ==
  /\ cpc = "finally" /\ Alive # {}
  /\ LET w == CHOOSE x \in Alive : \A y \in Alive : x <= y IN
       \/ Becomes(w, "killed") /\ UNCHANGED <<cpc, stuck, failures>>
       \/ Failing /\ stuck' = TRUE /\ To("done") /\ UNCHANGED proc
  /\ UNCHANGED <<require_ingress, wave, outcome, start, rows, owner>>

Ended ==
  /\ cpc = "finally" /\ Alive = {}
  /\ IF outcome[wave] = "passed" /\ wave < Len(Waves) THEN wave' = wave + 1 /\ To("spawn") /\ Fresh
     ELSE To("done") /\ UNCHANGED <<wave, start, proc, rows>>
  /\ UNCHANGED <<require_ingress, outcome, stuck, owner, failures>>

Coordinator ==
  \/ Start \/ BootstrapFails \/ Codes \/ CodesTimeout \/ Merge \/ Terminate \/ Ended
  \/ \E w \in Workers : Spawn(w)

Worker(w) == Boot(w) \/ SeeStart(w) \/ Release(w) \/ Result(w)

Next ==
  \/ Coordinator
  \/ \E w \in Workers : Worker(w)
  \/ \E c \in Crowd : Send(c) \/ Serve(c) \/ Lose(c)

Spec == Init /\ [][Next]_vars

-----------------------------------------------------------------------------
\* The release through start.json: no request leaves before every worker of
\* the wave was ready, whichever of them fails later.
NobodyStartsEarly ==
  (\E c \in Crowd : req[c] # "none") => start /\ \A w \in Workers : HasReadyFile(w)

\* A wave that passes named the owner of its seat and no other contender,
\* although answers can be lost after the seat was sold; and nobody's request
\* for that seat is still on its way.
PassNamesTheOwner ==
  cpc = "finally" /\ outcome[wave] = "passed" =>
    winners = {owner[Seat]} /\ \A c \in Crowd : req[c] = "done"

\* The gates have no false alarm: when every worker started within 100 ms of
\* the others, every answer arrived (with its timing, if that is required) and
\* no warm connection was opened again, the merged results pass, whichever
\* worker was first and in whatever order the requests were served.
QuietWavePasses == cpc = "merge" /\ failures = 0 => measurement_valid /\ one_http_winner_pass

=============================================================================
