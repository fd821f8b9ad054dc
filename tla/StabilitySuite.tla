---------------------------- MODULE StabilitySuite ----------------------------
(***************************************************************************)
(* The long-run stability suite: one block per API worker count, in it one *)
(* stage per rate and keep-alive value, and fallback stages when one fails. *)
(* The suite reconfigures the API for a block and restores it afterwards.  *)
(***************************************************************************)
EXTENDS Integers, Sequences, FiniteSets

CONSTANTS
  Blocks,          \* number of --api-workers values
  Rates,           \* --rates
  FallbackRates,   \* --fallback-rates
  Keepalives,      \* number of --keepalive-expiry values
  MaxFailures      \* bound: failed, cut or unsatisfactory steps

VARIABLES
  pc,
  block, rate, keepalive,   \* positions of the three loops
  fallbacks,                \* fallback rates still to run for this stage
  api,                      \* 0 for the compose defaults, or the block it is configured for
  observer,                 \* whether the observer process runs
  stages,                   \* rate_progress of each block
  configure_error,          \* blocks whose configuration failed
  verdict,
  failures

loop == <<block, rate, keepalive, fallbacks>>
vars == <<pc, loop, api, observer, stages, configure_error, verdict, failures>>

Init ==
  /\ pc = "configure" /\ block = 1 /\ rate = 1 /\ keepalive = 1 /\ fallbacks = <<>>
  /\ api = 0 /\ observer = FALSE
  /\ stages = [b \in 1 .. Blocks |-> <<>>] /\ configure_error = {}
  /\ verdict = "none" /\ failures = 0

Failing == failures < MaxFailures /\ failures' = failures + 1

\* An exception that nothing catches; its message is the only report.
Crash == pc' = "crashed"

NextBlock ==
  IF block < Blocks
  THEN pc' = "configure" /\ block' = block + 1 /\ rate' = 1 /\ keepalive' = 1 /\ fallbacks' = <<>>
  ELSE pc' = "report" /\ UNCHANGED loop

-----------------------------------------------------------------------------
\* The recreation fails, times out, or succeeds and is never ready: the block
\* is skipped.
configure_api ==
  /\ pc = "configure"
  /\ \/ api' = block /\ pc' = "preflight" /\ UNCHANGED <<loop, configure_error, failures>>
     \/ /\ Failing /\ api' \in {api, block}
        /\ configure_error' = configure_error \cup {block} /\ NextBlock
  /\ UNCHANGED <<observer, stages, verdict>>

\* The rate of the stage that runs.
Rate == IF fallbacks = <<>> THEN Rates[rate] ELSE Head(fallbacks)

Lowest == \A i \in 1 .. Len(Rates) : Rates[rate] <= Rates[i]

Lower(f) == f < Rates[rate]

\* Where a stage that ends leaves the loops.  A failed stage leaves the loop
\* over the keep-alive values.
Follow(passed) ==
  LET rest == IF fallbacks # <<>> THEN Tail(fallbacks)
              ELSE IF passed \/ Lowest \/ pc = "preflight" THEN <<>>
              ELSE SelectSeq(FallbackRates, Lower)
  IN  /\ fallbacks' = rest /\ UNCHANGED block
      /\ IF rest # <<>> THEN pc' = "warmup" /\ UNCHANGED <<rate, keepalive>>
         ELSE IF passed /\ fallbacks = <<>> /\ keepalive < Keepalives
         THEN pc' = "preflight" /\ keepalive' = keepalive + 1 /\ UNCHANGED rate
         ELSE IF rate < Len(Rates)
         THEN pc' = "preflight" /\ rate' = rate + 1 /\ keepalive' = 1
         ELSE pc' = "restore" /\ UNCHANGED <<rate, keepalive>>

Record(passed) ==
  stages' = [stages EXCEPT ![block] =
    Append(@, [rate |-> Rate, fallback |-> fallbacks # <<>>, passed |-> passed, api |-> api])]

Ends(passed) == Record(passed) /\ Follow(passed)

\* Fallback stages have no preflight of their own.
Preflight ==
  /\ pc = "preflight"
  /\ \/ pc' = "warmup" /\ UNCHANGED <<loop, stages, failures>>
     \/ Failing /\ Ends(FALSE)
  /\ UNCHANGED <<api, observer, configure_error, verdict>>

Warmup ==
  /\ pc = "warmup"
  /\ \/ pc' = "load" /\ observer' = TRUE /\ UNCHANGED <<loop, stages, failures>>
     \/ Failing /\ Ends(FALSE) /\ UNCHANGED observer
  /\ UNCHANGED <<api, configure_error, verdict>>

\* The observer ends by itself; the load is waited for without a limit.
ObserverEnds ==
  /\ observer /\ observer' = FALSE
  /\ UNCHANGED <<pc, loop, api, stages, configure_error, verdict, failures>>

\* The exit code is judged after the audit.
Load ==
  /\ pc = "load"
  /\ \/ pc' = "wait" /\ UNCHANGED failures
     \/ pc' = "wait failed" /\ Failing
  /\ UNCHANGED <<loop, api, observer, stages, configure_error, verdict>>

Wait ==
  /\ pc \in {"wait", "wait failed"} /\ ~observer
  /\ pc' = IF pc = "wait" THEN "verify" ELSE "verify failed"
  /\ UNCHANGED <<loop, api, observer, stages, configure_error, verdict, failures>>

Verify ==
  /\ pc \in {"verify", "verify failed"}
  /\ \/ Ends(pc = "verify") /\ UNCHANGED failures
     \/ Failing /\ Ends(FALSE)
  /\ UNCHANGED <<api, observer, configure_error, verdict>>

\* An exception in a preflight or a stage: files that do not parse, a store that
\* cannot be reached, an observer that takes too long.  The observer is
\* terminated first; the wait for its end can time out as well and leave it.
StageRaises ==
  /\ pc \in {"preflight", "warmup", "load", "verify", "verify failed"} \/ (pc \in {"wait", "wait failed"} /\ observer)
  /\ Failing /\ Crash /\ observer' \in {FALSE, observer}
  /\ UNCHANGED <<loop, api, stages, configure_error, verdict>>

\* The result of the recreation is not looked at; a timeout is not caught.
restore_api ==
  /\ pc = "restore"
  /\ \/ api' = 0 /\ NextBlock /\ UNCHANGED failures
     \/ Failing /\ api' \in {0, api} /\ (NextBlock \/ (Crash /\ UNCHANGED loop))
  /\ UNCHANGED <<observer, stages, configure_error, verdict>>

Failed(b) == \E i \in 1 .. Len(stages[b]) : ~stages[b][i].passed

\* Mutant of Report: the last stage of a block decides.
ReportLast ==
  /\ pc = "report" /\ pc' = "ended"
  /\ verdict' = IF \E b \in 1 .. Blocks : stages[b] # <<>> /\ ~stages[b][Len(stages[b])].passed
                THEN "fail" ELSE "pass"
  /\ UNCHANGED <<loop, api, observer, stages, configure_error, failures>>

Report ==
  /\ pc = "report" /\ pc' = "ended"
  /\ verdict' = IF \E b \in 1 .. Blocks : Failed(b) THEN "fail" ELSE "pass"
  /\ UNCHANGED <<loop, api, observer, stages, configure_error, failures>>

Suite ==
  \/ configure_api \/ Preflight \/ Warmup \/ Load \/ Wait \/ Verify \/ StageRaises \/ restore_api \/ Report

Next == Suite \/ ObserverEnds

Spec == Init /\ [][Next]_vars

-----------------------------------------------------------------------------
\* configure_api: a recorded stage ran against the API of its own block.
StagesMeasureTheirBlock ==
  \A b \in 1 .. Blocks : \A i \in 1 .. Len(stages[b]) : stages[b][i].api = b

\* run_stage: no observer of one stage is sampling while another stage is
\* prepared or judged.
OneObserver == observer => pc \in {"load", "wait", "wait failed", "crashed"}

\* main: a suite that reports success has a passing result at every rate and
\* keep-alive value of every block it could configure.
SuccessCoversEveryRate ==
  verdict = "pass" => \A b \in (1 .. Blocks) \ configure_error :
    \A r \in 1 .. Len(Rates) :
      Cardinality({i \in 1 .. Len(stages[b]) : stages[b][i].rate = Rates[r] /\ stages[b][i].passed}) = Keepalives

=============================================================================
