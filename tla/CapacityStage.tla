---------------------------- MODULE CapacityStage ----------------------------
(***************************************************************************)
(* One unattended capacity stage: the operator's script deploys a          *)
(* candidate over ssh, moves the private manifest, runs the detached load  *)
(* job, collects evidence, and restores and cleans up whatever happened.   *)
(*                                                                         *)
(* A remote call can fail before or after its effect, and an ssh call that *)
(* times out can leave its command running on the host.  The operator may  *)
(* interrupt the script at any step.                                       *)
(***************************************************************************)
EXTENDS Naturals

CONSTANTS
  MaxFailures   \* bound: failed, cut or unsatisfactory calls and interrupts

None == "none"

VARIABLES
  pc,           \* the call the script is at; see Next
  deployed, observers, load_start_attempted,
  load_exit, audit_exit, admission_exit,
  error,        \* whether error is set
  finalizer_errors,
  private_dir,  \* the manifest in the operator's temporary directory
  evidence,     \* what was copied to the operator's output directory
  remote,       \* the state of both hosts
  orphans,      \* commands still running on a host after their ssh call ended
  verdict,
  failures

exits == <<load_exit, audit_exit, admission_exit>>
flags == <<deployed, observers, load_start_attempted>>
vars == <<pc, flags, exits, error, finalizer_errors, private_dir, evidence, remote, orphans, verdict, failures>>

Init ==
  /\ pc = "revisions"
  /\ deployed = FALSE /\ observers = FALSE /\ load_start_attempted = FALSE
  /\ load_exit = None /\ audit_exit = None /\ admission_exit = None
  /\ error = FALSE /\ finalizer_errors = FALSE /\ private_dir = FALSE
  /\ evidence = [load |-> None, admission |-> FALSE, durability |-> FALSE, rollback |-> FALSE]
  /\ remote = [saved |-> FALSE,       \* original settings, in the private directory
               candidate |-> FALSE,   \* the candidate is deployed
               manifest |-> FALSE,    \* manifest on the backend
               upload |-> FALSE,      \* manifest on the generator
               observing |-> FALSE,
               job |-> None,          \* none, running, zero, nonzero, stopped: by its status file
               loading |-> FALSE,     \* the load itself runs
               load |-> None,         \* verdict of the summary, with every worker file
               results |-> FALSE,     \* load results on the backend
               admission |-> FALSE, durability |-> FALSE, rollback |-> FALSE]
  /\ orphans = {} /\ verdict = None /\ failures = 0

Failing == failures < MaxFailures /\ failures' = failures + 1

-----------------------------------------------------------------------------
(***************************************************************************)
(* The helper scripts on the two hosts.                                    *)
(***************************************************************************)

\* Mutant of Refuses: the generator's cleanup does not look for its job.
RefusesButRunning(call, r) ==
  CASE call = "start" -> ~r.upload \/ r.job # None
    [] call = "stop" -> r.job = None
    [] call = "rollback" -> ~r.saved
    [] call = "audit" -> ~r.results
    [] call \in {"fetch", "preflight"} -> ~r.manifest
    [] OTHER -> FALSE

\* A helper refuses a call whose precondition fails, and changes nothing.
Refuses(call, r) ==
  CASE call = "start" -> ~r.upload \/ r.job # None
    [] call = "stop" -> r.job = None
    [] call = "rollback" -> ~r.saved
    [] call = "audit" -> ~r.results
    [] call \in {"fetch", "preflight"} -> ~r.manifest
    [] call = "generator cleanup" -> r.job = "running"
    [] OTHER -> FALSE

BackendEffect(call, r) ==
  CASE call = "deploy" -> [r EXCEPT !.saved = TRUE, !.candidate = TRUE]
    [] call = "prepare" -> [r EXCEPT !.manifest = TRUE]
    [] call = "observe" -> [r EXCEPT !.observing = TRUE]
    [] call = "gate" -> [r EXCEPT !.admission = TRUE]
    [] call = "audit" -> [r EXCEPT !.durability = TRUE]
    [] call = "stop observers" -> [r EXCEPT !.observing = FALSE]
    [] call = "rollback" -> [r EXCEPT !.candidate = FALSE, !.rollback = TRUE]
    [] call = "backend cleanup" -> [r EXCEPT !.manifest = FALSE, !.saved = FALSE]
    [] OTHER -> r

\* start detaches a supervisor, which runs the load under timeout(1) and writes
\* the status file.  stop signals the supervisor's process group and writes the
\* file itself; timeout(1) has put itself and the load into a group of their own,
\* so the load goes on.
GeneratorEffect(call, r) ==
  CASE call = "start" -> [r EXCEPT !.job = "running", !.loading = TRUE]
    [] call = "stop" -> [r EXCEPT !.job = IF @ = "running" THEN "stopped" ELSE @]
    [] call = "generator cleanup" -> [r EXCEPT !.upload = FALSE]

\* The helpers' commands and the copies.
Effect(call, r) ==
  CASE call = "upload" -> [r EXCEPT !.upload = TRUE]
    [] call = "results" -> [r EXCEPT !.results = TRUE]
    [] call \in {"start", "stop", "generator cleanup"} -> GeneratorEffect(call, r)
    [] OTHER -> BackendEffect(call, r)

\* The load ends, if need be by timeout(1), and a supervisor that is still there
\* writes its exit code.  A load that fails may or may not leave all its files.
FinishJob ==
  /\ remote.loading
  /\ \E summary \in {"pass", "fail", None} :
       /\ remote' = [remote EXCEPT !.loading = FALSE, !.load = summary,
                                   !.job = IF @ = "stopped" THEN @
                                           ELSE IF summary = "pass" THEN "zero" ELSE "nonzero"]
       /\ IF summary = "pass" THEN UNCHANGED failures ELSE Failing
  /\ UNCHANGED <<pc, flags, exits, error, finalizer_errors, private_dir, evidence, orphans, verdict>>

\* A command cut off by its ssh timeout goes on, and takes effect later.
LateEffect(call) ==
  /\ call \in orphans /\ ~Refuses(call, remote)
  /\ remote' = Effect(call, remote)
  /\ UNCHANGED <<pc, flags, exits, error, finalizer_errors, private_dir, evidence, orphans, verdict, failures>>

-----------------------------------------------------------------------------
(***************************************************************************)
(* The transport.  Calls have a timeout, copies do not.                    *)
(***************************************************************************)
Untimed == {"fetch", "upload", "generator evidence", "results", "gate", "backend evidence"}

Succeeds(call) ==
  ~Refuses(call, remote) /\ remote' = Effect(call, remote) /\ UNCHANGED <<orphans, failures>>

MaybeEffect(call) == remote' \in {remote} \cup (IF Refuses(call, remote) THEN {} ELSE {Effect(call, remote)})

\* A nonzero exit code.
Fails(call) ==
  /\ IF Refuses(call, remote) THEN UNCHANGED failures ELSE Failing
  /\ MaybeEffect(call) /\ UNCHANGED orphans

\* The local ssh process ends early: on a timeout, or with the script.
Cut(call) ==
  /\ Failing
  /\ \/ MaybeEffect(call) /\ UNCHANGED orphans
     \/ orphans' = orphans \cup {call} /\ UNCHANGED remote

TimesOut(call) == call \notin Untimed /\ Cut(call)

-----------------------------------------------------------------------------
(***************************************************************************)
(* The stage up to its finally clause.                                     *)
(***************************************************************************)
After ==
  [revisions |-> "deploy", deploy |-> "prepare", prepare |-> "fetch", fetch |-> "upload",
   upload |-> "preflight", preflight |-> "observe", observe |-> "start", results |-> "gate"]

\* The outer except clause; leaving the with statement removes private_dir.
Raised == pc' = "finally stop" /\ error' = TRUE /\ private_dir' = FALSE

Straight(call) ==
  /\ pc = call
  /\ deployed' = (deployed \/ call = "deploy")
  /\ \/ /\ Succeeds(call) /\ pc' = After[call] /\ private_dir' = (call = "fetch")
        /\ observers' = (observers \/ call = "observe") /\ UNCHANGED error
     \/ (Fails(call) \/ TimesOut(call)) /\ Raised /\ UNCHANGED observers
  /\ UNCHANGED <<load_start_attempted, exits, finalizer_errors, evidence, verdict>>

\* The inner except clause.
LoadFailed == load_exit' = "failed" /\ error' = TRUE /\ pc' = "stop" /\ UNCHANGED private_dir

LoadStart ==
  /\ pc = "start"
  /\ load_start_attempted' = TRUE
  /\ \/ Succeeds("start") /\ pc' = "poll" /\ UNCHANGED <<load_exit, error, private_dir>>
     \/ (Fails("start") \/ TimesOut("start")) /\ LoadFailed
  /\ UNCHANGED <<deployed, observers, audit_exit, admission_exit, finalizer_errors, evidence, verdict>>

\* Polls that find the job running change nothing.
LoadStatus ==
  /\ pc = "poll"
  /\ \/ /\ remote.job \in {"zero", "nonzero"}
        /\ load_exit' = remote.job /\ pc' = "stop" /\ UNCHANGED <<error, private_dir, failures>>
     \/ Failing /\ LoadFailed
  /\ UNCHANGED <<flags, audit_exit, admission_exit, finalizer_errors, evidence, remote, orphans, verdict>>

\* The inner finally clause; an interrupt goes on after it.
LoadStop ==
  /\ pc \in {"stop", "stop interrupted"}
  /\ \/ /\ Succeeds("stop")
        /\ IF pc = "stop" THEN pc' = "generator evidence" /\ UNCHANGED <<error, private_dir>> ELSE Raised
     \/ (Fails("stop") \/ TimesOut("stop")) /\ Raised
  /\ UNCHANGED <<flags, exits, finalizer_errors, evidence, verdict>>

CollectLoad ==
  /\ pc = "generator evidence"
  /\ \/ /\ Succeeds(pc)
        /\ evidence' = [evidence EXCEPT !.load = remote.load]
        /\ IF remote.load = None THEN Raised ELSE pc' = "results" /\ UNCHANGED <<error, private_dir>>
     \/ Fails(pc) /\ Raised /\ UNCHANGED evidence
  /\ UNCHANGED <<flags, exits, finalizer_errors, verdict>>

Gate ==
  /\ pc = "gate" /\ pc' = "audit"
  /\ \/ Succeeds("gate") /\ admission_exit' = "zero"
     \/ Fails("gate") /\ admission_exit' = "nonzero"
  /\ UNCHANGED <<flags, load_exit, audit_exit, error, finalizer_errors, private_dir, evidence, verdict>>

Audit ==
  /\ pc = "audit"
  /\ \/ /\ \/ Succeeds("audit") /\ audit_exit' = "zero"
           \/ Fails("audit") /\ audit_exit' = "nonzero"
        /\ pc' = "stop observers" /\ UNCHANGED <<error, private_dir>>
     \/ TimesOut("audit") /\ Raised /\ UNCHANGED audit_exit
  /\ UNCHANGED <<flags, load_exit, admission_exit, finalizer_errors, evidence, verdict>>

StopObservers ==
  /\ pc = "stop observers"
  /\ \/ Succeeds(pc) /\ observers' = FALSE /\ pc' = "finally stop" /\ UNCHANGED <<error, private_dir>>
     \/ (Fails(pc) \/ TimesOut(pc)) /\ Raised /\ UNCHANGED observers
  /\ UNCHANGED <<deployed, load_start_attempted, exits, finalizer_errors, evidence, verdict>>

-----------------------------------------------------------------------------
(***************************************************************************)
(* The finally clause.                                                     *)
(***************************************************************************)
Finalizers ==
  <<"finally stop", "finally stop observers", "rollback", "backend evidence", "generator cleanup",
    "backend cleanup">>

Call(i) == CASE i = 1 -> "stop" [] i = 2 -> "stop observers" [] OTHER -> Finalizers[i]

Needed(i) ==
  CASE i = 1 -> load_start_attempted [] i = 2 -> observers [] i = 3 -> deployed [] OTHER -> TRUE

Collected ==
  [evidence EXCEPT !.admission = remote.admission, !.durability = remote.durability,
                   !.rollback = remote.rollback]

\* finish: a failed finalizer is recorded and the next one runs.
Finish(i) ==
  /\ pc = Finalizers[i]
  /\ pc' = IF i = 6 THEN "evaluate" ELSE Finalizers[i + 1]
  /\ \/ ~Needed(i) /\ UNCHANGED <<finalizer_errors, remote, orphans, failures, evidence>>
     \/ /\ Needed(i) /\ Succeeds(Call(i)) /\ UNCHANGED finalizer_errors
        /\ evidence' = IF i = 4 THEN Collected ELSE evidence
     \/ /\ Needed(i) /\ (Fails(Call(i)) \/ TimesOut(Call(i))) /\ finalizer_errors' = TRUE
        /\ UNCHANGED evidence
  /\ UNCHANGED <<flags, exits, error, private_dir, verdict>>

\* evaluate and execution_and_cleanup.
gates ==
  /\ load_exit = "zero" /\ evidence.load = "pass"
  /\ admission_exit = "zero" /\ evidence.admission
  /\ audit_exit = "zero" /\ evidence.durability /\ evidence.rollback
  /\ ~error /\ ~finalizer_errors

Evaluate ==
  /\ pc = "evaluate" /\ pc' = "ended"
  /\ verdict' = IF gates THEN "pass" ELSE "fail"
  /\ UNCHANGED <<flags, exits, error, finalizer_errors, private_dir, evidence, remote, orphans, failures>>

\* KeyboardInterrupt: handled outside the finally clause, fatal in it.
Interrupt ==
  /\ \/ /\ pc \in DOMAIN After \cup {"start", "poll", "stop", "stop interrupted", "generator evidence",
                                     "gate", "audit", "stop observers"}
        /\ deployed' = (deployed \/ pc = "deploy")
        /\ load_start_attempted' = (load_start_attempted \/ pc = "start")
        /\ Cut(IF pc = "stop interrupted" THEN "stop" ELSE pc)
        /\ IF pc \in {"start", "poll"} THEN pc' = "stop interrupted" /\ UNCHANGED <<error, private_dir>> ELSE Raised
     \/ \E i \in 1 .. 6 :
          /\ pc = Finalizers[i] /\ Needed(i) /\ Cut(Call(i)) /\ pc' = "killed"
          /\ UNCHANGED <<deployed, load_start_attempted, error, private_dir>>
  /\ UNCHANGED <<observers, exits, finalizer_errors, evidence, verdict>>

Script ==
  \/ \E call \in DOMAIN After : Straight(call)
  \/ LoadStart \/ LoadStatus \/ LoadStop \/ CollectLoad \/ Gate \/ Audit \/ StopObservers
  \/ \E i \in 1 .. 6 : Finish(i)
  \/ Evaluate

Next ==
  \/ Script \/ FinishJob \/ Interrupt
  \/ \E call \in orphans : LateEffect(call)

Spec == Init /\ [][Next]_vars

-----------------------------------------------------------------------------
Ended == pc = "ended"

\* evaluate and main: a stage passes only when its load succeeded and was
\* audited, and both hosts are as before it: the candidate is rolled back,
\* nothing is running and no copy of the manifest is left.
PassMeansRestored ==
  verdict = "pass" =>
    /\ remote.job = "zero" /\ remote.admission /\ remote.durability
    /\ ~remote.candidate /\ ~remote.observing /\ ~remote.loading
    /\ ~remote.manifest /\ ~remote.upload /\ ~private_dir

\* The finally clause: a stage that ends, however it went, has rolled the
\* candidate back, ended its supervised job and removed the manifests, unless
\* one of its finalizers failed or a command was still running when ssh gave
\* up.  The load of a job that had to be stopped can still run; the stage then
\* does not pass.
CleanupIsComplete ==
  Ended /\ ~finalizer_errors /\ orphans = {} =>
    /\ ~remote.candidate /\ remote.job # "running"
    /\ ~remote.manifest /\ ~remote.upload /\ ~private_dir

\* huawei_capacity_generator.sh cleanup: the manifest is not taken away from
\* a job whose supervisor is running.
JobKeepsItsManifest == remote.job = "running" => remote.upload

\* ADR 0041: a load that failed, the files collected being complete, is still
\* audited when nothing else failed and no command was cut off while running.
FailedLoadIsAudited ==
  Ended /\ load_exit \in {"nonzero", "failed"} /\ evidence.load # None /\ failures = 1 /\ orphans = {} =>
    audit_exit = "zero"

=============================================================================
