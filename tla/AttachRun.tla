----------------------------- MODULE AttachRun -----------------------------
(***************************************************************************)
(* One `actime attach`: the thread that executes attach(), attach_inner()  *)
(* and finish() (crates/actime-cli/src/run.rs), the engine `actplane       *)
(* attach --pid` it starts beside a process tree that exists already, and  *)
(* the observability engine.  Nothing is launched, nothing is confirmed    *)
(* later, and no backup is committed: the run lasts until the target ends  *)
(* or the user detaches.                                                   *)
(***************************************************************************)
EXTENDS RunFile

CONSTANTS
  Modes,            \* policy modes to start from
  EngineFailures    \* "loud": prints an Error: line; "quiet": prints none

ASSUME ConstantsAssumption ==
  /\ Modes \subseteq {"off", "observe", "enforce"}
  /\ EngineFailures \subseteq {"loud", "quiet"}

VARIABLES
  mode,         \* the policy mode
  observing,    \* observability.enabled
  hostGap,      \* rules this host's engine cannot install
  pc,           \* control point of the main thread
  policy,       \* PolicyPlane.outcome: "none" | "Active" | "Disabled"
  engine,       \* the `actplane attach` process
  install,      \* what it made of the policy; "late": it failed after the settle window
  engineLog,    \* policy-engine.log, the engine's own stderr: "silent", "error" with an
                \* error line, or "unreadable" with one that cannot be read as text
  joined,       \* "no" until the gates are passed; then "plain", or "wrap" in enforce mode
  target,       \* the process attached to: "alive" | "gone"
  observer,     \* the observability engine
  result        \* exit status of the actime process

planeVars  == <<policy, joined>>
engineVars == <<engine, install, engineLog>>
vars == <<mode, observing, hostGap, pc, recordVars, planeVars, engineVars, target,
          observer, result>>

Attaching == {"create", "compose", "assess", "hung", "gate", "start", "settle",
              "judge", "observe", "follow", "stop", "finish", "report", "abort",
              "abortReport"}

----------------------------------------------------------------------------
(* Before the target is followed. *)

Create ==
  /\ pc = "create"
  /\ \E outcome \in SaveOutcomes :
       /\ SaveManifest(outcome, FreshManifest)
       /\ IF outcome = "ok" THEN pc' = "compose" /\ UNCHANGED result
                            ELSE pc' = "done" /\ result' = 1
  /\ mem' = FreshManifest
  /\ UNCHANGED <<mode, observing, hostGap, report, planeVars, engineVars, target, observer>>

Compose ==
  /\ pc = "compose"
  /\ pc' \in {"assess", "abort"}
  /\ UNCHANGED <<mode, observing, hostGap, recordVars, planeVars, engineVars, target,
                 observer, result>>

Assess ==
  /\ pc = "assess"
  /\ SaveIgnoringErrors([mem EXCEPT !.gap = hostGap])
  /\ pc' = "gate"
  /\ UNCHANGED <<mode, observing, hostGap, report, planeVars, engineVars, target, observer,
                 result>>

\* `actplane compile --json` never returns.
AssessHangs ==
  /\ pc = "assess"
  /\ pc' = "hung"
  /\ UNCHANGED <<mode, observing, hostGap, recordVars, planeVars, engineVars, target,
                 observer, result>>

\* A wrong form: the gate of `actime run` is not repeated for attach.
GateRefuses_Never == FALSE
GateRefuses == mode = "enforce" /\ mem.gap # {}

Gate ==
  /\ pc = "gate"
  /\ IF GateRefuses
       THEN SaveIgnoringErrors([mem EXCEPT !.policy = "Disabled"]) /\ pc' = "abort"
       ELSE pc' = "start" /\ UNCHANGED <<mem, file, disk>>
  /\ UNCHANGED <<mode, observing, hostGap, report, planeVars, engineVars, target, observer,
                 result>>

\* PolicyPlane::start with a host pid.  The mode is off, the engine is missing or
\* old, a file cannot be written, or the spawn fails.
StartDisabled ==
  /\ pc = "start"
  /\ policy' = "Disabled"
  /\ pc' = "judge"
  /\ UNCHANGED <<mode, observing, hostGap, recordVars, joined, engineVars, target, observer,
                 result>>

\* The engine is spawned, in observe mode also with rules it cannot install.
StartEngine ==
  /\ pc = "start"
  /\ mode # "off"
  /\ engine' = "setup"
  /\ pc' = "settle"
  /\ UNCHANGED <<mode, observing, hostGap, recordVars, planeVars, install, engineLog,
                 target, observer, result>>

\* stop_child on the policy engine: one it cannot reap is left behind.
StopEngine_Skipped == UNCHANGED engine
StopEngine ==
  engine' \in (IF engine \in {"setup", "up"} THEN {"exited", "stuck"} ELSE {engine})

\* engine_log_error: in a log that cannot be read there is no error.
LogShowsError == engineLog = "error"

\* settle_engine.  An engine that is gone is no engine, whether waiting on it tells its
\* status or fails, as it can only of one that is gone.  One that is up and says it
\* failed is none either; one that has said nothing yet is taken for installed.
\* (A wrong form: the plane of an engine that is gone is only degraded.)
SettleExited_Softened ==
  /\ pc = "settle"
  /\ engine = "exited"
  /\ policy' = "Degraded"
  /\ pc' = "judge"
  /\ UNCHANGED <<mode, observing, hostGap, recordVars, joined, engineVars, target, observer,
                 result>>

SettleExited ==
  /\ pc = "settle"
  /\ engine = "exited"
  /\ policy' = "Disabled"
  /\ pc' = "judge"
  /\ UNCHANGED <<mode, observing, hostGap, recordVars, joined, engineVars, target, observer,
                 result>>

SettleAlive ==
  /\ pc = "settle"
  /\ engine # "exited"
  /\ IF LogShowsError
       THEN policy' = "Disabled" /\ StopEngine
       ELSE policy' = "Active" /\ UNCHANGED engine
  /\ pc' = "judge"
  /\ UNCHANGED <<mode, observing, hostGap, recordVars, joined, install, engineLog, target,
                 observer, result>>

\* Enforce does not follow a target it does not protect.  (policy.stop() has no
\* child to stop: a plane that is not active holds none.)
EnforceUnmet == mode = "enforce" /\ policy # "Active"

Judge ==
  /\ pc = "judge"
  /\ IF EnforceUnmet
       THEN /\ mem' = [mem EXCEPT !.policy = "Disabled"]
            /\ pc' = "abort"
            /\ UNCHANGED joined
       ELSE /\ mem' = [mem EXCEPT !.policy = policy]
            /\ pc' = "observe"
            /\ joined' = IF mode = "enforce" THEN "wrap" ELSE "plain"
  /\ UNCHANGED <<mode, observing, hostGap, file, disk, report, policy, engineVars, target,
                 observer, result>>

StartObservability ==
  /\ pc = "observe"
  /\ \E outcome \in (IF observing THEN {"Active", "Disabled"} ELSE {"Disabled"}) :
       /\ SaveIgnoringErrors([mem EXCEPT !.observability = outcome, !.backup = "Disabled"])
       /\ observer' = IF outcome = "Active" THEN "running" ELSE "none"
  /\ pc' = "follow"
  /\ UNCHANGED <<mode, observing, hostGap, report, planeVars, engineVars, target, result>>

----------------------------------------------------------------------------
(* Following the target. *)

\* A wrong form: it waits for its engine as well.
TargetEnds_WithEngine ==
  /\ pc = "follow"
  /\ target = "gone"
  /\ engine \notin {"setup", "up"}
  /\ pc' = "stop"
  /\ UNCHANGED <<mode, observing, hostGap, recordVars, planeVars, engineVars, target,
                 observer, result>>

\* /proc/<pid> is gone.  Nothing else is looked at.
TargetEnds ==
  /\ pc = "follow"
  /\ target = "gone"
  /\ pc' = "stop"
  /\ UNCHANGED <<mode, observing, hostGap, recordVars, planeVars, engineVars, target,
                 observer, result>>

\* Both engines, then the harvest.
StopEngines ==
  /\ pc = "stop"
  /\ StopEngine
  /\ observer' \in (IF observer = "running" THEN {"exited", "stuck"} ELSE {observer})
  /\ pc' = "finish"
  /\ UNCHANGED <<mode, observing, hostGap, recordVars, planeVars, install, engineLog,
                 target, result>>

ObservabilityAfterCollect ==
  IF mem.observability = "Active" THEN {"Active", "Degraded"} ELSE {mem.observability}

\* finish, up to its save.  Its error is an error of attach_inner.

FinishSave ==
  /\ pc = "finish"
  /\ \E plane \in ObservabilityAfterCollect, outcome \in SaveOutcomes :
       /\ mem' = [mem EXCEPT !.exit = 0, !.ended = TRUE, !.observability = plane]
       /\ SaveManifest(outcome, mem')
       /\ pc' = IF outcome = "ok" THEN "report" ELSE "abort"
  /\ UNCHANGED <<mode, observing, hostGap, report, planeVars, engineVars, target, observer,
                 result>>

FinishReport ==
  /\ pc = "report"
  /\ report' \in ReportOutcomes
  /\ result' = 0
  /\ pc' = "done"
  /\ UNCHANGED <<mode, observing, hostGap, mem, file, disk, planeVars, engineVars, target,
                 observer>>

\* A wrong form: the record is always made a refusal.
FinalizeAborted_Clobbers ==
  /\ pc = "abort"
  /\ SaveIgnoringErrors(Aborted(mem))
  /\ pc' = "abortReport"
  /\ UNCHANGED <<mode, observing, hostGap, report, planeVars, engineVars, target, observer,
                 result>>

\* finalize_aborted returns at once when the record in memory is closed, as it is
\* after a closing save that failed.
FinalizeAborted ==
  /\ pc = "abort"
  /\ IF mem.exit # NoExit /\ mem.ended
       THEN pc' = "done" /\ result' = 1 /\ UNCHANGED <<mem, file, disk>>
       ELSE SaveIgnoringErrors(Aborted(mem)) /\ pc' = "abortReport" /\ UNCHANGED result
  /\ UNCHANGED <<mode, observing, hostGap, report, planeVars, engineVars, target, observer>>

AbortReport ==
  /\ pc = "abortReport"
  /\ report' \in ReportOutcomes
  /\ result' = 1
  /\ pc' = "done"
  /\ UNCHANGED <<mode, observing, hostGap, mem, file, disk, planeVars, engineVars, target,
                 observer>>

Killed ==
  /\ pc \in Attaching
  /\ pc' = "dead"
  /\ UNCHANGED <<mode, observing, hostGap, recordVars, planeVars, engineVars, target,
                 observer, result>>

\* Ctrl-C while the target is followed.  There is no handler: the signal ends
\* actime, and the engines as far as they let it.
Detach ==
  /\ pc = "follow"
  /\ pc' = "detached"
  /\ engine' \in {engine} \cup (IF engine \in {"setup", "up"} THEN {"exited"} ELSE {})
  /\ observer' \in {observer} \cup (IF observer = "running" THEN {"exited"} ELSE {})
  /\ UNCHANGED <<mode, observing, hostGap, recordVars, planeVars, install, engineLog,
                 target, result>>

----------------------------------------------------------------------------
(* The processes around it. *)

otherThanEngine == <<mode, observing, hostGap, pc, recordVars, planeVars, target, observer,
                     result>>

EngineInstalls ==
  /\ engine = "setup"
  /\ install = "no"
  /\ engine' = "up"
  /\ install' = "ok"
  /\ UNCHANGED <<otherThanEngine, engineLog>>

\* The policy is not installed; an engine that says so may stay up.
EngineInstallFails ==
  /\ engine = "setup"
  /\ install = "no"
  /\ \E failure \in EngineFailures :
       /\ install' = IF pc = "settle" THEN failure ELSE "late"
       /\ engineLog' \in (IF failure = "loud" THEN {"error", "unreadable"} ELSE {engineLog})
       /\ engine' \in {"exited"} \cup (IF failure = "loud" THEN {"up"} ELSE {})
  /\ UNCHANGED otherThanEngine

\* It crashes, is killed, or ends with the tree it watches.
EngineExits ==
  /\ engine = "up"
  /\ engine' = "exited"
  /\ UNCHANGED <<otherThanEngine, install, engineLog>>

TargetExits ==
  /\ target = "alive"
  /\ target' = "gone"
  /\ UNCHANGED <<mode, observing, hostGap, pc, recordVars, planeVars, engineVars, observer,
                 result>>

ObserverExits ==
  /\ observer = "running"
  /\ observer' = "exited"
  /\ UNCHANGED <<mode, observing, hostGap, pc, recordVars, planeVars, engineVars, target,
                 result>>

----------------------------------------------------------------------------

Init ==
  /\ mode \in Modes
  /\ observing \in BOOLEAN
  /\ hostGap \in SUBSET Rules
  /\ pc = "create"
  /\ mem = FreshManifest
  /\ file = "absent"
  /\ disk = FreshManifest
  /\ report = FALSE
  /\ policy = "none"
  /\ engine = "none"
  /\ install = "no"
  /\ engineLog = "silent"
  /\ joined = "no"
  /\ target = "alive"
  /\ observer = "none"
  /\ result = NoExit

Main ==
  \/ Create \/ Compose \/ Assess \/ AssessHangs \/ Gate
  \/ StartDisabled \/ StartEngine \/ SettleExited \/ SettleAlive \/ Judge
  \/ StartObservability \/ TargetEnds \/ StopEngines
  \/ FinishSave \/ FinishReport \/ FinalizeAborted \/ AbortReport

Environment ==
  \/ Killed \/ Detach
  \/ EngineInstalls \/ EngineInstallFails \/ EngineExits \/ TargetExits \/ ObserverExits

Next == Main \/ Environment

Spec == Init /\ [][Next]_vars

\* The kernel schedules actime; nothing obliges the engine, the target or the
\* observer to make progress.
FairSpec == Spec /\ WF_vars(Main)

\* The record of an attach is a run's record: to follow the target takes the place
\* of the launch, protected by the engine in enforce mode and freely otherwise.
Record == INSTANCE RunRecord WITH
            gap <- hostGap, status <- Status, launched <- joined,
            exit <- IF Status = "final" THEN disk.exit ELSE NoExit

----------------------------------------------------------------------------
(* Properties. *)

\* Every variable holds a value the program can give it.
TypeOK ==
  /\ mode \in Modes /\ observing \in BOOLEAN
  /\ hostGap \in SUBSET Rules
  /\ pc \in Attaching \cup {"done", "dead", "detached"}
  /\ mem \in Manifest /\ disk \in Manifest
  /\ file \in {"absent", "whole", "torn"}
  /\ report \in BOOLEAN
  /\ policy \in {"none", "Active", "Disabled"}
  /\ engine \in {"none", "setup", "up", "exited", "stuck"}
  /\ install \in {"no", "ok", "loud", "quiet", "late"}
  /\ engineLog \in {"silent", "error", "unreadable"}
  /\ joined \in {"no", "wrap", "plain"}
  /\ target \in {"alive", "gone"}
  /\ observer \in {"none", "running", "exited", "stuck"}
  /\ result \in Statuses \cup {NoExit}

\* A record says that the attach was refused if and only if the target was never
\* followed; then it ends with exit code 1 and explains every plane.
RefusedMeansNotJoined ==
  Closed =>
    /\ disk.refusedNote <=> joined = "no"
    /\ disk.refusedNote => disk.exit = 1
    /\ "NotStarted" \notin {disk.policy, disk.observability, disk.backup}

\* An attach that returns, refused ones included, leaves no engine on the target:
\* each has exited or has survived SIGKILL.
NothingLeftAttached ==
  pc = "done" => engine \notin {"setup", "up"} /\ observer # "running"

\* The record is opened, written and closed as RunRecord says: closed once, and in
\* enforce mode by an attach that could install every rule before it followed.
RecordRefinement == Record!Spec

\* Once a target is followed, its end ends the attach, whatever the engines go on doing.
TargetEndsAttach == pc = "follow" /\ target = "gone" ~> pc \notin Attaching
=============================================================================
