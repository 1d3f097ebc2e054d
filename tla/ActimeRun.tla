----------------------------- MODULE ActimeRun -----------------------------
(***************************************************************************)
(* One `actime run -- <cmd>`: the thread that executes run(),              *)
(* orchestrate_run() and finish() (crates/actime-cli/src/run.rs), the      *)
(* engine process `actplane run -- <cmd>` it launches, the agent, the      *)
(* thread that copies the engine's stderr into policy-engine.log, the      *)
(* observability engine, and the run record: the manifest in memory and    *)
(* the file manifest.json it is saved to.                                  *)
(*                                                                         *)
(* The main thread is a sequential process with a control point pc; the    *)
(* other processes take their steps between any two of its own.            *)
(***************************************************************************)
EXTENDS RunFile, FiniteSets

CONSTANTS
  Modes,            \* policy modes to start from
  AgentCodes,       \* exit codes the agent may choose
  EngineFailures,   \* "loud": prints an Error: line; "quiet": prints none
  PollMayFail       \* TRUE: waiting on an exited child may fail, as it does when
                    \* actime inherits an ignored SIGCHLD

ASSUME ConstantsAssumption ==
  /\ Modes \subseteq {"off", "observe", "enforce"}
  /\ AgentCodes \subseteq 0..255
  /\ EngineFailures \subseteq {"loud", "quiet"}
  /\ PollMayFail \in BOOLEAN

VARIABLES
  cfg,          \* the resolved configuration of the run
  hostGap,      \* rules this host's engine cannot install
  pc,           \* control point of the main thread
  policy,       \* PolicyPlane.outcome: "none" | "Active" | "Disabled"
  launched,     \* "no" | "wrap" | "plain"
  wrap,         \* the `actplane run` child
  install,      \* what the engine made of the policy
  agent,        \* the agent process
  agentCode,    \* the code the agent exited with of its own accord
  wrapCode,     \* the code the wrap child exited with
  waitCode,     \* the code the main thread will record
  heir,         \* a process that akeep commit left holds its output open
  log,          \* what policy-engine.log holds
  read,         \* history: what it held when it was read for errors
  observer,     \* the observability engine
  found,        \* a block or kill violation was collected
  result        \* exit status of the actime process

childVars  == <<launched, wrap, install, agent, agentCode, wrapCode, heir>>
logVars    == <<log, read>>
vars == <<cfg, hostGap, pc, policy, recordVars, childVars, waitCode, logVars,
          observer, found, result>>

Running == {"create", "compose", "assess", "hung", "gate", "prepare", "launch",
            "observe", "wait", "idle", "confirm", "stop", "harvest", "backup",
            "drain", "finish", "report", "abort", "abortReport"}
Halted  == {"done", "dead"}

\* What the wrap's stderr carries that confirm_install_from_log can tell apart: the
\* engine's "Error:" line, an "error:" line of the agent, and bytes of the agent that
\* are not UTF-8.
Output == {"install", "agent", "bytes"}

----------------------------------------------------------------------------
(* Before the agent exists. *)

\* RunStore::create: the only save whose failure refuses the run outright.
Create ==
  /\ pc = "create"
  /\ \E outcome \in SaveOutcomes :
       /\ SaveManifest(outcome, FreshManifest)
       /\ IF outcome = "ok" THEN pc' = "compose" /\ UNCHANGED result
                            ELSE pc' = "done" /\ result' = 1
  /\ mem' = FreshManifest
  /\ UNCHANGED <<cfg, hostGap, policy, report, childVars, waitCode, logVars,
                 observer, found>>

\* compose: an unknown pack or an unreadable policy file is an error.
Compose ==
  /\ pc = "compose"
  /\ pc' \in {"assess", "abort"}
  /\ UNCHANGED <<cfg, hostGap, policy, recordVars, childVars, waitCode, logVars,
                 observer, found, result>>

\* assess_composed_policy, whose `actplane compile --json` has no time limit.
Assess ==
  /\ pc = "assess"
  /\ SaveIgnoringErrors([mem EXCEPT !.gap = hostGap])
  /\ pc' = "gate"
  /\ UNCHANGED <<cfg, hostGap, policy, report, childVars, waitCode, logVars,
                 observer, found, result>>

AssessHangs ==
  /\ pc = "assess"
  /\ pc' = "hung"
  /\ UNCHANGED <<cfg, hostGap, policy, recordVars, childVars, waitCode, logVars,
                 observer, found, result>>

GateRefuses == cfg.mode = "enforce" /\ mem.gap # {}

\* Enforce with a rule the host cannot install is refused before any engine.
Gate ==
  /\ pc = "gate"
  /\ IF GateRefuses
       THEN /\ SaveIgnoringErrors([mem EXCEPT !.policy = "Disabled"])
            /\ pc' = "abort"
       ELSE /\ pc' = "prepare"
            /\ UNCHANGED <<mem, file, disk>>
  /\ UNCHANGED <<cfg, hostGap, policy, report, childVars, waitCode, logVars,
                 observer, found, result>>

WantPolicy == cfg.mode # "off"

\* PolicyPlane::start with wrap_command: a missing or old engine, or policy files
\* that cannot be written, disable the plane; otherwise it is Active, provisionally.
StartOutcomes_Softened == IF WantPolicy THEN {"Active", "Degraded"} ELSE {"Disabled"}
StartOutcomes == IF WantPolicy THEN {"Active", "Disabled"} ELSE {"Disabled"}

\* The reclassification of a plane with rules the engine would reject.
Reclassified(outcome) ==
  IF WantPolicy /\ mem.gap # {} THEN "Disabled" ELSE outcome

\* Enforce does not go on without an active policy plane.
EnforceUnmet_Never(outcome) == FALSE
EnforceUnmet(outcome) == cfg.mode = "enforce" /\ outcome # "Active"

PreparePolicy ==
  /\ pc = "prepare"
  /\ \E outcome \in StartOutcomes :
       /\ policy' = Reclassified(outcome)
       /\ IF EnforceUnmet(Reclassified(outcome))
            THEN /\ mem' = [mem EXCEPT !.policy = "Disabled"]
                 /\ pc' = "abort"
                 /\ UNCHANGED <<file, disk>>
            ELSE /\ SaveIgnoringErrors([mem EXCEPT !.policy = Reclassified(outcome)])
                 /\ pc' = "launch"
  /\ UNCHANGED <<cfg, hostGap, report, childVars, waitCode, logVars, observer,
                 found, result>>

\* wrap_policy && policy.outcome.is_active()
UseWrap == WantPolicy /\ mem.gap = {} /\ policy = "Active"

LaunchWrap ==
  /\ pc = "launch"
  /\ UseWrap
  /\ launched' = "wrap"
  /\ wrap' = "setup"
  /\ pc' = "observe"
  /\ UNCHANGED <<cfg, hostGap, policy, recordVars, install, agent, agentCode,
                 wrapCode, heir, waitCode, logVars, observer, found, result>>

LaunchPlain ==
  /\ pc = "launch"
  /\ ~UseWrap
  /\ launched' = "plain"
  /\ agent' = "running"
  /\ pc' = "observe"
  /\ UNCHANGED <<cfg, hostGap, policy, recordVars, wrap, install, agentCode,
                 wrapCode, heir, waitCode, logVars, observer, found, result>>

\* The engine log cannot be created, or the program (or sudo) cannot be spawned.
LaunchFails ==
  /\ pc = "launch"
  /\ pc' = "abort"
  /\ UNCHANGED <<cfg, hostGap, policy, recordVars, childVars, waitCode, logVars,
                 observer, found, result>>

\* The on_spawn closure: a plain child always gets an ObservabilityPlane value,
\* a wrapped one only when observability is enabled.
HoldsObservability == launched = "plain" \/ cfg.observability

StartObservability ==
  /\ pc = "observe"
  /\ IF HoldsObservability
       THEN \E outcome \in {"Active", "Disabled"} :
              /\ cfg.observability \/ outcome = "Disabled"
              /\ mem' = [mem EXCEPT !.observability = outcome]
              /\ observer' = IF outcome = "Active" THEN "running" ELSE "none"
       ELSE UNCHANGED <<mem, observer>>
  /\ pc' = "wait"
  /\ UNCHANGED <<cfg, hostGap, policy, file, disk, report, childVars, waitCode,
                 logVars, found, result>>

----------------------------------------------------------------------------
(* Waiting for the agent. *)

\* wait_for_wrap_pid sees the wrap child gone.
WrapReturns ==
  /\ pc \in {"wait", "idle"}
  /\ launched = "wrap"
  /\ wrap = "exited"
  /\ waitCode' = wrapCode
  /\ pc' = "confirm"
  /\ UNCHANGED <<cfg, hostGap, policy, recordVars, childVars, logVars, observer,
                 found, result>>

\* No agent below the wrap for the idle window: the natural-exit wait begins.
\* From here the tree is not looked at again.
SeeIdle_NeverBelowALiveWrap ==
  /\ pc = "wait"
  /\ wrap = "exited"
  /\ pc' = "idle"
  /\ UNCHANGED <<cfg, hostGap, policy, recordVars, childVars, waitCode, logVars,
                 observer, found, result>>

SeeIdle ==
  /\ pc = "wait"
  /\ launched = "wrap"
  /\ wrap # "exited"
  /\ agent # "running"
  /\ pc' = "idle"
  /\ UNCHANGED <<cfg, hostGap, policy, recordVars, childVars, waitCode, logVars,
                 observer, found, result>>

\* terminate_child_graceful on the wrap: SIGTERM, SIGKILL, give up.  "stuck" is a
\* child that was not reaped, or an engine that outlived a killed sudo.  A running
\* agent goes down with the engine or is left to itself.
TerminateWrap ==
  /\ wrap' \in {"exited", "stuck"}
  /\ agent' \in (IF agent = "running" THEN {"exited", "orphan"} ELSE {agent})
  /\ UNCHANGED <<launched, install, agentCode, wrapCode, heir>>

\* Waiting on a terminated child fails like any other wait.
AfterTermination(next, gone) ==
  pc' \in {next} \cup (IF PollMayFail /\ gone THEN {"abort"} ELSE {})

\* The wrap outlived the agent: it is shut down.  A death by signal counts as exit
\* code 0; a status the wrap chose on its way out is kept.
IdleReap ==
  /\ pc = "idle"
  /\ wrap # "exited"
  /\ TerminateWrap
  /\ waitCode' \in {0} \cup {code \in AgentCodes : code < 128}
  /\ AfterTermination("confirm", wrap' = "exited")
  /\ UNCHANGED <<cfg, hostGap, policy, recordVars, logVars, observer, found, result>>

\* limits.wall_clock expires.
WrapDeadline_OnlyWhileIdle ==
  /\ pc = "idle"
  /\ launched = "wrap"
  /\ cfg.limit
  /\ wrap # "exited"
  /\ TerminateWrap
  /\ waitCode' \in AgentCodes \cup {137, 143}
  /\ pc' = "confirm"
  /\ UNCHANGED <<cfg, hostGap, policy, recordVars, logVars, observer, found, result>>

WrapDeadline ==
  /\ pc \in {"wait", "idle"}
  /\ launched = "wrap"
  /\ cfg.limit
  /\ wrap # "exited"
  /\ TerminateWrap
  /\ waitCode' \in AgentCodes \cup {137, 143}
  /\ AfterTermination("confirm", wrap' = "exited")
  /\ UNCHANGED <<cfg, hostGap, policy, recordVars, logVars, observer, found, result>>

PlainReturns ==
  /\ pc = "wait"
  /\ launched = "plain"
  /\ agent = "exited"
  /\ waitCode' = agentCode
  /\ pc' = "stop"
  /\ UNCHANGED <<cfg, hostGap, policy, recordVars, childVars, logVars, observer,
                 found, result>>

PlainDeadline ==
  /\ pc = "wait"
  /\ launched = "plain"
  /\ cfg.limit
  /\ agent = "running"
  /\ agent' \in {"exited", "orphan"}
  /\ waitCode' \in (IF agent' = "orphan" THEN {137} ELSE AgentCodes \cup {137, 143})
  /\ AfterTermination("stop", agent' = "exited")
  /\ UNCHANGED <<cfg, hostGap, policy, recordVars, launched, wrap, install, agentCode,
                 wrapCode, heir, logVars, observer, found, result>>

\* try_wait fails on a child that is gone: `?` leaves orchestrate_run, the plane
\* values are dropped and their child processes are left alone.
PollFails ==
  /\ PollMayFail
  /\ pc \in {"wait", "idle"}
  /\ IF launched = "wrap" THEN wrap = "exited" ELSE agent = "exited"
  /\ pc' = "abort"
  /\ UNCHANGED <<cfg, hostGap, policy, recordVars, childVars, waitCode, logVars,
                 observer, found, result>>

----------------------------------------------------------------------------
(* After the agent. *)

\* stop_child on the observability engine: one it cannot reap is left behind.
StopObserver_Skipped == UNCHANGED observer

StopObserver ==
  observer' \in (IF observer = "running" THEN {"exited", "stuck"} ELSE {observer})

\* engine_log_error: any line that begins with "Error:" or "error:", of a log that is
\* text; in one that is not, or that cannot be read, there is no error.
LogShowsError_Unread == FALSE
LogShowsError == log \cap {"install", "agent"} # {} /\ "bytes" \notin log

\* confirm_install_from_log, then the reclassification and the enforce abort.
ConfirmInstall ==
  /\ pc = "confirm"
  /\ read' = log
  /\ IF LogShowsError
       THEN /\ policy' = "Disabled"
            /\ SaveIgnoringErrors([mem EXCEPT !.policy = "Disabled"])
            /\ IF cfg.mode = "enforce" THEN StopObserver /\ pc' = "abort"
                                       ELSE pc' = "stop" /\ UNCHANGED observer
       ELSE /\ mem' = [mem EXCEPT !.policy = policy]
            /\ pc' = "stop"
            /\ UNCHANGED <<policy, file, disk, observer>>
  /\ UNCHANGED <<cfg, hostGap, report, childVars, waitCode, log, found, result>>

StopEngines ==
  /\ pc = "stop"
  /\ StopObserver
  /\ mem' = IF HoldsObservability THEN mem ELSE [mem EXCEPT !.observability = "Disabled"]
  /\ pc' = "harvest"
  /\ UNCHANGED <<cfg, hostGap, policy, file, disk, report, childVars, waitCode,
                 logVars, found, result>>

\* harvest_actplane_events and the later collection: what they find is the
\* subject of another module; with the policy off there is nothing to find.
Harvest ==
  /\ pc = "harvest"
  /\ found' \in (IF WantPolicy THEN BOOLEAN ELSE {FALSE})
  /\ pc' = "backup"
  /\ UNCHANGED <<cfg, hostGap, policy, recordVars, childVars, waitCode, logVars,
                 observer, result>>

\* BackupPlane::commit: two calls of akeep, each with a time limit.
BackupOutcomes ==
  IF cfg.backup THEN {"Active", "Degraded", "Disabled"} ELSE {"Disabled"}

RecordBackup(outcomes) ==
  /\ \E outcome \in outcomes, commit \in BOOLEAN :
       /\ commit => outcome = "Active"
       /\ mem' = [mem EXCEPT !.backup = outcome, !.commit = commit]
  /\ pc' = "finish"
  /\ UNCHANGED <<cfg, hostGap, policy, file, disk, report, childVars, waitCode,
                 logVars, observer, found, result>>

CommitBackup == pc = "backup" /\ RecordBackup(BackupOutcomes)

\* akeep commit has exited and left its output to a process of its own: it is read
\* to the end, without a time limit.
BackupIsHeld ==
  /\ pc = "backup"
  /\ cfg.backup
  /\ heir' = TRUE
  /\ pc' = "drain"
  /\ UNCHANGED <<cfg, hostGap, policy, recordVars, launched, wrap, install, agent,
                 agentCode, wrapCode, waitCode, logVars, observer, found, result>>

FinishBackup == pc = "drain" /\ ~heir /\ RecordBackup({"Active", "Degraded"})

\* An observability plane that recorded nothing is only Degraded.
ObservabilityAfterCollect ==
  IF mem.observability = "Active" THEN {"Active", "Degraded"} ELSE {mem.observability}

\* finish, up to its save: an error there leaves no report and no second attempt.

FinishSave_ErrorIgnored ==
  /\ pc = "finish"
  /\ \E plane \in ObservabilityAfterCollect :
       SaveIgnoringErrors([mem EXCEPT !.exit = waitCode, !.ended = TRUE,
                                      !.observability = plane])
  /\ pc' = "report"
  /\ UNCHANGED <<cfg, hostGap, policy, report, childVars, waitCode, logVars,
                 observer, found, result>>

FinishSave ==
  /\ pc = "finish"
  /\ \E plane \in ObservabilityAfterCollect, outcome \in SaveOutcomes :
       /\ mem' = [mem EXCEPT !.exit = waitCode, !.ended = TRUE, !.observability = plane]
       /\ SaveManifest(outcome, mem')
       /\ IF outcome = "ok" THEN pc' = "report" /\ UNCHANGED result
                            ELSE pc' = "done" /\ result' = 1
  /\ UNCHANGED <<cfg, hostGap, policy, report, childVars, waitCode, logVars,
                 observer, found>>

\* A wrong form: the violation exit code is put in the closed record.
FinishReport_RecordsThree ==
  /\ pc = "report"
  /\ report' \in ReportOutcomes
  /\ result' = IF cfg.failOnViolation /\ found THEN 3 ELSE waitCode
  /\ SaveIgnoringErrors([mem EXCEPT !.exit = result'])
  /\ pc' = "done"
  /\ UNCHANGED <<cfg, hostGap, policy, childVars, waitCode, logVars,
                 observer, found>>

FinishReport ==
  /\ pc = "report"
  /\ report' \in ReportOutcomes
  /\ result' = IF cfg.failOnViolation /\ found THEN 3 ELSE waitCode
  /\ pc' = "done"
  /\ UNCHANGED <<cfg, hostGap, policy, mem, file, disk, childVars, waitCode, logVars,
                 observer, found>>

\* finalize_aborted.  Its early return for a record that is already closed cannot
\* be taken here: orchestrate_run never closes the record.
FinalizeAborted ==
  /\ pc = "abort"
  /\ SaveIgnoringErrors(Aborted(mem))
  /\ pc' = "abortReport"
  /\ UNCHANGED <<cfg, hostGap, policy, report, childVars, waitCode, logVars,
                 observer, found, result>>

AbortReport ==
  /\ pc = "abortReport"
  /\ report' \in ReportOutcomes
  /\ result' = 1
  /\ pc' = "done"
  /\ UNCHANGED <<cfg, hostGap, policy, mem, file, disk, childVars, waitCode, logVars,
                 observer, found>>

\* A signal ends actime at any point: it installs no handler.
Killed ==
  /\ pc \in Running
  /\ pc' = "dead"
  /\ UNCHANGED <<cfg, hostGap, policy, recordVars, childVars, waitCode, logVars,
                 observer, found, result>>

----------------------------------------------------------------------------
(* The processes around it. *)

otherThanEngine == <<cfg, hostGap, pc, policy, recordVars, launched, heir, waitCode,
                     log, read, observer, found, result>>

EngineInstalls ==
  /\ wrap = "setup"
  /\ wrap' = "up"
  /\ install' = "ok"
  /\ UNCHANGED <<otherThanEngine, agent, agentCode, wrapCode>>

\* The policy is not installed.  An engine that says so may stay up; one that
\* never got to run (sudo refused) is gone at once.
EngineInstallFails ==
  /\ wrap = "setup"
  /\ \E failure \in EngineFailures :
       /\ install' = failure
       /\ \/ wrap' = "exited" /\ wrapCode' = 1
          \/ failure = "loud" /\ wrap' = "up" /\ UNCHANGED wrapCode
  /\ UNCHANGED <<otherThanEngine, agent, agentCode>>

EngineStartsAgent ==
  /\ wrap = "up"
  /\ agent = "none"
  /\ agent' = "running"
  /\ UNCHANGED <<otherThanEngine, wrap, install, agentCode, wrapCode>>

AgentExits ==
  /\ agent = "running"
  /\ agent' = "exited"
  /\ agentCode' \in AgentCodes
  /\ UNCHANGED <<otherThanEngine, wrap, install, wrapCode>>

\* `actplane run` ends with the status of the command it wrapped.
EngineExits ==
  /\ wrap = "up"
  /\ agent = "exited"
  /\ wrap' = "exited"
  /\ wrapCode' = agentCode
  /\ UNCHANGED <<otherThanEngine, install, agent, agentCode>>

\* The engine dies under a live agent, which goes on without it.
EngineCrashes ==
  /\ wrap = "up"
  /\ agent = "running"
  /\ wrap' = "exited"
  /\ wrapCode' = 1
  /\ UNCHANGED <<otherThanEngine, install, agent, agentCode>>

\* What the wrap's stderr may carry: an engine that failed loudly has said so, and the
\* agent, which inherits it, prints what it likes.
Printed ==
  {line \in Output : IF line = "install" THEN install = "loud"
                                         ELSE launched = "wrap" /\ agent # "none"}

\* The copying thread starts when the on_spawn closure has returned.  Nothing obliges
\* it to keep up, nobody joins it, and it ends early when the terminal refuses its
\* copy.  What it copies once the log has been read is of no account here.
TeeCopies ==
  /\ pc \in {"wait", "idle", "confirm"}
  /\ \E line \in Printed \ log : log' = log \cup {line}
  /\ UNCHANGED <<cfg, hostGap, pc, policy, recordVars, childVars, waitCode, read,
                 observer, found, result>>

ObserverExits ==
  /\ observer = "running"
  /\ observer' = "exited"
  /\ UNCHANGED <<cfg, hostGap, pc, policy, recordVars, childVars, waitCode, logVars,
                 found, result>>

HeirEnds ==
  /\ heir
  /\ heir' = FALSE
  /\ UNCHANGED <<cfg, hostGap, pc, policy, recordVars, launched, wrap, install, agent,
                 agentCode, wrapCode, waitCode, logVars, observer, found, result>>

----------------------------------------------------------------------------

Init ==
  /\ cfg \in [mode : Modes, observability : BOOLEAN, backup : BOOLEAN,
              failOnViolation : BOOLEAN, limit : BOOLEAN]
  /\ hostGap \in SUBSET Rules
  /\ pc = "create"
  /\ policy = "none"
  /\ mem = FreshManifest
  /\ file = "absent"
  /\ disk = FreshManifest
  /\ report = FALSE
  /\ launched = "no"
  /\ wrap = "none"
  /\ install = "no"
  /\ agent = "none"
  /\ agentCode = NoExit
  /\ wrapCode = NoExit
  /\ waitCode = NoExit
  /\ log = {}
  /\ read = {}
  /\ heir = FALSE
  /\ observer = "none"
  /\ found = FALSE
  /\ result = NoExit

Main ==
  \/ Create \/ Compose \/ Assess \/ AssessHangs \/ Gate \/ PreparePolicy
  \/ LaunchWrap \/ LaunchPlain \/ LaunchFails \/ StartObservability
  \/ WrapReturns \/ SeeIdle \/ IdleReap \/ WrapDeadline
  \/ PlainReturns \/ PlainDeadline \/ PollFails
  \/ ConfirmInstall \/ StopEngines \/ Harvest
  \/ CommitBackup \/ BackupIsHeld \/ FinishBackup
  \/ FinishSave \/ FinishReport \/ FinalizeAborted \/ AbortReport

Environment ==
  \/ Killed
  \/ EngineInstalls \/ EngineInstallFails \/ EngineStartsAgent \/ EngineExits
  \/ EngineCrashes \/ AgentExits \/ TeeCopies \/ ObserverExits
  \/ HeirEnds

Next == Main \/ Environment

Spec == Init /\ [][Next]_vars

\* The kernel schedules the main thread of actime; nothing obliges the engine, the
\* agent, the observer, the compiler, akeep's heirs or the copying thread to make
\* progress.
FairSpec == Spec /\ WF_vars(Main)
----------------------------------------------------------------------------
(* The run record as its readers see it. *)

Record == INSTANCE RunRecord WITH
            mode <- cfg.mode, gap <- hostGap, status <- Status,
            launched <- launched,
            exit <- IF Status = "final" THEN disk.exit ELSE NoExit

----------------------------------------------------------------------------
(* Properties. *)

\* Every variable holds a value the program can give it.
TypeOK ==
  /\ cfg \in [mode : {"off", "observe", "enforce"}, observability : BOOLEAN,
              backup : BOOLEAN, failOnViolation : BOOLEAN, limit : BOOLEAN]
  /\ hostGap \in SUBSET Rules
  /\ pc \in Running \cup Halted
  /\ policy \in {"none", "Active", "Disabled"}
  /\ mem \in Manifest /\ disk \in Manifest
  /\ file \in {"absent", "whole", "torn"}
  /\ report \in BOOLEAN /\ found \in BOOLEAN
  /\ launched \in {"no", "wrap", "plain"}
  /\ wrap \in {"none", "setup", "up", "exited", "stuck"}
  /\ install \in {"no", "ok", "loud", "quiet"}
  /\ agent \in {"none", "running", "exited", "orphan"}
  /\ agentCode \in Statuses \cup {NoExit}
  /\ wrapCode \in Statuses \cup {NoExit}
  /\ waitCode \in Statuses \cup {NoExit}
  /\ log \subseteq Output /\ read \subseteq Output
  /\ heir \in BOOLEAN
  /\ observer \in {"none", "running", "exited", "stuck"}
  /\ result \in Statuses \cup {NoExit}

\* Enforce fails closed and no policy is installed in part: an engine is launched
\* only when this host can install every rule, and enforce launches nothing else.
FailClosed ==
  /\ launched = "wrap"  => hostGap = {} /\ cfg.mode # "off"
  /\ launched = "plain" => cfg.mode # "enforce"

\* A run that launched nothing closes as an auditable refusal: exit code 1, the
\* note that says so, and no plane left unexplained.
RefusalIsAudited ==
  Closed /\ launched = "no" =>
    /\ disk.exit = 1
    /\ disk.refusedNote
    /\ disk.policy # "NotStarted"
    /\ disk.observability = "Refused"
    /\ disk.backup = "Refused"

\* Unless actime exits with 1, the record a reader finds is closed and is the one
\* the run held in memory; where every write succeeds, so it is after any exit.
ExitMeansRecorded ==
  pc = "done" /\ (result # 1 \/ SaveOutcomes = {"ok"}) =>
    /\ Closed
    /\ disk = mem
    /\ result \in {disk.exit, 3}
    /\ SaveOutcomes = {"ok"} => report

\* With no policy engine around it, an agent that ended by itself has its own
\* exit code in the record.
PlainExitFaithful ==
  Closed /\ launched = "plain" /\ agentCode # NoExit /\ ~disk.refusedNote =>
    disk.exit = agentCode

\* An install failure that the log shows when it is read is never recorded as an
\* active policy plane, and an enforced run closes as failed, whatever else the agent
\* wrote there.  Not so when a byte of the agent makes the log no text, and what
\* reaches the log later is not seen at all.
LoudFailureDemoted ==
  Closed /\ "install" \in read /\ "bytes" \notin read =>
    /\ disk.policy # "Active"
    /\ cfg.mode = "enforce" => disk.exit = 1

\* When actime returns, no engine it started is running unattended: each has
\* exited or has survived SIGKILL.
NoEngineLeftBehind ==
  pc = "done" => observer # "running" /\ wrap \notin {"setup", "up"}

\* The record is opened, written and closed as RunRecord says: closed once, by a
\* run whose agent was launched as the policy mode permits, and final from then on.
RecordRefinement == Record!Spec

\* The main thread waits for a process that keeps akeep's output open, and on which it
\* sets no time limit.
OutputHeld == pc = "drain" /\ heir

\* An agent that ended ends the run, whatever its engine goes on doing, but for the
\* time that something holds the output of its backup.
AgentEndsRunEnds == agent = "exited" ~> pc \in Halted \/ OutputHeld

\* With a wall-clock limit the run ends, even when the agent never does, unless the
\* compiler does not answer, and but for the time that the backup's output is held.
LimitEndsRun == cfg.limit ~> pc \in Halted \/ pc = "hung" \/ OutputHeld

----------------------------------------------------------------------------
(* What the documents say and the code does not do. *)

\* "Outcome is only Active when the policy is verifiably installed": not when the
\* launch failed, when sudo refused, or when the engine's error was read too early.
ActiveMeansInstalled == Closed /\ disk.policy = "Active" => install = "ok"
=============================================================================
