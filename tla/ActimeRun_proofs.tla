-------------------------- MODULE ActimeRun_proofs --------------------------
(***************************************************************************)
(* Theorems about ActimeRun, for every set of rules, every choice of modes *)
(* and exit codes, and every way saving, waiting and compiling may fail.   *)
(*                                                                         *)
(* One inductive invariant serves them all.  Its parts say what the main   *)
(* thread has established at each control point (LaunchMatchesControl,     *)
(* GateHeld, RecordOpen, ...) and how the processes around it may differ   *)
(* from what it knows (CodesKnown, FailureHeld, ...).                    *)
(***************************************************************************)
EXTENDS ActimeRun, TLAPS

FileState == {"absent", "whole", "torn"}

\* Control points before the launch, after it, and while the agent may run.
Early   == {"create", "compose", "assess", "hung", "gate", "prepare", "launch"}
Late    == {"observe", "wait", "idle", "confirm", "stop", "harvest", "backup",
            "drain", "finish", "report"}
Waiting == {"observe", "wait", "idle"}

\* Control points after waiting, and those at which the record is still open.
Settled  == {"stop", "harvest", "backup", "drain", "finish", "report", "abort",
             "abortReport", "done"}
Unclosed == Running \ {"report", "abortReport"}

----------------------------------------------------------------------------
(* The inductive invariant. *)

\* A plane value exists once the policy has been prepared.
PlanePrepared == pc \in {"launch"} \cup Late => policy # "none"

LaunchMatchesControl ==
  /\ pc \in Early => launched = "no"
  /\ pc \in Late  => launched # "no"
  /\ launched = "no" => wrap = "none" /\ agent = "none"
  /\ pc \in {"idle", "confirm"} => launched = "wrap"
  /\ launched = "plain" => wrap = "none"
  /\ wrap = "setup" => agent = "none"

\* An exited process left a code, and a wait that ended has one.
CodesKnown ==
  /\ pc \in Waiting /\ wrap = "exited" => wrapCode # NoExit
  /\ pc \in Waiting /\ agent = "exited" => agentCode # NoExit
  /\ wrap = "up" /\ agent = "exited" => agentCode # NoExit
  /\ pc \in {"confirm", "stop", "harvest", "backup", "drain", "finish"} => waitCode # NoExit
  /\ disk.ended => disk.exit # NoExit

\* What the gate and the plane have established by the time of the launch.
GateHeld ==
  /\ pc \in {"gate", "prepare", "launch"} => mem.gap = hostGap
  /\ policy = "Active" => cfg.mode # "off" /\ hostGap = {}
  /\ pc = "launch" /\ cfg.mode = "enforce" => policy = "Active"

\* The file exists from the first save on, and no save closes the record early.
RecordOpen ==
  /\ pc = "create" => file = "absent"
  /\ pc \in Running \ {"create"} => file # "absent"
  /\ pc \in Unclosed => ~mem.ended /\ ~disk.ended

\* Until the agent is launched nobody touches the planes started after it.
PlanesUntouched ==
  launched = "no" /\ pc \in Unclosed =>
    mem.observability = "NotStarted" /\ mem.backup = "NotStarted"

\* RefusalIsAudited, of the last manifest written rather than of the file.
RefusalWritten ==
  disk.ended /\ launched = "no" =>
    /\ disk.exit = 1
    /\ disk.refusedNote
    /\ disk.policy # "NotStarted"
    /\ disk.observability = "Refused"
    /\ disk.backup = "Refused"

\* Between the last save and the report, the file is what memory says.
Saved ==
  /\ pc = "report" => file = "whole" /\ disk = mem /\ mem.ended /\ mem.exit = waitCode
  /\ pc = "abortReport" =>
       /\ mem.ended /\ mem.exit = 1
       /\ SaveOutcomes = {"ok"} => file = "whole" /\ disk = mem

\* The code of a plain agent, from its exit to the record.
PlainCode ==
  /\ agent \in {"none", "running"} => agentCode = NoExit
  /\ launched = "plain"
     /\ pc \in {"stop", "harvest", "backup", "drain", "finish", "report"} =>
       agent # "running" /\ (agentCode # NoExit => waitCode = agentCode)
  /\ disk.ended /\ launched = "plain" /\ ~disk.refusedNote =>
       agent # "running" /\ (agentCode # NoExit => disk.exit = agentCode)

\* The engines have been stopped by the time the run is settled.
EnginesStopped ==
  ~PollMayFail =>
    /\ pc \in Early \cup {"observe"} => observer = "none"
    /\ pc \in Settled \ {"stop"} => observer # "running"
    /\ pc \in Settled \cup {"confirm"} \/ disk.ended => wrap \notin {"setup", "up"}

\* The log is read once the wait is over; a failure it showed is in the record from
\* then on, and an enforced run ends there.
ReadShowsFailure == "install" \in read /\ "bytes" \notin read
FailureHeld ==
  /\ pc \in Early \cup Waiting \cup {"confirm"} => read = {}
  /\ ReadShowsFailure =>
       /\ mem.policy = "Disabled"
       /\ disk.ended => disk.policy # "Active"
       /\ cfg.mode = "enforce" => pc \notin Late /\ (disk.ended => disk.exit = 1)

\* PlanePrepared stands beside TypeOK, which is not inductive without it.
IInv ==
  /\ LaunchMatchesControl
  /\ CodesKnown
  /\ GateHeld
  /\ RecordOpen
  /\ PlanesUntouched
  /\ RefusalWritten
  /\ FailClosed
  /\ Saved
  /\ ExitMeansRecorded
  /\ PlainCode
  /\ EnginesStopped
  /\ FailureHeld

----------------------------------------------------------------------------
(* Types. *)

\* The initial states are typed.
LEMMA InitTyped == Init => TypeOK /\ PlanePrepared
<1> SUFFICES ASSUME Init PROVE TypeOK /\ PlanePrepared
  OBVIOUS
<1>1. FreshManifest \in Manifest
  BY DEF FreshManifest, Manifest, PlaneState, NoExit
<1>2. cfg \in [mode : {"off", "observe", "enforce"}, observability : BOOLEAN,
              backup : BOOLEAN, failOnViolation : BOOLEAN, limit : BOOLEAN]
  BY ConstantsAssumption, SaveAssumption DEF Init
<1> QED
  BY <1>1, <1>2 DEF Init, TypeOK, PlanePrepared, Late, Running, Halted, NoExit

\* Saving a manifest, whatever becomes of the write, leaves a manifest behind.
LEMMA SaveTyped ==
  ASSUME TypeOK, NEW m \in Manifest, SaveIgnoringErrors(m)
  PROVE  mem' \in Manifest /\ disk' \in Manifest /\ file' \in FileState
BY DEF TypeOK, SaveIgnoringErrors, SaveManifest, FileState

\* The record of a refused run is a manifest.
LEMMA RefusedTyped ==
  ASSUME mem \in Manifest
  PROVE  [mem EXCEPT !.exit = 1, !.ended = TRUE, !.refusedNote = TRUE,
                     !.policy = RefusedPlane(@),
                     !.observability = RefusedPlane(@),
                     !.backup = RefusedPlane(@)] \in Manifest
<1>1. \A state \in PlaneState : RefusedPlane(state) \in PlaneState
  BY DEF PlaneState, RefusedPlane
<1>2. /\ RefusedPlane(mem.policy) \in PlaneState
      /\ RefusedPlane(mem.observability) \in PlaneState
      /\ RefusedPlane(mem.backup) \in PlaneState
  BY <1>1 DEF Manifest
<1>3. 1 \in Statuses \cup {NoExit}
  BY DEF Statuses
<1> QED
  BY <1>2, <1>3 DEF Manifest

\* A reaped wrap yields a code.
LEMMA IdleReapCode == IdleReap => waitCode' # NoExit
<1> SUFFICES ASSUME IdleReap PROVE waitCode' # NoExit
  OBVIOUS
<1>1. \A code \in AgentCodes : code \in 0..255
  BY ConstantsAssumption, SaveAssumption
<1>2. waitCode' = 0 \/ waitCode' \in AgentCodes
  BY DEF IdleReap
<1> QED
  BY <1>1, <1>2 DEF NoExit

\* No step takes a variable out of its type.
LEMMA TypeStep == TypeOK /\ PlanePrepared /\ [Next]_vars => TypeOK' /\ PlanePrepared'
<1> SUFFICES ASSUME TypeOK, PlanePrepared, [Next]_vars
             PROVE  TypeOK' /\ PlanePrepared'
  OBVIOUS
<1> USE ConstantsAssumption, SaveAssumption DEF TypeOK, PlanePrepared, Late, NoExit,
   Running, Halted, FileState,
        recordVars, childVars, logVars
<1>1. CASE Create
  <2>1. FreshManifest \in Manifest
    BY DEF FreshManifest, Manifest, PlaneState
  <2>2. mem' \in Manifest /\ disk' \in Manifest /\ file' \in FileState
    BY <1>1, <2>1 DEF Create, SaveManifest, FileState
  <2> QED
    BY <1>1, <2>2 DEF Create, Statuses
<1>2. CASE Compose
  BY <1>2 DEF Compose
<1>3. CASE Assess
  <2>1. [mem EXCEPT !.gap = hostGap] \in Manifest
    BY DEF Manifest
  <2>2. mem' \in Manifest /\ disk' \in Manifest /\ file' \in FileState
    BY <1>3, <2>1, SaveTyped DEF Assess
  <2> QED
    BY <1>3, <2>2 DEF Assess
<1>4. CASE AssessHangs
  BY <1>4 DEF AssessHangs
<1>5. CASE Gate
  <2>1. [mem EXCEPT !.policy = "Disabled"] \in Manifest
    BY DEF Manifest, PlaneState
  <2>2. mem' \in Manifest /\ disk' \in Manifest /\ file' \in FileState
    BY <1>5, <2>1, SaveTyped DEF Gate, FileState
  <2> QED
    BY <1>5, <2>2 DEF Gate
<1>6. CASE PreparePolicy
  <2>1. PICK outcome \in StartOutcomes :
          /\ policy' = Reclassified(outcome)
          /\ IF EnforceUnmet(Reclassified(outcome))
               THEN /\ mem' = [mem EXCEPT !.policy = "Disabled"]
                    /\ UNCHANGED <<file, disk>>
               ELSE SaveIgnoringErrors([mem EXCEPT !.policy = Reclassified(outcome)])
    BY <1>6 DEF PreparePolicy
  <2>2. policy' \in {"Active", "Disabled"}
    BY <2>1 DEF StartOutcomes, Reclassified
  <2>3. /\ [mem EXCEPT !.policy = "Disabled"] \in Manifest
        /\ [mem EXCEPT !.policy = policy'] \in Manifest
    BY <2>2 DEF Manifest, PlaneState
  <2>4. mem' \in Manifest /\ disk' \in Manifest /\ file' \in FileState
    BY <2>1, <2>3, SaveTyped DEF FileState
  <2>5. pc' \in {"abort", "launch"}
    BY <1>6 DEF PreparePolicy
  <2> QED
    BY <1>6, <2>2, <2>4, <2>5 DEF PreparePolicy
<1>7. CASE LaunchWrap
  BY <1>7 DEF LaunchWrap
<1>8. CASE LaunchPlain
  BY <1>8 DEF LaunchPlain
<1>9. CASE LaunchFails
  BY <1>9 DEF LaunchFails
<1>10. CASE StartObservability
  <2>1. mem' \in Manifest /\ observer' \in {"none", "running", "exited", "stuck"}
    BY <1>10 DEF StartObservability, Manifest, PlaneState
  <2> QED
    BY <1>10, <2>1 DEF StartObservability
<1>11. CASE WrapReturns
  BY <1>11 DEF WrapReturns
<1>12. CASE SeeIdle
  BY <1>12 DEF SeeIdle
<1>13. CASE IdleReap
  BY <1>13 DEF IdleReap, TerminateWrap, AfterTermination, Statuses
<1>14. CASE WrapDeadline
  BY <1>14 DEF WrapDeadline, TerminateWrap, AfterTermination, Statuses
<1>15. CASE PlainReturns
  BY <1>15 DEF PlainReturns
<1>16. CASE PlainDeadline
  BY <1>16 DEF PlainDeadline, AfterTermination, Statuses
<1>17. CASE PollFails
  BY <1>17 DEF PollFails
<1>18. CASE ConfirmInstall
  <2>1. /\ [mem EXCEPT !.policy = "Disabled"] \in Manifest
        /\ [mem EXCEPT !.policy = policy] \in Manifest
    BY <1>18 DEF ConfirmInstall, Manifest, PlaneState, Late
  <2>2. mem' \in Manifest /\ disk' \in Manifest /\ file' \in FileState
    BY <1>18, <2>1, SaveTyped DEF ConfirmInstall, FileState
  <2>3. observer' \in {"none", "running", "exited", "stuck"} /\ pc' \in {"abort", "stop"}
    BY <1>18 DEF ConfirmInstall, StopObserver
  <2> QED
    BY <1>18, <2>2, <2>3 DEF ConfirmInstall, Late
<1>19. CASE StopEngines
  <2>1. mem' \in Manifest
    BY <1>19 DEF StopEngines, Manifest, PlaneState
  <2> QED
    BY <1>19, <2>1 DEF StopEngines, StopObserver
<1>20. CASE Harvest
  <2>1. found' \in BOOLEAN
    BY <1>20, Zenon DEF Harvest
  <2> QED
    BY <1>20, <2>1 DEF Harvest
<1>21. CASE CommitBackup \/ FinishBackup
  <2>1. PICK outcome \in {"Active", "Degraded", "Disabled"}, commit \in BOOLEAN :
          mem' = [mem EXCEPT !.backup = outcome, !.commit = commit]
    BY <1>21 DEF CommitBackup, FinishBackup, RecordBackup, BackupOutcomes
  <2>2. outcome \in PlaneState
    BY DEF PlaneState
  <2>3. mem' \in Manifest
    BY <2>1, <2>2 DEF Manifest
  <2>4. CASE CommitBackup
    BY <2>3, <2>4 DEF CommitBackup, RecordBackup
  <2>5. CASE FinishBackup
    BY <2>3, <2>5 DEF FinishBackup, RecordBackup
  <2> QED
    BY <1>21, <2>4, <2>5
<1>22. CASE FinishSave
  <2>1. PICK plane \in ObservabilityAfterCollect, outcome \in SaveOutcomes :
          /\ mem' = [mem EXCEPT !.exit = waitCode, !.ended = TRUE, !.observability = plane]
          /\ SaveManifest(outcome, mem')
    BY <1>22 DEF FinishSave
  <2>2. plane \in PlaneState
    BY DEF ObservabilityAfterCollect, PlaneState, Manifest
  <2>3. mem' \in Manifest
    BY <2>1, <2>2 DEF Manifest
  <2>4. disk' \in Manifest /\ file' \in FileState
    BY <2>1, <2>3 DEF SaveManifest, FileState
  <2> QED
    BY <1>22, <2>3, <2>4 DEF FinishSave, Statuses
<1>23. CASE FinishReport
  <2>1. report' \in BOOLEAN
    BY <1>23, Zenon DEF FinishReport, ReportOutcomes
  <2>2. result' \in Statuses \cup {NoExit} /\ pc' = "done"
    BY <1>23 DEF FinishReport, Statuses, NoExit
  <2> QED
    BY <1>23, <2>1, <2>2 DEF FinishReport
<1>24. CASE FinalizeAborted
  <2> DEFINE m == [mem EXCEPT !.exit = 1, !.ended = TRUE, !.refusedNote = TRUE,
                              !.policy = RefusedPlane(@),
                              !.observability = RefusedPlane(@),
                              !.backup = RefusedPlane(@)]
  <2>1. m \in Manifest
    BY RefusedTyped
  <2>2. SaveIgnoringErrors(m)
    BY <1>24 DEF FinalizeAborted, Aborted
  <2>3. mem' \in Manifest /\ disk' \in Manifest /\ file' \in FileState
    BY <2>1, <2>2, SaveTyped
  <2> QED
    BY <1>24, <2>3 DEF FinalizeAborted, Aborted
<1>25. CASE AbortReport
  <2>1. report' \in BOOLEAN
    BY <1>25, Zenon DEF AbortReport, ReportOutcomes
  <2> QED
    BY <1>25, <2>1 DEF AbortReport, Statuses
<1>26. CASE Killed
  BY <1>26 DEF Killed
<1>27. CASE EngineInstalls
  BY <1>27 DEF EngineInstalls, otherThanEngine
<1>28. CASE EngineInstallFails
  BY <1>28 DEF EngineInstallFails, otherThanEngine, Statuses
<1>29. CASE EngineStartsAgent
  BY <1>29 DEF EngineStartsAgent, otherThanEngine
<1>30. CASE EngineExits
  BY <1>30 DEF EngineExits, otherThanEngine
<1>31. CASE EngineCrashes
  BY <1>31 DEF EngineCrashes, otherThanEngine, Statuses
<1>32. CASE HeirEnds
  <2>1. heir' \in BOOLEAN
    BY <1>32, Zenon DEF HeirEnds
  <2> QED
    BY <1>32, <2>1 DEF HeirEnds
<1>33. CASE AgentExits
  BY <1>33 DEF AgentExits, otherThanEngine, Statuses
<1>34. CASE TeeCopies
  BY <1>34 DEF TeeCopies, Printed
<1>35. CASE ObserverExits
  BY <1>35 DEF ObserverExits
<1>36. CASE BackupIsHeld
  BY <1>36 DEF BackupIsHeld
<1>37. CASE UNCHANGED vars
  BY <1>37 DEF vars
<1> QED
  BY <1>1, <1>2, <1>3, <1>4, <1>5, <1>6, <1>7, <1>8, <1>9, <1>10, <1>11, <1>12,
     <1>13, <1>14, <1>15, <1>16, <1>17, <1>18, <1>19, <1>20, <1>21, <1>22, <1>23,
     <1>24, <1>25, <1>26, <1>27, <1>28, <1>29, <1>30, <1>31, <1>32, <1>33, <1>34,
     <1>35, <1>36, <1>37 DEF Next, Main, Environment

\* Every variable of a run always holds a value of its type, whatever fails: in
\* particular the recorded plane states and exit codes are ones a reader expects.
THEOREM TypeCorrect == Spec => []TypeOK
<1>1. Init => TypeOK /\ PlanePrepared
  BY InitTyped
<1>2. TypeOK /\ PlanePrepared /\ [Next]_vars => TypeOK' /\ PlanePrepared'
  BY TypeStep
<1> QED
  BY <1>1, <1>2, PTL DEF Spec

----------------------------------------------------------------------------
(* The inductive invariant is inductive. *)

\* Nothing has happened in an initial state.
LEMMA InitInv == Init => IInv
BY DEF Init, IInv, FreshManifest, Early, Late, Waiting, Settled, Unclosed, Running,
   LaunchMatchesControl, CodesKnown, GateHeld, RecordOpen, PlanesUntouched,
   RefusalWritten, FailClosed, Saved, ExitMeansRecorded, PlainCode, EnginesStopped,
   FailureHeld, ReadShowsFailure

\* Control, processes and their codes stay in step.
LEMMA LaunchStep ==
  TypeOK /\ PlanePrepared /\ IInv /\ [Next]_vars => (LaunchMatchesControl /\ CodesKnown)'
<1> SUFFICES ASSUME TypeOK, PlanePrepared, IInv, [Next]_vars
             PROVE  (LaunchMatchesControl /\ CodesKnown)'
  OBVIOUS
<1> USE ConstantsAssumption, SaveAssumption DEF TypeOK, Manifest, PlaneState,
   Statuses, NoExit,
        Running, Halted, recordVars, childVars, logVars, Late, Early, Unclosed,
        Waiting, Settled, PlanePrepared, Closed, Status, IInv,
        LaunchMatchesControl, CodesKnown, RecordOpen
<1>1. CASE Create
  BY <1>1 DEF Create, SaveManifest, FreshManifest
<1>2. CASE Compose
  BY <1>2 DEF Compose
<1>3. CASE Assess
  BY <1>3 DEF Assess, SaveIgnoringErrors, SaveManifest
<1>4. CASE AssessHangs
  BY <1>4 DEF AssessHangs
<1>5. CASE Gate
  BY <1>5 DEF Gate, GateRefuses, SaveIgnoringErrors, SaveManifest
<1>6. CASE PreparePolicy
  BY <1>6 DEF PreparePolicy, StartOutcomes, WantPolicy, Reclassified,
     EnforceUnmet, SaveIgnoringErrors, SaveManifest
<1>7. CASE LaunchWrap
  BY <1>7 DEF LaunchWrap, UseWrap, WantPolicy
<1>8. CASE LaunchPlain
  BY <1>8 DEF LaunchPlain, UseWrap, WantPolicy
<1>9. CASE LaunchFails
  BY <1>9 DEF LaunchFails
<1>10. CASE StartObservability
  BY <1>10 DEF StartObservability, HoldsObservability
<1>11. CASE WrapReturns
  BY <1>11 DEF WrapReturns
<1>12. CASE SeeIdle
  BY <1>12 DEF SeeIdle
<1>13. CASE IdleReap
  <2>1. waitCode' # NoExit
    BY <1>13, IdleReapCode
  <2> QED
    BY <1>13, <2>1 DEF IdleReap, TerminateWrap, AfterTermination
<1>14. CASE WrapDeadline
  BY <1>14 DEF WrapDeadline, TerminateWrap, AfterTermination
<1>15. CASE PlainReturns
  BY <1>15 DEF PlainReturns
<1>16. CASE PlainDeadline
  BY <1>16 DEF PlainDeadline, AfterTermination
<1>17. CASE PollFails
  BY <1>17 DEF PollFails
<1>18. CASE ConfirmInstall
  BY <1>18 DEF ConfirmInstall, LogShowsError, StopObserver, SaveIgnoringErrors,
     SaveManifest
<1>19. CASE StopEngines
  BY <1>19 DEF StopEngines, StopObserver, HoldsObservability
<1>20. CASE Harvest
  BY <1>20 DEF Harvest
<1>21. CASE CommitBackup \/ FinishBackup
  <2>1. CASE CommitBackup
    BY <2>1 DEF CommitBackup, RecordBackup
  <2>2. CASE FinishBackup
    BY <2>2 DEF FinishBackup, RecordBackup
  <2> QED
    BY <1>21, <2>1, <2>2
<1>22. CASE FinishSave
  BY <1>22 DEF FinishSave, SaveManifest
<1>23. CASE FinishReport
  BY <1>23 DEF FinishReport
<1>24. CASE FinalizeAborted
  BY <1>24 DEF FinalizeAborted, Aborted, RefusedPlane, SaveIgnoringErrors, SaveManifest
<1>25. CASE AbortReport
  BY <1>25 DEF AbortReport
<1>26. CASE Killed
  BY <1>26 DEF Killed
<1>27. CASE EngineInstalls
  BY <1>27 DEF EngineInstalls, otherThanEngine
<1>28. CASE EngineInstallFails
  BY <1>28 DEF EngineInstallFails, otherThanEngine
<1>29. CASE EngineStartsAgent
  BY <1>29 DEF EngineStartsAgent, otherThanEngine
<1>30. CASE EngineExits
  BY <1>30 DEF EngineExits, otherThanEngine
<1>31. CASE EngineCrashes
  BY <1>31 DEF EngineCrashes, otherThanEngine
<1>32. CASE HeirEnds
  BY <1>32 DEF HeirEnds
<1>33. CASE AgentExits
  BY <1>33 DEF AgentExits, otherThanEngine
<1>34. CASE TeeCopies
  BY <1>34 DEF TeeCopies
<1>35. CASE ObserverExits
  BY <1>35 DEF ObserverExits
<1>36. CASE BackupIsHeld
  BY <1>36 DEF BackupIsHeld
<1>37. CASE UNCHANGED vars
  BY <1>37 DEF vars
<1> QED
  BY <1>1, <1>2, <1>3, <1>4, <1>5, <1>6, <1>7, <1>8, <1>9, <1>10, <1>11, <1>12,
     <1>13, <1>14, <1>15, <1>16, <1>17, <1>18, <1>19, <1>20, <1>21, <1>22, <1>23,
     <1>24, <1>25, <1>26, <1>27, <1>28, <1>29, <1>30, <1>31, <1>32, <1>33, <1>34,
     <1>35, <1>36, <1>37 DEF Next, Main, Environment

\* Nothing past the gate forgets what the gate found.
LEMMA GateStep ==
  TypeOK /\ PlanePrepared /\ IInv /\ [Next]_vars => (GateHeld /\ FailClosed)'
<1> SUFFICES ASSUME TypeOK, PlanePrepared, IInv, [Next]_vars
             PROVE  (GateHeld /\ FailClosed)'
  OBVIOUS
<1> USE ConstantsAssumption, SaveAssumption DEF TypeOK, Manifest, PlaneState,
   Statuses, NoExit,
        Running, Halted, recordVars, childVars, logVars, Late, Early, Unclosed,
        Waiting, Settled, PlanePrepared, Closed, Status, IInv,
        LaunchMatchesControl, GateHeld, FailClosed
<1>1. CASE Create
  BY <1>1 DEF Create, SaveManifest, FreshManifest
<1>2. CASE Compose
  BY <1>2 DEF Compose
<1>3. CASE Assess
  BY <1>3 DEF Assess, SaveIgnoringErrors, SaveManifest
<1>4. CASE AssessHangs
  BY <1>4 DEF AssessHangs
<1>5. CASE Gate
  BY <1>5 DEF Gate, GateRefuses, SaveIgnoringErrors, SaveManifest
<1>6. CASE PreparePolicy
  BY <1>6 DEF PreparePolicy, StartOutcomes, WantPolicy, Reclassified,
     EnforceUnmet, SaveIgnoringErrors, SaveManifest
<1>7. CASE LaunchWrap
  BY <1>7 DEF LaunchWrap, UseWrap, WantPolicy
<1>8. CASE LaunchPlain
  BY <1>8 DEF LaunchPlain, UseWrap, WantPolicy
<1>9. CASE LaunchFails
  BY <1>9 DEF LaunchFails
<1>10. CASE StartObservability
  BY <1>10 DEF StartObservability, HoldsObservability
<1>11. CASE WrapReturns
  BY <1>11 DEF WrapReturns
<1>12. CASE SeeIdle
  BY <1>12 DEF SeeIdle
<1>13. CASE IdleReap
  BY <1>13 DEF IdleReap, TerminateWrap, AfterTermination
<1>14. CASE WrapDeadline
  BY <1>14 DEF WrapDeadline, TerminateWrap, AfterTermination
<1>15. CASE PlainReturns
  BY <1>15 DEF PlainReturns
<1>16. CASE PlainDeadline
  BY <1>16 DEF PlainDeadline, AfterTermination
<1>17. CASE PollFails
  BY <1>17 DEF PollFails
<1>18. CASE ConfirmInstall
  BY <1>18 DEF ConfirmInstall, LogShowsError, StopObserver, SaveIgnoringErrors,
     SaveManifest
<1>19. CASE StopEngines
  BY <1>19 DEF StopEngines, StopObserver, HoldsObservability
<1>20. CASE Harvest
  BY <1>20 DEF Harvest
<1>21. CASE CommitBackup \/ FinishBackup
  <2>1. CASE CommitBackup
    BY <2>1 DEF CommitBackup, RecordBackup
  <2>2. CASE FinishBackup
    BY <2>2 DEF FinishBackup, RecordBackup
  <2> QED
    BY <1>21, <2>1, <2>2
<1>22. CASE FinishSave
  BY <1>22 DEF FinishSave, SaveManifest
<1>23. CASE FinishReport
  BY <1>23 DEF FinishReport
<1>24. CASE FinalizeAborted
  BY <1>24 DEF FinalizeAborted, Aborted, RefusedPlane, SaveIgnoringErrors, SaveManifest
<1>25. CASE AbortReport
  BY <1>25 DEF AbortReport
<1>26. CASE Killed
  BY <1>26 DEF Killed
<1>27. CASE EngineInstalls
  BY <1>27 DEF EngineInstalls, otherThanEngine
<1>28. CASE EngineInstallFails
  BY <1>28 DEF EngineInstallFails, otherThanEngine
<1>29. CASE EngineStartsAgent
  BY <1>29 DEF EngineStartsAgent, otherThanEngine
<1>30. CASE EngineExits
  BY <1>30 DEF EngineExits, otherThanEngine
<1>31. CASE EngineCrashes
  BY <1>31 DEF EngineCrashes, otherThanEngine
<1>32. CASE HeirEnds
  BY <1>32 DEF HeirEnds
<1>33. CASE AgentExits
  BY <1>33 DEF AgentExits, otherThanEngine
<1>34. CASE TeeCopies
  BY <1>34 DEF TeeCopies
<1>35. CASE ObserverExits
  BY <1>35 DEF ObserverExits
<1>36. CASE BackupIsHeld
  BY <1>36 DEF BackupIsHeld
<1>37. CASE UNCHANGED vars
  BY <1>37 DEF vars
<1> QED
  BY <1>1, <1>2, <1>3, <1>4, <1>5, <1>6, <1>7, <1>8, <1>9, <1>10, <1>11, <1>12,
     <1>13, <1>14, <1>15, <1>16, <1>17, <1>18, <1>19, <1>20, <1>21, <1>22, <1>23,
     <1>24, <1>25, <1>26, <1>27, <1>28, <1>29, <1>30, <1>31, <1>32, <1>33, <1>34,
     <1>35, <1>36, <1>37 DEF Next, Main, Environment

\* The record stays open until it is closed, and a refusal is written in full.
LEMMA RecordStep ==
  TypeOK /\ PlanePrepared /\ IInv /\ [Next]_vars =>
    (RecordOpen /\ PlanesUntouched /\ RefusalWritten)'
<1> SUFFICES ASSUME TypeOK, PlanePrepared, IInv, [Next]_vars
             PROVE  (RecordOpen /\ PlanesUntouched /\ RefusalWritten)'
  OBVIOUS
<1> USE ConstantsAssumption, SaveAssumption DEF TypeOK, Manifest, PlaneState,
   Statuses, NoExit,
        Running, Halted, recordVars, childVars, logVars, Late, Early, Unclosed,
        Waiting, Settled, PlanePrepared, Closed, Status, IInv,
        LaunchMatchesControl, RecordOpen, PlanesUntouched, RefusalWritten
<1>1. CASE Create
  BY <1>1 DEF Create, SaveManifest, FreshManifest
<1>2. CASE Compose
  BY <1>2 DEF Compose
<1>3. CASE Assess
  BY <1>3 DEF Assess, SaveIgnoringErrors, SaveManifest
<1>4. CASE AssessHangs
  BY <1>4 DEF AssessHangs
<1>5. CASE Gate
  BY <1>5 DEF Gate, GateRefuses, SaveIgnoringErrors, SaveManifest
<1>6. CASE PreparePolicy
  BY <1>6 DEF PreparePolicy, StartOutcomes, WantPolicy, Reclassified,
     EnforceUnmet, SaveIgnoringErrors, SaveManifest
<1>7. CASE LaunchWrap
  BY <1>7 DEF LaunchWrap, UseWrap, WantPolicy
<1>8. CASE LaunchPlain
  BY <1>8 DEF LaunchPlain, UseWrap, WantPolicy
<1>9. CASE LaunchFails
  BY <1>9 DEF LaunchFails
<1>10. CASE StartObservability
  BY <1>10 DEF StartObservability, HoldsObservability
<1>11. CASE WrapReturns
  BY <1>11 DEF WrapReturns
<1>12. CASE SeeIdle
  BY <1>12 DEF SeeIdle
<1>13. CASE IdleReap
  BY <1>13 DEF IdleReap, TerminateWrap, AfterTermination
<1>14. CASE WrapDeadline
  BY <1>14 DEF WrapDeadline, TerminateWrap, AfterTermination
<1>15. CASE PlainReturns
  BY <1>15 DEF PlainReturns
<1>16. CASE PlainDeadline
  BY <1>16 DEF PlainDeadline, AfterTermination
<1>17. CASE PollFails
  BY <1>17 DEF PollFails
<1>18. CASE ConfirmInstall
  BY <1>18 DEF ConfirmInstall, LogShowsError, StopObserver, SaveIgnoringErrors,
     SaveManifest
<1>19. CASE StopEngines
  BY <1>19 DEF StopEngines, StopObserver, HoldsObservability
<1>20. CASE Harvest
  BY <1>20 DEF Harvest
<1>21. CASE CommitBackup \/ FinishBackup
  <2>1. CASE CommitBackup
    BY <2>1 DEF CommitBackup, RecordBackup
  <2>2. CASE FinishBackup
    BY <2>2 DEF FinishBackup, RecordBackup
  <2> QED
    BY <1>21, <2>1, <2>2
<1>22. CASE FinishSave
  BY <1>22 DEF FinishSave, SaveManifest
<1>23. CASE FinishReport
  BY <1>23 DEF FinishReport
<1>24. CASE FinalizeAborted
  BY <1>24 DEF FinalizeAborted, Aborted, RefusedPlane, SaveIgnoringErrors, SaveManifest
<1>25. CASE AbortReport
  BY <1>25 DEF AbortReport
<1>26. CASE Killed
  BY <1>26 DEF Killed
<1>27. CASE EngineInstalls
  BY <1>27 DEF EngineInstalls, otherThanEngine
<1>28. CASE EngineInstallFails
  BY <1>28 DEF EngineInstallFails, otherThanEngine
<1>29. CASE EngineStartsAgent
  BY <1>29 DEF EngineStartsAgent, otherThanEngine
<1>30. CASE EngineExits
  BY <1>30 DEF EngineExits, otherThanEngine
<1>31. CASE EngineCrashes
  BY <1>31 DEF EngineCrashes, otherThanEngine
<1>32. CASE HeirEnds
  BY <1>32 DEF HeirEnds
<1>33. CASE AgentExits
  BY <1>33 DEF AgentExits, otherThanEngine
<1>34. CASE TeeCopies
  BY <1>34 DEF TeeCopies
<1>35. CASE ObserverExits
  BY <1>35 DEF ObserverExits
<1>36. CASE BackupIsHeld
  BY <1>36 DEF BackupIsHeld
<1>37. CASE UNCHANGED vars
  BY <1>37 DEF vars
<1> QED
  BY <1>1, <1>2, <1>3, <1>4, <1>5, <1>6, <1>7, <1>8, <1>9, <1>10, <1>11, <1>12,
     <1>13, <1>14, <1>15, <1>16, <1>17, <1>18, <1>19, <1>20, <1>21, <1>22, <1>23,
     <1>24, <1>25, <1>26, <1>27, <1>28, <1>29, <1>30, <1>31, <1>32, <1>33, <1>34,
     <1>35, <1>36, <1>37 DEF Next, Main, Environment

\* What is reported at the exit is what was saved.
LEMMA SavedStep ==
  TypeOK /\ PlanePrepared /\ IInv /\ [Next]_vars => (Saved /\ ExitMeansRecorded)'
<1> SUFFICES ASSUME TypeOK, PlanePrepared, IInv, [Next]_vars
             PROVE  (Saved /\ ExitMeansRecorded)'
  OBVIOUS
<1> USE ConstantsAssumption, SaveAssumption DEF TypeOK, Manifest, PlaneState,
   Statuses, NoExit,
        Running, Halted, recordVars, childVars, logVars, Late, Early, Unclosed,
        Waiting, Settled, PlanePrepared, Closed, Status, IInv, CodesKnown,
        RecordOpen, Saved, ExitMeansRecorded
<1>1. CASE Create
  BY <1>1 DEF Create, SaveManifest, FreshManifest
<1>2. CASE Compose
  BY <1>2 DEF Compose
<1>3. CASE Assess
  BY <1>3 DEF Assess, SaveIgnoringErrors, SaveManifest
<1>4. CASE AssessHangs
  BY <1>4 DEF AssessHangs
<1>5. CASE Gate
  BY <1>5 DEF Gate, GateRefuses, SaveIgnoringErrors, SaveManifest
<1>6. CASE PreparePolicy
  BY <1>6 DEF PreparePolicy, StartOutcomes, WantPolicy, Reclassified,
     EnforceUnmet, SaveIgnoringErrors, SaveManifest
<1>7. CASE LaunchWrap
  BY <1>7 DEF LaunchWrap, UseWrap, WantPolicy
<1>8. CASE LaunchPlain
  BY <1>8 DEF LaunchPlain, UseWrap, WantPolicy
<1>9. CASE LaunchFails
  BY <1>9 DEF LaunchFails
<1>10. CASE StartObservability
  BY <1>10 DEF StartObservability, HoldsObservability
<1>11. CASE WrapReturns
  BY <1>11 DEF WrapReturns
<1>12. CASE SeeIdle
  BY <1>12 DEF SeeIdle
<1>13. CASE IdleReap
  BY <1>13 DEF IdleReap, TerminateWrap, AfterTermination
<1>14. CASE WrapDeadline
  BY <1>14 DEF WrapDeadline, TerminateWrap, AfterTermination
<1>15. CASE PlainReturns
  BY <1>15 DEF PlainReturns
<1>16. CASE PlainDeadline
  BY <1>16 DEF PlainDeadline, AfterTermination
<1>17. CASE PollFails
  BY <1>17 DEF PollFails
<1>18. CASE ConfirmInstall
  BY <1>18 DEF ConfirmInstall, LogShowsError, StopObserver, SaveIgnoringErrors,
     SaveManifest
<1>19. CASE StopEngines
  BY <1>19 DEF StopEngines, StopObserver, HoldsObservability
<1>20. CASE Harvest
  BY <1>20 DEF Harvest
<1>21. CASE CommitBackup \/ FinishBackup
  <2>1. CASE CommitBackup
    BY <2>1 DEF CommitBackup, RecordBackup
  <2>2. CASE FinishBackup
    BY <2>2 DEF FinishBackup, RecordBackup
  <2> QED
    BY <1>21, <2>1, <2>2
<1>22. CASE FinishSave
  BY <1>22 DEF FinishSave, SaveManifest
<1>23. CASE FinishReport
  <2>1. SaveOutcomes = {"ok"} => report'
    BY <1>23, Zenon DEF FinishReport, ReportOutcomes
  <2> QED
    BY <1>23, <2>1 DEF FinishReport
<1>24. CASE FinalizeAborted
  BY <1>24 DEF FinalizeAborted, Aborted, RefusedPlane, SaveIgnoringErrors, SaveManifest
<1>25. CASE AbortReport
  <2>1. SaveOutcomes = {"ok"} => report'
    BY <1>25, Zenon DEF AbortReport, ReportOutcomes
  <2> QED
    BY <1>25, <2>1 DEF AbortReport
<1>26. CASE Killed
  BY <1>26 DEF Killed
<1>27. CASE EngineInstalls
  BY <1>27 DEF EngineInstalls, otherThanEngine
<1>28. CASE EngineInstallFails
  BY <1>28 DEF EngineInstallFails, otherThanEngine
<1>29. CASE EngineStartsAgent
  BY <1>29 DEF EngineStartsAgent, otherThanEngine
<1>30. CASE EngineExits
  BY <1>30 DEF EngineExits, otherThanEngine
<1>31. CASE EngineCrashes
  BY <1>31 DEF EngineCrashes, otherThanEngine
<1>32. CASE HeirEnds
  BY <1>32 DEF HeirEnds
<1>33. CASE AgentExits
  BY <1>33 DEF AgentExits, otherThanEngine
<1>34. CASE TeeCopies
  BY <1>34 DEF TeeCopies
<1>35. CASE ObserverExits
  BY <1>35 DEF ObserverExits
<1>36. CASE BackupIsHeld
  BY <1>36 DEF BackupIsHeld
<1>37. CASE UNCHANGED vars
  BY <1>37 DEF vars
<1> QED
  BY <1>1, <1>2, <1>3, <1>4, <1>5, <1>6, <1>7, <1>8, <1>9, <1>10, <1>11, <1>12,
     <1>13, <1>14, <1>15, <1>16, <1>17, <1>18, <1>19, <1>20, <1>21, <1>22, <1>23,
     <1>24, <1>25, <1>26, <1>27, <1>28, <1>29, <1>30, <1>31, <1>32, <1>33, <1>34,
     <1>35, <1>36, <1>37 DEF Next, Main, Environment

\* A plain agent's code reaches the record unchanged.
LEMMA PlainCodeStep ==
  TypeOK /\ PlanePrepared /\ IInv /\ [Next]_vars => PlainCode'
<1> SUFFICES ASSUME TypeOK, PlanePrepared, IInv, [Next]_vars
             PROVE  PlainCode'
  OBVIOUS
<1> USE ConstantsAssumption, SaveAssumption DEF TypeOK, Manifest, PlaneState,
   Statuses, NoExit,
        Running, Halted, recordVars, childVars, logVars, Late, Early, Unclosed,
        Waiting, Settled, PlanePrepared, Closed, Status, IInv,
        LaunchMatchesControl, CodesKnown, RecordOpen, Saved, PlainCode
<1>1. CASE Create
  BY <1>1 DEF Create, SaveManifest, FreshManifest
<1>2. CASE Compose
  BY <1>2 DEF Compose
<1>3. CASE Assess
  BY <1>3 DEF Assess, SaveIgnoringErrors, SaveManifest
<1>4. CASE AssessHangs
  BY <1>4 DEF AssessHangs
<1>5. CASE Gate
  BY <1>5 DEF Gate, GateRefuses, SaveIgnoringErrors, SaveManifest
<1>6. CASE PreparePolicy
  BY <1>6 DEF PreparePolicy, StartOutcomes, WantPolicy, Reclassified,
     EnforceUnmet, SaveIgnoringErrors, SaveManifest
<1>7. CASE LaunchWrap
  BY <1>7 DEF LaunchWrap, UseWrap, WantPolicy
<1>8. CASE LaunchPlain
  BY <1>8 DEF LaunchPlain, UseWrap, WantPolicy
<1>9. CASE LaunchFails
  BY <1>9 DEF LaunchFails
<1>10. CASE StartObservability
  BY <1>10 DEF StartObservability, HoldsObservability
<1>11. CASE WrapReturns
  BY <1>11 DEF WrapReturns
<1>12. CASE SeeIdle
  BY <1>12 DEF SeeIdle
<1>13. CASE IdleReap
  BY <1>13 DEF IdleReap, TerminateWrap, AfterTermination
<1>14. CASE WrapDeadline
  BY <1>14 DEF WrapDeadline, TerminateWrap, AfterTermination
<1>15. CASE PlainReturns
  BY <1>15 DEF PlainReturns
<1>16. CASE PlainDeadline
  BY <1>16 DEF PlainDeadline, AfterTermination
<1>17. CASE PollFails
  BY <1>17 DEF PollFails
<1>18. CASE ConfirmInstall
  BY <1>18 DEF ConfirmInstall, LogShowsError, StopObserver, SaveIgnoringErrors,
     SaveManifest
<1>19. CASE StopEngines
  BY <1>19 DEF StopEngines, StopObserver, HoldsObservability
<1>20. CASE Harvest
  BY <1>20 DEF Harvest
<1>21. CASE CommitBackup \/ FinishBackup
  <2>1. CASE CommitBackup
    BY <2>1 DEF CommitBackup, RecordBackup
  <2>2. CASE FinishBackup
    BY <2>2 DEF FinishBackup, RecordBackup
  <2> QED
    BY <1>21, <2>1, <2>2
<1>22. CASE FinishSave
  BY <1>22 DEF FinishSave, SaveManifest
<1>23. CASE FinishReport
  BY <1>23 DEF FinishReport
<1>24. CASE FinalizeAborted
  BY <1>24 DEF FinalizeAborted, Aborted, RefusedPlane, SaveIgnoringErrors, SaveManifest
<1>25. CASE AbortReport
  BY <1>25 DEF AbortReport
<1>26. CASE Killed
  BY <1>26 DEF Killed
<1>27. CASE EngineInstalls
  BY <1>27 DEF EngineInstalls, otherThanEngine
<1>28. CASE EngineInstallFails
  BY <1>28 DEF EngineInstallFails, otherThanEngine
<1>29. CASE EngineStartsAgent
  BY <1>29 DEF EngineStartsAgent, otherThanEngine
<1>30. CASE EngineExits
  BY <1>30 DEF EngineExits, otherThanEngine
<1>31. CASE EngineCrashes
  BY <1>31 DEF EngineCrashes, otherThanEngine
<1>32. CASE HeirEnds
  BY <1>32 DEF HeirEnds
<1>33. CASE AgentExits
  BY <1>33 DEF AgentExits, otherThanEngine
<1>34. CASE TeeCopies
  BY <1>34 DEF TeeCopies
<1>35. CASE ObserverExits
  BY <1>35 DEF ObserverExits
<1>36. CASE BackupIsHeld
  BY <1>36 DEF BackupIsHeld
<1>37. CASE UNCHANGED vars
  BY <1>37 DEF vars
<1> QED
  BY <1>1, <1>2, <1>3, <1>4, <1>5, <1>6, <1>7, <1>8, <1>9, <1>10, <1>11, <1>12,
     <1>13, <1>14, <1>15, <1>16, <1>17, <1>18, <1>19, <1>20, <1>21, <1>22, <1>23,
     <1>24, <1>25, <1>26, <1>27, <1>28, <1>29, <1>30, <1>31, <1>32, <1>33, <1>34,
     <1>35, <1>36, <1>37 DEF Next, Main, Environment

\* Settling a run stops its engines.
LEMMA EnginesStep ==
  TypeOK /\ PlanePrepared /\ IInv /\ [Next]_vars => EnginesStopped'
<1> SUFFICES ASSUME TypeOK, PlanePrepared, IInv, [Next]_vars
             PROVE  EnginesStopped'
  OBVIOUS
<1> USE ConstantsAssumption, SaveAssumption DEF TypeOK, Manifest, PlaneState,
   Statuses, NoExit,
        Running, Halted, recordVars, childVars, logVars, Late, Early, Unclosed,
        Waiting, Settled, PlanePrepared, Closed, Status, IInv,
        LaunchMatchesControl, RecordOpen, EnginesStopped
<1>1. CASE Create
  BY <1>1 DEF Create, SaveManifest, FreshManifest
<1>2. CASE Compose
  BY <1>2 DEF Compose
<1>3. CASE Assess
  BY <1>3 DEF Assess, SaveIgnoringErrors, SaveManifest
<1>4. CASE AssessHangs
  BY <1>4 DEF AssessHangs
<1>5. CASE Gate
  BY <1>5 DEF Gate, GateRefuses, SaveIgnoringErrors, SaveManifest
<1>6. CASE PreparePolicy
  BY <1>6 DEF PreparePolicy, StartOutcomes, WantPolicy, Reclassified,
     EnforceUnmet, SaveIgnoringErrors, SaveManifest
<1>7. CASE LaunchWrap
  BY <1>7 DEF LaunchWrap, UseWrap, WantPolicy
<1>8. CASE LaunchPlain
  BY <1>8 DEF LaunchPlain, UseWrap, WantPolicy
<1>9. CASE LaunchFails
  BY <1>9 DEF LaunchFails
<1>10. CASE StartObservability
  BY <1>10 DEF StartObservability, HoldsObservability
<1>11. CASE WrapReturns
  BY <1>11 DEF WrapReturns
<1>12. CASE SeeIdle
  BY <1>12 DEF SeeIdle
<1>13. CASE IdleReap
  BY <1>13 DEF IdleReap, TerminateWrap, AfterTermination
<1>14. CASE WrapDeadline
  BY <1>14 DEF WrapDeadline, TerminateWrap, AfterTermination
<1>15. CASE PlainReturns
  BY <1>15 DEF PlainReturns
<1>16. CASE PlainDeadline
  BY <1>16 DEF PlainDeadline, AfterTermination
<1>17. CASE PollFails
  BY <1>17 DEF PollFails
<1>18. CASE ConfirmInstall
  BY <1>18 DEF ConfirmInstall, LogShowsError, StopObserver, SaveIgnoringErrors,
     SaveManifest
<1>19. CASE StopEngines
  BY <1>19 DEF StopEngines, StopObserver, HoldsObservability
<1>20. CASE Harvest
  BY <1>20 DEF Harvest
<1>21. CASE CommitBackup \/ FinishBackup
  <2>1. CASE CommitBackup
    BY <2>1 DEF CommitBackup, RecordBackup
  <2>2. CASE FinishBackup
    BY <2>2 DEF FinishBackup, RecordBackup
  <2> QED
    BY <1>21, <2>1, <2>2
<1>22. CASE FinishSave
  BY <1>22 DEF FinishSave, SaveManifest
<1>23. CASE FinishReport
  BY <1>23 DEF FinishReport
<1>24. CASE FinalizeAborted
  BY <1>24 DEF FinalizeAborted, Aborted, RefusedPlane, SaveIgnoringErrors, SaveManifest
<1>25. CASE AbortReport
  BY <1>25 DEF AbortReport
<1>26. CASE Killed
  BY <1>26 DEF Killed
<1>27. CASE EngineInstalls
  BY <1>27 DEF EngineInstalls, otherThanEngine
<1>28. CASE EngineInstallFails
  BY <1>28 DEF EngineInstallFails, otherThanEngine
<1>29. CASE EngineStartsAgent
  BY <1>29 DEF EngineStartsAgent, otherThanEngine
<1>30. CASE EngineExits
  BY <1>30 DEF EngineExits, otherThanEngine
<1>31. CASE EngineCrashes
  BY <1>31 DEF EngineCrashes, otherThanEngine
<1>32. CASE HeirEnds
  BY <1>32 DEF HeirEnds
<1>33. CASE AgentExits
  BY <1>33 DEF AgentExits, otherThanEngine
<1>34. CASE TeeCopies
  BY <1>34 DEF TeeCopies
<1>35. CASE ObserverExits
  BY <1>35 DEF ObserverExits
<1>36. CASE BackupIsHeld
  BY <1>36 DEF BackupIsHeld
<1>37. CASE UNCHANGED vars
  BY <1>37 DEF vars
<1> QED
  BY <1>1, <1>2, <1>3, <1>4, <1>5, <1>6, <1>7, <1>8, <1>9, <1>10, <1>11, <1>12,
     <1>13, <1>14, <1>15, <1>16, <1>17, <1>18, <1>19, <1>20, <1>21, <1>22, <1>23,
     <1>24, <1>25, <1>26, <1>27, <1>28, <1>29, <1>30, <1>31, <1>32, <1>33, <1>34,
     <1>35, <1>36, <1>37 DEF Next, Main, Environment

\* A reported install failure is not lost on its way to the record.
LEMMA FailureStep ==
  TypeOK /\ PlanePrepared /\ IInv /\ [Next]_vars => FailureHeld'
<1> SUFFICES ASSUME TypeOK, PlanePrepared, IInv, [Next]_vars
             PROVE  FailureHeld'
  OBVIOUS
<1> USE ConstantsAssumption, SaveAssumption DEF TypeOK, Manifest, PlaneState,
   Statuses, NoExit,
        Running, Halted, recordVars, childVars, logVars, Late, Early, Unclosed,
        Waiting, Settled, PlanePrepared, Closed, Status, IInv,
        LaunchMatchesControl, RecordOpen, Saved, FailureHeld, ReadShowsFailure
<1>1. CASE Create
  BY <1>1 DEF Create, SaveManifest, FreshManifest
<1>2. CASE Compose
  BY <1>2 DEF Compose
<1>3. CASE Assess
  BY <1>3 DEF Assess, SaveIgnoringErrors, SaveManifest
<1>4. CASE AssessHangs
  BY <1>4 DEF AssessHangs
<1>5. CASE Gate
  BY <1>5 DEF Gate, GateRefuses, SaveIgnoringErrors, SaveManifest
<1>6. CASE PreparePolicy
  BY <1>6 DEF PreparePolicy, StartOutcomes, WantPolicy, Reclassified,
     EnforceUnmet, SaveIgnoringErrors, SaveManifest
<1>7. CASE LaunchWrap
  BY <1>7 DEF LaunchWrap, UseWrap, WantPolicy
<1>8. CASE LaunchPlain
  BY <1>8 DEF LaunchPlain, UseWrap, WantPolicy
<1>9. CASE LaunchFails
  BY <1>9 DEF LaunchFails
<1>10. CASE StartObservability
  BY <1>10 DEF StartObservability, HoldsObservability
<1>11. CASE WrapReturns
  BY <1>11 DEF WrapReturns
<1>12. CASE SeeIdle
  BY <1>12 DEF SeeIdle
<1>13. CASE IdleReap
  BY <1>13 DEF IdleReap, TerminateWrap, AfterTermination
<1>14. CASE WrapDeadline
  BY <1>14 DEF WrapDeadline, TerminateWrap, AfterTermination
<1>15. CASE PlainReturns
  BY <1>15 DEF PlainReturns
<1>16. CASE PlainDeadline
  BY <1>16 DEF PlainDeadline, AfterTermination
<1>17. CASE PollFails
  BY <1>17 DEF PollFails
<1>18. CASE ConfirmInstall
  BY <1>18 DEF ConfirmInstall, LogShowsError, StopObserver, SaveIgnoringErrors,
     SaveManifest
<1>19. CASE StopEngines
  BY <1>19 DEF StopEngines, StopObserver, HoldsObservability
<1>20. CASE Harvest
  BY <1>20 DEF Harvest
<1>21. CASE CommitBackup \/ FinishBackup
  <2>1. CASE CommitBackup
    BY <2>1 DEF CommitBackup, RecordBackup
  <2>2. CASE FinishBackup
    BY <2>2 DEF FinishBackup, RecordBackup
  <2> QED
    BY <1>21, <2>1, <2>2
<1>22. CASE FinishSave
  BY <1>22 DEF FinishSave, SaveManifest
<1>23. CASE FinishReport
  BY <1>23 DEF FinishReport
<1>24. CASE FinalizeAborted
  BY <1>24 DEF FinalizeAborted, Aborted, RefusedPlane, SaveIgnoringErrors, SaveManifest
<1>25. CASE AbortReport
  BY <1>25 DEF AbortReport
<1>26. CASE Killed
  BY <1>26 DEF Killed
<1>27. CASE EngineInstalls
  BY <1>27 DEF EngineInstalls, otherThanEngine
<1>28. CASE EngineInstallFails
  BY <1>28 DEF EngineInstallFails, otherThanEngine
<1>29. CASE EngineStartsAgent
  BY <1>29 DEF EngineStartsAgent, otherThanEngine
<1>30. CASE EngineExits
  BY <1>30 DEF EngineExits, otherThanEngine
<1>31. CASE EngineCrashes
  BY <1>31 DEF EngineCrashes, otherThanEngine
<1>32. CASE HeirEnds
  BY <1>32 DEF HeirEnds
<1>33. CASE AgentExits
  BY <1>33 DEF AgentExits, otherThanEngine
<1>34. CASE TeeCopies
  BY <1>34 DEF TeeCopies
<1>35. CASE ObserverExits
  BY <1>35 DEF ObserverExits
<1>36. CASE BackupIsHeld
  BY <1>36 DEF BackupIsHeld
<1>37. CASE UNCHANGED vars
  BY <1>37 DEF vars
<1> QED
  BY <1>1, <1>2, <1>3, <1>4, <1>5, <1>6, <1>7, <1>8, <1>9, <1>10, <1>11, <1>12,
     <1>13, <1>14, <1>15, <1>16, <1>17, <1>18, <1>19, <1>20, <1>21, <1>22, <1>23,
     <1>24, <1>25, <1>26, <1>27, <1>28, <1>29, <1>30, <1>31, <1>32, <1>33, <1>34,
     <1>35, <1>36, <1>37 DEF Next, Main, Environment

\* All of it, at every step.
LEMMA InvStep == TypeOK /\ PlanePrepared /\ IInv /\ [Next]_vars => IInv'
BY LaunchStep, GateStep, RecordStep, SavedStep, PlainCodeStep, EnginesStep, FailureStep
   DEF IInv

\* So it holds in every state of every run.
LEMMA Invariant == Spec => [](TypeOK /\ PlanePrepared /\ IInv)
<1>1. Init => TypeOK /\ PlanePrepared /\ IInv
  BY InitTyped, InitInv
<1>2. TypeOK /\ PlanePrepared /\ IInv /\ [Next]_vars
        => TypeOK' /\ PlanePrepared' /\ IInv'
  BY TypeStep, InvStep
<1> QED
  BY <1>1, <1>2, PTL DEF Spec

----------------------------------------------------------------------------
(* Safety. *)

\* However the host, the engine and the disk behave, no engine is started for a
\* policy it would install in part, and enforce never runs the agent without one.
THEOREM FailClosedAlways == Spec => []FailClosed
<1>1. IInv => FailClosed
  BY DEF IInv
<1> QED
  BY <1>1, Invariant, PTL

\* Whatever refuses a run before its launch - the gate, a missing engine, a policy
\* that does not compose, a spawn that fails - its closed record says so in full.
THEOREM RefusalAudited == Spec => []RefusalIsAudited
<1>1. IInv => RefusalIsAudited
  BY DEF IInv, RefusalWritten, RefusalIsAudited, Closed, Status
<1> QED
  BY <1>1, Invariant, PTL

\* An exit status other than 1 is never returned over an unsaved record.
THEOREM ExitRecorded == Spec => []ExitMeansRecorded
<1>1. IInv => ExitMeansRecorded
  BY DEF IInv
<1> QED
  BY <1>1, Invariant, PTL

\* The exit code of an agent with no engine around it survives to the record.
THEOREM PlainExitKept == Spec => []PlainExitFaithful
<1>1. IInv => PlainExitFaithful
  BY DEF IInv, PlainCode, PlainExitFaithful, Closed, Status
<1> QED
  BY <1>1, Invariant, PTL

\* Whatever fails, in whichever way the engine, the agent and the copying thread go
\* on: a failure that the log showed when it was read is on record, and an enforced
\* run is never closed as one that succeeded.
THEOREM LoudFailureRecorded == Spec => []LoudFailureDemoted
<1>1. IInv => LoudFailureDemoted
  BY DEF IInv, FailureHeld, ReadShowsFailure, LoudFailureDemoted, Closed, Status
<1> QED
  BY <1>1, Invariant, PTL

\* When waiting does not fail, a run that returns leaves no engine unattended.
THEOREM EnginesNotLeft == Spec => [](~PollMayFail => NoEngineLeftBehind)
<1>1. IInv => (~PollMayFail => NoEngineLeftBehind)
  BY DEF IInv, EnginesStopped, NoEngineLeftBehind, Settled, LaunchMatchesControl
<1> QED
  BY <1>1, Invariant, PTL

----------------------------------------------------------------------------
(* The record on disk, from the launch to the end. *)

\* Once a reader finds the record closed, neither the file nor what is in it changes
\* again, whatever fails after it, and nothing is launched.
ClosedIsFinal == [][Closed => UNCHANGED <<file, disk, launched>>]_vars

\* The agent is launched once, on a record that exists and is open; where every write
\* succeeds it says which rules were not installed and as what the plane starts.
LaunchIsOnRecord ==
  [][launched' # launched =>
       /\ launched = "no" /\ file # "absent" /\ ~Closed
       /\ SaveOutcomes = {"ok"} =>
            Status = "open" /\ disk.gap = hostGap /\ disk.policy = policy]_vars

\* Where every write succeeds, all that is decided before the launch is on disk.
AuditedFirst ==
  SaveOutcomes = {"ok"} =>
    /\ pc \in {"compose", "assess", "gate", "prepare", "launch"} =>
         file = "whole" /\ disk = mem
    /\ pc = "launch" => mem.policy = policy

\* What is not the main thread touches none of this.
LEMMA EnvironmentStep ==
  Environment \/ UNCHANGED vars =>
    /\ UNCHANGED <<hostGap, policy, recordVars, launched>>
    /\ pc' \in {pc, "dead"}
<1> SUFFICES ASSUME Environment \/ UNCHANGED vars
             PROVE  /\ UNCHANGED <<hostGap, policy, recordVars, launched>>
                    /\ pc' \in {pc, "dead"}
  OBVIOUS
<1> USE DEF childVars, otherThanEngine
<1>1. CASE Killed
  BY <1>1 DEF Killed
<1>2. CASE EngineInstalls \/ EngineInstallFails \/ EngineExits \/ EngineCrashes
  BY <1>2 DEF EngineInstalls, EngineInstallFails, EngineExits, EngineCrashes
<1>3. CASE EngineStartsAgent \/ AgentExits \/ HeirEnds
  BY <1>3 DEF EngineStartsAgent, AgentExits, HeirEnds
<1>4. CASE TeeCopies \/ ObserverExits
  BY <1>4 DEF TeeCopies, ObserverExits
<1>5. CASE UNCHANGED vars
  BY <1>5 DEF vars
<1> QED
  BY <1>1, <1>2, <1>3, <1>4, <1>5 DEF Environment

\* The control points at which the main thread writes the file or launches are all
\* ones at which the record is open.
LEMMA MainStep ==
  Main => \/ UNCHANGED <<file, disk, launched>>
          \/ pc \in Unclosed
<1> SUFFICES ASSUME Main, pc \notin Unclosed
             PROVE  UNCHANGED <<file, disk, launched>>
  OBVIOUS
<1> USE DEF Unclosed, Running
<1>1. CASE FinishReport
  BY <1>1 DEF FinishReport, childVars
<1>2. CASE AbortReport
  BY <1>2 DEF AbortReport, childVars
<1>3. ~(Create \/ Compose \/ Assess \/ AssessHangs \/ Gate \/ PreparePolicy)
  BY DEF Create, Compose, Assess, AssessHangs, Gate, PreparePolicy
<1>4. ~(LaunchWrap \/ LaunchPlain \/ LaunchFails \/ StartObservability)
  BY DEF LaunchWrap, LaunchPlain, LaunchFails, StartObservability
<1>5. ~(WrapReturns \/ SeeIdle \/ IdleReap \/ WrapDeadline \/ PlainReturns
          \/ PlainDeadline \/ PollFails)
  BY DEF WrapReturns, SeeIdle, IdleReap, WrapDeadline, PlainReturns, PlainDeadline,
         PollFails
<1>6. ~(ConfirmInstall \/ StopEngines \/ Harvest \/ CommitBackup \/ BackupIsHeld
          \/ FinishBackup \/ FinishSave \/ FinalizeAborted)
  BY DEF ConfirmInstall, StopEngines, Harvest, CommitBackup, BackupIsHeld, FinishBackup,
         FinishSave, FinalizeAborted
<1> QED
  BY <1>1, <1>2, <1>3, <1>4, <1>5, <1>6 DEF Main

\* A closed record is the last word: no report that fails, no signal and no later error
\* of the run rewrites it (run.rs, finish and finalize_aborted).
THEOREM ClosedForGood == Spec => ClosedIsFinal
<1>1. IInv /\ [Next]_vars => [Closed => UNCHANGED <<file, disk, launched>>]_vars
  <2> SUFFICES ASSUME IInv, [Next]_vars, Closed
               PROVE  UNCHANGED <<file, disk, launched>>
    OBVIOUS
  <2>1. pc \notin Unclosed
    BY DEF IInv, RecordOpen, Closed, Status
  <2> QED
    BY <2>1, EnvironmentStep, MainStep DEF Next, recordVars
<1> QED
  BY <1>1, Invariant, PTL DEF Spec, ClosedIsFinal

\* Until the launch, memory and file go together.
LEMMA AuditStep == TypeOK /\ IInv /\ AuditedFirst /\ [Next]_vars => AuditedFirst'
<1> SUFFICES ASSUME TypeOK, IInv, AuditedFirst, [Next]_vars, SaveOutcomes = {"ok"}
             PROVE  /\ pc' \in {"compose", "assess", "gate", "prepare", "launch"} =>
                         file' = "whole" /\ disk' = mem'
                    /\ pc' = "launch" => mem'.policy = policy'
  BY DEF AuditedFirst
<1> USE DEF AuditedFirst, recordVars
<1>1. CASE Environment \/ UNCHANGED vars
  BY <1>1, EnvironmentStep
<1>2. CASE Create
  BY <1>2 DEF Create, SaveManifest
<1>3. CASE Compose \/ AssessHangs
  BY <1>3 DEF Compose, AssessHangs
<1>4. CASE Assess
  BY <1>4 DEF Assess, SaveIgnoringErrors, SaveManifest
<1>5. CASE Gate
  BY <1>5 DEF Gate
<1>6. CASE PreparePolicy
  BY <1>6 DEF PreparePolicy, SaveIgnoringErrors, SaveManifest, TypeOK, Manifest
<1>7. CASE LaunchWrap \/ LaunchPlain \/ LaunchFails \/ StartObservability
  BY <1>7 DEF LaunchWrap, LaunchPlain, LaunchFails, StartObservability
<1>8. CASE WrapReturns \/ SeeIdle \/ IdleReap \/ WrapDeadline
  BY <1>8 DEF WrapReturns, SeeIdle, IdleReap, WrapDeadline, AfterTermination
<1>9. CASE PlainReturns \/ PlainDeadline \/ PollFails
  BY <1>9 DEF PlainReturns, PlainDeadline, PollFails, AfterTermination
<1>10. CASE \/ ConfirmInstall \/ StopEngines \/ Harvest
         \/ CommitBackup \/ BackupIsHeld \/ FinishBackup
  BY <1>10 DEF ConfirmInstall, StopEngines, Harvest, CommitBackup, BackupIsHeld,
     FinishBackup, RecordBackup
<1>11. CASE FinishSave \/ FinishReport \/ FinalizeAborted \/ AbortReport
  BY <1>11 DEF FinishSave, FinishReport, FinalizeAborted, AbortReport
<1> QED
  BY <1>1, <1>2, <1>3, <1>4, <1>5, <1>6, <1>7, <1>8, <1>9, <1>10, <1>11 DEF Next, Main

\* Only the two launches launch.
LEMMA LaunchingStep == launched' # launched /\ [Next]_vars => LaunchWrap \/ LaunchPlain
<1> SUFFICES ASSUME [Next]_vars, ~LaunchWrap, ~LaunchPlain
             PROVE  UNCHANGED launched
  OBVIOUS
<1> USE DEF childVars
<1>1. CASE Environment \/ UNCHANGED vars
  BY <1>1, EnvironmentStep
<1>2. CASE Create \/ Compose \/ Assess \/ AssessHangs \/ Gate \/ PreparePolicy
  BY <1>2 DEF Create, Compose, Assess, AssessHangs, Gate, PreparePolicy
<1>3. CASE LaunchFails \/ StartObservability \/ WrapReturns \/ SeeIdle
  BY <1>3 DEF LaunchFails, StartObservability, WrapReturns, SeeIdle
<1>4. CASE IdleReap \/ WrapDeadline \/ PlainReturns \/ PlainDeadline \/ PollFails
  BY <1>4 DEF IdleReap, WrapDeadline, TerminateWrap, AfterTermination, PlainReturns,
     PlainDeadline, PollFails
<1>5. CASE \/ ConfirmInstall \/ StopEngines \/ Harvest
         \/ CommitBackup \/ BackupIsHeld \/ FinishBackup
  BY <1>5 DEF ConfirmInstall, StopEngines, Harvest, CommitBackup, BackupIsHeld,
     FinishBackup, RecordBackup
<1>6. CASE FinishSave \/ FinishReport \/ FinalizeAborted \/ AbortReport
  BY <1>6 DEF FinishSave, FinishReport, FinalizeAborted, AbortReport
<1> QED
  BY <1>1, <1>2, <1>3, <1>4, <1>5, <1>6 DEF Next, Main

\* The agent never runs before its record: what the policy plane makes of the run is
\* saved before the spawn (run.rs, orchestrate_run), so that a kill at any later point
\* leaves a record of it.
THEOREM LaunchRecorded == Spec => LaunchIsOnRecord
<1>1. Init => AuditedFirst
  BY DEF Init, AuditedFirst
<1>2. IInv /\ AuditedFirst /\ [Next]_vars =>
        [launched' # launched =>
           /\ launched = "no" /\ file # "absent" /\ ~Closed
           /\ SaveOutcomes = {"ok"} =>
                Status = "open" /\ disk.gap = hostGap /\ disk.policy = policy]_vars
  <2> SUFFICES ASSUME IInv, AuditedFirst, [Next]_vars, launched' # launched
               PROVE  /\ launched = "no" /\ file # "absent" /\ ~Closed
                      /\ SaveOutcomes = {"ok"} =>
                           Status = "open" /\ disk.gap = hostGap /\ disk.policy = policy
    OBVIOUS
  <2>1. pc = "launch"
    BY LaunchingStep DEF LaunchWrap, LaunchPlain
  <2>2. launched = "no" /\ mem.gap = hostGap
    BY <2>1 DEF IInv, LaunchMatchesControl, Early, GateHeld
  <2>3. file # "absent" /\ ~disk.ended
    BY <2>1 DEF IInv, RecordOpen, Unclosed, Running
  <2>4. ~Closed
    BY <2>3 DEF Closed, Status
  <2>5. SaveOutcomes = {"ok"} =>
          file = "whole" /\ disk.gap = hostGap /\ disk.policy = policy
    BY <2>1, <2>2 DEF AuditedFirst
  <2> QED
    BY <2>2, <2>3, <2>4, <2>5 DEF Status
<1> QED
  BY <1>1, <1>2, AuditStep, Invariant, PTL DEF Spec, LaunchIsOnRecord

----------------------------------------------------------------------------
(* Refinement. *)

\* A run that has not begun has no record.
LEMMA InitRecord == Init => Record!Init
BY ConstantsAssumption, SaveAssumption DEF Init, Record!Init, Record!NoExit, Status,
   NoExit

\* Every step of a run is a step of its record, or leaves the record alone.
LEMMA RefinementStep ==
  TypeOK /\ PlanePrepared /\ IInv /\ [Next]_vars => [Record!Next]_(Record!vars)
<1> SUFFICES ASSUME TypeOK, PlanePrepared, IInv, [Next]_vars
             PROVE  [Record!Next]_(Record!vars)
  OBVIOUS
<1> USE ConstantsAssumption, SaveAssumption DEF TypeOK, Manifest, PlaneState,
   Statuses, NoExit,
        Running, Halted, recordVars, childVars, logVars, Late, Early, Unclosed,
        Waiting, Settled, PlanePrepared, Closed, Status, IInv,
        LaunchMatchesControl, CodesKnown, GateHeld, RecordOpen, PlanesUntouched,
        Saved, Record!Next, Record!Write, Record!LaunchWrapped,
        Record!LaunchPlain, Record!Close, Record!vars, Record!NoExit
<1>1. CASE Create
  BY <1>1 DEF Create, SaveManifest, FreshManifest
<1>2. CASE Compose
  BY <1>2 DEF Compose
<1>3. CASE Assess
  BY <1>3 DEF Assess, SaveIgnoringErrors, SaveManifest
<1>4. CASE AssessHangs
  BY <1>4 DEF AssessHangs
<1>5. CASE Gate
  BY <1>5 DEF Gate, GateRefuses, SaveIgnoringErrors, SaveManifest
<1>6. CASE PreparePolicy
  BY <1>6 DEF PreparePolicy, StartOutcomes, WantPolicy, Reclassified,
     EnforceUnmet, SaveIgnoringErrors, SaveManifest
<1>7. CASE LaunchWrap
  BY <1>7 DEF LaunchWrap, UseWrap, WantPolicy
<1>8. CASE LaunchPlain
  BY <1>8 DEF LaunchPlain, UseWrap, WantPolicy
<1>9. CASE LaunchFails
  BY <1>9 DEF LaunchFails
<1>10. CASE StartObservability
  BY <1>10 DEF StartObservability, HoldsObservability
<1>11. CASE WrapReturns
  BY <1>11 DEF WrapReturns
<1>12. CASE SeeIdle
  BY <1>12 DEF SeeIdle
<1>13. CASE IdleReap
  BY <1>13 DEF IdleReap, TerminateWrap, AfterTermination
<1>14. CASE WrapDeadline
  BY <1>14 DEF WrapDeadline, TerminateWrap, AfterTermination
<1>15. CASE PlainReturns
  BY <1>15 DEF PlainReturns
<1>16. CASE PlainDeadline
  BY <1>16 DEF PlainDeadline, AfterTermination
<1>17. CASE PollFails
  BY <1>17 DEF PollFails
<1>18. CASE ConfirmInstall
  BY <1>18 DEF ConfirmInstall, LogShowsError, StopObserver, SaveIgnoringErrors,
     SaveManifest
<1>19. CASE StopEngines
  BY <1>19 DEF StopEngines, StopObserver, HoldsObservability
<1>20. CASE Harvest
  BY <1>20 DEF Harvest
<1>21. CASE CommitBackup \/ FinishBackup
  <2>1. CASE CommitBackup
    BY <2>1 DEF CommitBackup, RecordBackup
  <2>2. CASE FinishBackup
    BY <2>2 DEF FinishBackup, RecordBackup
  <2> QED
    BY <1>21, <2>1, <2>2
<1>22. CASE FinishSave
  BY <1>22 DEF FinishSave, SaveManifest
<1>23. CASE FinishReport
  BY <1>23 DEF FinishReport
<1>24. CASE FinalizeAborted
  BY <1>24 DEF FinalizeAborted, Aborted, RefusedPlane, SaveIgnoringErrors, SaveManifest
<1>25. CASE AbortReport
  BY <1>25 DEF AbortReport
<1>26. CASE Killed
  BY <1>26 DEF Killed
<1>27. CASE EngineInstalls
  BY <1>27 DEF EngineInstalls, otherThanEngine
<1>28. CASE EngineInstallFails
  BY <1>28 DEF EngineInstallFails, otherThanEngine
<1>29. CASE EngineStartsAgent
  BY <1>29 DEF EngineStartsAgent, otherThanEngine
<1>30. CASE EngineExits
  BY <1>30 DEF EngineExits, otherThanEngine
<1>31. CASE EngineCrashes
  BY <1>31 DEF EngineCrashes, otherThanEngine
<1>32. CASE HeirEnds
  BY <1>32 DEF HeirEnds
<1>33. CASE AgentExits
  BY <1>33 DEF AgentExits, otherThanEngine
<1>34. CASE TeeCopies
  BY <1>34 DEF TeeCopies
<1>35. CASE ObserverExits
  BY <1>35 DEF ObserverExits
<1>36. CASE BackupIsHeld
  BY <1>36 DEF BackupIsHeld
<1>37. CASE UNCHANGED vars
  BY <1>37 DEF vars
<1> QED
  BY <1>1, <1>2, <1>3, <1>4, <1>5, <1>6, <1>7, <1>8, <1>9, <1>10, <1>11, <1>12,
     <1>13, <1>14, <1>15, <1>16, <1>17, <1>18, <1>19, <1>20, <1>21, <1>22, <1>23,
     <1>24, <1>25, <1>26, <1>27, <1>28, <1>29, <1>30, <1>31, <1>32, <1>33, <1>34,
     <1>35, <1>36, <1>37 DEF Next, Main, Environment

\* A run, torn writes, refused saves, kills and all, is an implementation of the
\* record that RunRecord describes: closed once, launched as the mode permits.
THEOREM RunImplementsRecord == Spec => RecordRefinement
<1>1. Init => Record!Init
  BY InitRecord
<1>2. TypeOK /\ PlanePrepared /\ IInv /\ [Next]_vars => [Record!Next]_(Record!vars)
  BY RefinementStep
<1> QED
  BY <1>1, <1>2, Invariant, PTL DEF Spec, RecordRefinement, Record!Spec
=============================================================================
