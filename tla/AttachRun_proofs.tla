-------------------------- MODULE AttachRun_proofs --------------------------
(***************************************************************************)
(* Theorems about AttachRun, for every set of rules, every choice of modes *)
(* and engine failures, and every way a save may fail.                     *)
(*                                                                         *)
(* The inductive invariant says how far the record has come at each        *)
(* control point (RecordOpen, PlanesExplained, RefusalWritten), who        *)
(* follows the target there (JoinedMatchesControl, GateHeld) and which     *)
(* engines may be alive (EnginesStopped).                                  *)
(***************************************************************************)
EXTENDS AttachRun, TLAPS

\* Control points before the target is followed, those from then on, and those at
\* which both engines have been stopped or were never started.
Before    == {"create", "compose", "assess", "hung", "gate", "start", "settle", "judge"}
Following == {"observe", "follow", "stop", "finish", "report"}
Settled   == {"finish", "report", "abort", "abortReport", "done"}

\* Control points at which the record is open.
Unclosed == Attaching \ {"report", "abortReport"}

----------------------------------------------------------------------------
(* The inductive invariant. *)

\* Once the engine has been judged there is a plane to record.
PolicyKnown == pc \in {"judge"} \cup Following => policy # "none"

\* The target is followed from the verdict on the engine; an attach that fails at its
\* closing save comes to the abort with a record that is closed in memory.
JoinedMatchesControl ==
  /\ pc \in Before => joined = "no"
  /\ pc \in Following => joined # "no"
  /\ pc = "abort" => (joined # "no" <=> mem.ended)
  /\ mem.ended => mem.exit # NoExit

\* In enforce mode no engine is started for rules it cannot install.
GateHeld ==
  /\ pc = "gate" => mem.gap = hostGap
  /\ pc \in {"start", "settle", "judge"} /\ mode = "enforce" => hostGap = {}

\* The file exists from the first save on, and no save closes the record early.
RecordOpen ==
  /\ pc = "create" => file = "absent"
  /\ pc \in Attaching \ {"create"} => file # "absent"
  /\ pc \in Unclosed => ~disk.ended
  /\ pc \in Unclosed \ {"abort"} => ~mem.ended

\* Of an attach that follows its target, no plane is left without a state; the note of
\* a refusal is written as the record is closed, and not in its record.
PlanesExplained ==
  /\ joined # "no" => mem.policy # "NotStarted"
  /\ joined # "no" \/ ~mem.ended => ~mem.refusedNote
  /\ pc \in Following \ {"observe"} =>
       "NotStarted" \notin {mem.observability, mem.backup}

\* RefusedMeansNotJoined, of the last manifest written rather than of the file.
RefusalWritten ==
  disk.ended =>
    /\ disk.refusedNote <=> joined = "no"
    /\ disk.refusedNote => disk.exit = 1
    /\ "NotStarted" \notin {disk.policy, disk.observability, disk.backup}

\* An engine is alive only from its start to the stop; a plane that is not active has
\* none.
EnginesStopped ==
  /\ pc \in Before \ {"settle", "judge"} => engine = "none"
  /\ pc \in Before \cup {"observe"} => observer = "none"
  /\ pc = "judge" /\ policy # "Active" => engine \notin {"setup", "up"}
  /\ pc \in Settled => engine \notin {"setup", "up"} /\ observer # "running"

\* PolicyKnown stands beside TypeOK, which is not inductive without it.
IInv ==
  /\ JoinedMatchesControl
  /\ GateHeld
  /\ RecordOpen
  /\ PlanesExplained
  /\ RefusalWritten
  /\ EnginesStopped

----------------------------------------------------------------------------
(* Types. *)

FileState == {"absent", "whole", "torn"}

\* The initial states are typed.
LEMMA InitTyped == Init => TypeOK /\ PolicyKnown
<1> SUFFICES ASSUME Init PROVE TypeOK /\ PolicyKnown
  OBVIOUS
<1>1. FreshManifest \in Manifest
  BY DEF FreshManifest, Manifest, PlaneState, NoExit
<1> QED
  BY <1>1 DEF Init, TypeOK, PolicyKnown, Following, Attaching, NoExit

\* Saving a manifest, whatever becomes of the write, leaves a manifest behind.
LEMMA SaveTyped ==
  ASSUME TypeOK, NEW m \in Manifest, SaveIgnoringErrors(m)
  PROVE  mem' \in Manifest /\ disk' \in Manifest /\ file' \in FileState
BY DEF TypeOK, SaveIgnoringErrors, SaveManifest, FileState

\* What finalize_aborted makes of a record is a record.
LEMMA AbortedTyped == ASSUME mem \in Manifest PROVE Aborted(mem) \in Manifest
<1>1. \A state \in PlaneState : RefusedPlane(state) \in PlaneState
  BY DEF PlaneState, RefusedPlane
<1>2. /\ RefusedPlane(mem.policy) \in PlaneState
      /\ RefusedPlane(mem.observability) \in PlaneState
      /\ RefusedPlane(mem.backup) \in PlaneState
  BY <1>1 DEF Manifest
<1>3. 1 \in Statuses \cup {NoExit}
  BY DEF Statuses
<1> QED
  BY <1>2, <1>3 DEF Manifest, Aborted

\* No step takes a variable out of its type.
LEMMA TypeStep == TypeOK /\ PolicyKnown /\ [Next]_vars => TypeOK' /\ PolicyKnown'
<1> SUFFICES ASSUME TypeOK, PolicyKnown, [Next]_vars PROVE TypeOK' /\ PolicyKnown'
  OBVIOUS
<1> USE ConstantsAssumption, SaveAssumption DEF TypeOK, PolicyKnown, Following,
   NoExit, Attaching, FileState,
        recordVars, planeVars, engineVars
<1>1. CASE Create
  <2>1. FreshManifest \in Manifest
    BY DEF FreshManifest, Manifest, PlaneState
  <2> QED
    BY <1>1, <2>1 DEF Create, SaveManifest, Statuses
<1>2. CASE Compose
  BY <1>2 DEF Compose
<1>3. CASE Assess
  <2>1. [mem EXCEPT !.gap = hostGap] \in Manifest
    BY DEF Manifest
  <2>2. mem' \in Manifest /\ disk' \in Manifest /\ file' \in FileState
    BY <1>3, <2>1, SaveTyped DEF Assess
  <2> QED
    BY <1>3, <2>2 DEF Assess
<1>4. CASE AssessHangs
  BY <1>4 DEF AssessHangs
<1>5. CASE Gate
  <2>1. [mem EXCEPT !.policy = "Disabled"] \in Manifest
    BY DEF Manifest, PlaneState
  <2>2. mem' \in Manifest /\ disk' \in Manifest /\ file' \in FileState
    BY <1>5, <2>1, SaveTyped DEF Gate
  <2> QED
    BY <1>5, <2>2 DEF Gate
<1>6. CASE StartDisabled
  BY <1>6 DEF StartDisabled
<1>7. CASE StartEngine
  BY <1>7 DEF StartEngine
<1>8. CASE SettleExited
  BY <1>8 DEF SettleExited
<1>9. CASE SettleAlive
  <2>1. engine' \in {"none", "setup", "up", "exited", "stuck"}
    BY <1>9 DEF SettleAlive, StopEngine
  <2> QED
    BY <1>9, <2>1 DEF SettleAlive
<1>10. CASE Judge
  <2>1. /\ [mem EXCEPT !.policy = "Disabled"] \in Manifest
        /\ [mem EXCEPT !.policy = policy] \in Manifest
    BY <1>10 DEF Judge, Manifest, PlaneState
  <2> QED
    BY <1>10, <2>1 DEF Judge
<1>11. CASE StartObservability
  <2>1. PICK outcome \in {"Active", "Disabled"} :
          /\ SaveIgnoringErrors([mem EXCEPT !.observability = outcome,
                                            !.backup = "Disabled"])
          /\ observer' = IF outcome = "Active" THEN "running" ELSE "none"
    BY <1>11 DEF StartObservability
  <2>2. [mem EXCEPT !.observability = outcome, !.backup = "Disabled"] \in Manifest
    BY DEF Manifest, PlaneState
  <2>3. mem' \in Manifest /\ disk' \in Manifest /\ file' \in FileState
    BY <2>1, <2>2, SaveTyped
  <2> QED
    BY <1>11, <2>1, <2>3 DEF StartObservability
<1>12. CASE TargetEnds
  BY <1>12 DEF TargetEnds
<1>13. CASE StopEngines
  BY <1>13 DEF StopEngines, StopEngine
<1>14. CASE FinishSave
  <2>1. PICK plane \in ObservabilityAfterCollect, outcome \in SaveOutcomes :
          /\ mem' = [mem EXCEPT !.exit = 0, !.ended = TRUE, !.observability = plane]
          /\ SaveManifest(outcome, mem')
    BY <1>14 DEF FinishSave
  <2>2. plane \in PlaneState
    BY DEF ObservabilityAfterCollect, PlaneState, Manifest
  <2>3. mem' \in Manifest
    <3>1. 0 \in Statuses
      BY DEF Statuses
    <3> QED
      BY <2>1, <2>2, <3>1 DEF Manifest
  <2>4. disk' \in Manifest /\ file' \in FileState
    BY <2>1, <2>3 DEF SaveManifest
  <2> QED
    BY <1>14, <2>3, <2>4 DEF FinishSave
<1>15. CASE FinishReport
  <2>1. report' \in BOOLEAN
    BY <1>15, Zenon DEF FinishReport, ReportOutcomes
  <2> QED
    BY <1>15, <2>1 DEF FinishReport, Statuses
<1>16. CASE FinalizeAborted
  <2>1. CASE mem.exit # NoExit /\ mem.ended
    BY <1>16, <2>1 DEF FinalizeAborted, Statuses
  <2>2. CASE ~(mem.exit # NoExit /\ mem.ended)
    <3>1. SaveIgnoringErrors(Aborted(mem))
      BY <1>16, <2>2 DEF FinalizeAborted
    <3>2. mem' \in Manifest /\ disk' \in Manifest /\ file' \in FileState
      BY <3>1, AbortedTyped, SaveTyped
    <3> QED
      BY <1>16, <2>2, <3>2 DEF FinalizeAborted
  <2> QED
    BY <2>1, <2>2
<1>17. CASE AbortReport
  <2>1. report' \in BOOLEAN
    BY <1>17, Zenon DEF AbortReport, ReportOutcomes
  <2> QED
    BY <1>17, <2>1 DEF AbortReport, Statuses
<1>18. CASE Killed
  BY <1>18 DEF Killed
<1>19. CASE Detach
  BY <1>19 DEF Detach
<1>20. CASE EngineInstalls
  BY <1>20 DEF EngineInstalls, otherThanEngine
<1>21. CASE EngineInstallFails
  BY <1>21 DEF EngineInstallFails, otherThanEngine
<1>22. CASE EngineExits
  BY <1>22 DEF EngineExits, otherThanEngine
<1>23. CASE TargetExits
  BY <1>23 DEF TargetExits
<1>24. CASE ObserverExits
  BY <1>24 DEF ObserverExits
<1>25. CASE UNCHANGED vars
  BY <1>25 DEF vars
<1> QED
  BY <1>1, <1>2, <1>3, <1>4, <1>5, <1>6, <1>7, <1>8, <1>9, <1>10, <1>11, <1>12,
     <1>13, <1>14, <1>15, <1>16, <1>17, <1>18, <1>19, <1>20, <1>21, <1>22, <1>23,
     <1>24, <1>25 DEF Next, Main, Environment

\* Every variable of an attach always holds a value of its type, whatever fails.
THEOREM TypeCorrect == Spec => []TypeOK
<1>1. Init => TypeOK /\ PolicyKnown
  BY InitTyped
<1>2. TypeOK /\ PolicyKnown /\ [Next]_vars => TypeOK' /\ PolicyKnown'
  BY TypeStep
<1> QED
  BY <1>1, <1>2, PTL DEF Spec

----------------------------------------------------------------------------
(* The inductive invariant is inductive. *)

\* Nothing has happened in an initial state.
LEMMA InitInv == Init => IInv
BY DEF Init, IInv, FreshManifest, Attaching, Before, Following, Settled, Unclosed,
   JoinedMatchesControl, GateHeld, RecordOpen, PlanesExplained, RefusalWritten,
   EnginesStopped

\* Control, the gate and the record stay in step.
LEMMA RecordStep ==
  TypeOK /\ PolicyKnown /\ IInv /\ [Next]_vars
    => (JoinedMatchesControl /\ GateHeld /\ RecordOpen)'
<1> SUFFICES ASSUME TypeOK, PolicyKnown, IInv, [Next]_vars
             PROVE  (JoinedMatchesControl /\ GateHeld /\ RecordOpen)'
  OBVIOUS
<1> USE ConstantsAssumption, SaveAssumption DEF TypeOK, Manifest, PlaneState,
   Statuses, NoExit, Attaching,
        Before, Following, Unclosed, recordVars, planeVars, engineVars, IInv,
        JoinedMatchesControl, GateHeld, RecordOpen
<1>1. CASE Create
  BY <1>1 DEF Create, SaveManifest, FreshManifest
<1>2. CASE Compose
  BY <1>2 DEF Compose
<1>3. CASE Assess
  BY <1>3 DEF Assess, SaveIgnoringErrors, SaveManifest
<1>4. CASE AssessHangs
  BY <1>4 DEF AssessHangs
<1>5. CASE Gate
  BY <1>5 DEF Gate, GateRefuses, SaveIgnoringErrors, SaveManifest
<1>6. CASE StartDisabled
  BY <1>6 DEF StartDisabled
<1>7. CASE StartEngine
  BY <1>7 DEF StartEngine
<1>8. CASE SettleExited
  BY <1>8 DEF SettleExited
<1>9. CASE SettleAlive
  BY <1>9 DEF SettleAlive, StopEngine
<1>10. CASE Judge
  BY <1>10 DEF Judge, EnforceUnmet
<1>11. CASE StartObservability
  BY <1>11 DEF StartObservability, SaveIgnoringErrors, SaveManifest
<1>12. CASE TargetEnds
  BY <1>12 DEF TargetEnds
<1>13. CASE StopEngines
  BY <1>13 DEF StopEngines, StopEngine
<1>14. CASE FinishSave
  BY <1>14 DEF FinishSave, ObservabilityAfterCollect, SaveManifest
<1>15. CASE FinishReport
  BY <1>15 DEF FinishReport
<1>16. CASE FinalizeAborted
  <2>1. CASE mem.ended
    BY <1>16, <2>1 DEF FinalizeAborted
  <2>2. CASE ~mem.ended
    <3>1. SaveIgnoringErrors(Aborted(mem)) /\ pc' = "abortReport"
      BY <1>16, <2>2 DEF FinalizeAborted
    <3> QED
      BY <1>16, <2>2, <3>1 DEF FinalizeAborted, Aborted, RefusedPlane,
         SaveIgnoringErrors, SaveManifest
  <2> QED
    BY <2>1, <2>2
<1>17. CASE AbortReport
  BY <1>17 DEF AbortReport
<1>18. CASE Killed
  BY <1>18 DEF Killed
<1>19. CASE Detach
  BY <1>19 DEF Detach
<1>20. CASE EngineInstalls
  BY <1>20 DEF EngineInstalls, otherThanEngine
<1>21. CASE EngineInstallFails
  BY <1>21 DEF EngineInstallFails, otherThanEngine
<1>22. CASE EngineExits
  BY <1>22 DEF EngineExits, otherThanEngine
<1>23. CASE TargetExits
  BY <1>23 DEF TargetExits
<1>24. CASE ObserverExits
  BY <1>24 DEF ObserverExits
<1>25. CASE UNCHANGED vars
  BY <1>25 DEF vars
<1> QED
  BY <1>1, <1>2, <1>3, <1>4, <1>5, <1>6, <1>7, <1>8, <1>9, <1>10, <1>11, <1>12,
     <1>13, <1>14, <1>15, <1>16, <1>17, <1>18, <1>19, <1>20, <1>21, <1>22, <1>23,
     <1>24, <1>25 DEF Next, Main, Environment

\* What a closed record says of the planes and of a refusal is settled before it is
\* closed.
LEMMA RefusalStep ==
  TypeOK /\ PolicyKnown /\ IInv /\ [Next]_vars => (PlanesExplained /\ RefusalWritten)'
<1> SUFFICES ASSUME TypeOK, PolicyKnown, IInv, [Next]_vars
             PROVE  (PlanesExplained /\ RefusalWritten)'
  OBVIOUS
<1> USE ConstantsAssumption, SaveAssumption DEF TypeOK, PolicyKnown, Manifest,
   PlaneState, Statuses, NoExit, Attaching,
        Before, Following, Unclosed, recordVars, planeVars, engineVars, IInv,
        JoinedMatchesControl, RecordOpen, PlanesExplained, RefusalWritten
<1>1. CASE Create
  BY <1>1 DEF Create, SaveManifest, FreshManifest
<1>2. CASE Compose
  BY <1>2 DEF Compose
<1>3. CASE Assess
  BY <1>3 DEF Assess, SaveIgnoringErrors, SaveManifest
<1>4. CASE AssessHangs
  BY <1>4 DEF AssessHangs
<1>5. CASE Gate
  BY <1>5 DEF Gate, GateRefuses, SaveIgnoringErrors, SaveManifest
<1>6. CASE StartDisabled
  BY <1>6 DEF StartDisabled
<1>7. CASE StartEngine
  BY <1>7 DEF StartEngine
<1>8. CASE SettleExited
  BY <1>8 DEF SettleExited
<1>9. CASE SettleAlive
  BY <1>9 DEF SettleAlive, StopEngine
<1>10. CASE Judge
  <2>1. policy \in {"Active", "Disabled"}
    BY <1>10 DEF Judge
  <2>2. CASE EnforceUnmet
    BY <1>10, <2>2 DEF Judge
  <2>3. CASE ~EnforceUnmet
    BY <1>10, <2>1, <2>3 DEF Judge
  <2> QED
    BY <2>2, <2>3
<1>11. CASE StartObservability
  BY <1>11 DEF StartObservability, SaveIgnoringErrors, SaveManifest
<1>12. CASE TargetEnds
  BY <1>12 DEF TargetEnds
<1>13. CASE StopEngines
  BY <1>13 DEF StopEngines, StopEngine
<1>14. CASE FinishSave
  BY <1>14 DEF FinishSave, ObservabilityAfterCollect, SaveManifest
<1>15. CASE FinishReport
  BY <1>15 DEF FinishReport
<1>16. CASE FinalizeAborted
  <2>1. CASE mem.ended
    BY <1>16, <2>1 DEF FinalizeAborted
  <2>2. CASE ~mem.ended
    <3>1. SaveIgnoringErrors(Aborted(mem)) /\ pc' = "abortReport"
      BY <1>16, <2>2 DEF FinalizeAborted
    <3> QED
      BY <1>16, <2>2, <3>1 DEF FinalizeAborted, Aborted, RefusedPlane,
         SaveIgnoringErrors, SaveManifest
  <2> QED
    BY <2>1, <2>2
<1>17. CASE AbortReport
  BY <1>17 DEF AbortReport
<1>18. CASE Killed
  BY <1>18 DEF Killed
<1>19. CASE Detach
  BY <1>19 DEF Detach
<1>20. CASE EngineInstalls
  BY <1>20 DEF EngineInstalls, otherThanEngine
<1>21. CASE EngineInstallFails
  BY <1>21 DEF EngineInstallFails, otherThanEngine
<1>22. CASE EngineExits
  BY <1>22 DEF EngineExits, otherThanEngine
<1>23. CASE TargetExits
  BY <1>23 DEF TargetExits
<1>24. CASE ObserverExits
  BY <1>24 DEF ObserverExits
<1>25. CASE UNCHANGED vars
  BY <1>25 DEF vars
<1> QED
  BY <1>1, <1>2, <1>3, <1>4, <1>5, <1>6, <1>7, <1>8, <1>9, <1>10, <1>11, <1>12,
     <1>13, <1>14, <1>15, <1>16, <1>17, <1>18, <1>19, <1>20, <1>21, <1>22, <1>23,
     <1>24, <1>25 DEF Next, Main, Environment

\* An engine that is started is stopped before the record is closed.
LEMMA EnginesStep ==
  TypeOK /\ PolicyKnown /\ IInv /\ [Next]_vars => EnginesStopped'
<1> SUFFICES ASSUME TypeOK, PolicyKnown, IInv, [Next]_vars PROVE EnginesStopped'
  OBVIOUS
<1> USE DEF TypeOK, Attaching, Before, Following, Settled, recordVars, planeVars,
        engineVars, IInv, EnginesStopped
<1>1. CASE Create
  BY <1>1 DEF Create, SaveManifest, FreshManifest
<1>2. CASE Compose
  BY <1>2 DEF Compose
<1>3. CASE Assess
  BY <1>3 DEF Assess, SaveIgnoringErrors, SaveManifest
<1>4. CASE AssessHangs
  BY <1>4 DEF AssessHangs
<1>5. CASE Gate
  BY <1>5 DEF Gate, GateRefuses, SaveIgnoringErrors, SaveManifest
<1>6. CASE StartDisabled
  BY <1>6 DEF StartDisabled
<1>7. CASE StartEngine
  BY <1>7 DEF StartEngine
<1>8. CASE SettleExited
  BY <1>8 DEF SettleExited
<1>9. CASE SettleAlive
  BY <1>9 DEF SettleAlive, StopEngine
<1>10. CASE Judge
  BY <1>10 DEF Judge, EnforceUnmet
<1>11. CASE StartObservability
  BY <1>11 DEF StartObservability, SaveIgnoringErrors, SaveManifest
<1>12. CASE TargetEnds
  BY <1>12 DEF TargetEnds
<1>13. CASE StopEngines
  BY <1>13 DEF StopEngines, StopEngine
<1>14. CASE FinishSave
  BY <1>14 DEF FinishSave, ObservabilityAfterCollect, SaveManifest
<1>15. CASE FinishReport
  BY <1>15 DEF FinishReport
<1>16. CASE FinalizeAborted
  BY <1>16 DEF FinalizeAborted, Aborted, RefusedPlane, SaveIgnoringErrors,
     SaveManifest
<1>17. CASE AbortReport
  BY <1>17 DEF AbortReport
<1>18. CASE Killed
  BY <1>18 DEF Killed
<1>19. CASE Detach
  BY <1>19 DEF Detach
<1>20. CASE EngineInstalls
  BY <1>20 DEF EngineInstalls, otherThanEngine
<1>21. CASE EngineInstallFails
  BY <1>21 DEF EngineInstallFails, otherThanEngine
<1>22. CASE EngineExits
  BY <1>22 DEF EngineExits, otherThanEngine
<1>23. CASE TargetExits
  BY <1>23 DEF TargetExits
<1>24. CASE ObserverExits
  BY <1>24 DEF ObserverExits
<1>25. CASE UNCHANGED vars
  BY <1>25 DEF vars
<1> QED
  BY <1>1, <1>2, <1>3, <1>4, <1>5, <1>6, <1>7, <1>8, <1>9, <1>10, <1>11, <1>12,
     <1>13, <1>14, <1>15, <1>16, <1>17, <1>18, <1>19, <1>20, <1>21, <1>22, <1>23,
     <1>24, <1>25 DEF Next, Main, Environment

\* All of it, at every step.
LEMMA InvStep == TypeOK /\ PolicyKnown /\ IInv /\ [Next]_vars => IInv'
BY RecordStep, RefusalStep, EnginesStep DEF IInv

\* So it holds in every state of every attach.
LEMMA Invariant == Spec => [](TypeOK /\ PolicyKnown /\ IInv)
<1>1. Init => TypeOK /\ PolicyKnown /\ IInv
  BY InitTyped, InitInv
<1>2. TypeOK /\ PolicyKnown /\ IInv /\ [Next]_vars => TypeOK' /\ PolicyKnown' /\ IInv'
  BY TypeStep, InvStep
<1> QED
  BY <1>1, <1>2, PTL DEF Spec

----------------------------------------------------------------------------
(* Safety. *)

\* Whichever step refuses an attach, and whichever save fails, a closed record is a
\* refusal if and only if the target was never followed.
THEOREM RefusalIsTrue == Spec => []RefusedMeansNotJoined
<1>1. IInv => RefusedMeansNotJoined
  BY DEF IInv, RefusalWritten, RefusedMeansNotJoined, Closed, Status
<1> QED
  BY <1>1, Invariant, PTL

\* An attach that returns has no engine left on the target that could be stopped,
\* however the engine and the target behaved while it judged them.
THEOREM EnginesNotLeft == Spec => []NothingLeftAttached
<1>1. IInv => NothingLeftAttached
  BY DEF IInv, EnginesStopped, NothingLeftAttached, Settled
<1> QED
  BY <1>1, Invariant, PTL

----------------------------------------------------------------------------
(* The record on disk, once it is closed. *)

\* Once a reader finds the record closed, neither the file nor what is in it changes
\* again, whatever fails after it, and the target is not joined.
ClosedIsFinal == [][Closed => UNCHANGED <<file, disk, joined>>]_vars

\* What is not the main thread writes no file; nor does the main thread after the record
\* is closed.
LEMMA AfterClosingStep ==
  pc \notin Unclosed /\ [Next]_vars => UNCHANGED <<file, disk, joined>>
<1> SUFFICES ASSUME pc \notin Unclosed, [Next]_vars
             PROVE  UNCHANGED <<file, disk, joined>>
  OBVIOUS
<1> USE DEF Unclosed, Attaching, recordVars, planeVars, otherThanEngine
<1>1. CASE Killed \/ Detach
  BY <1>1 DEF Killed, Detach
<1>2. CASE EngineInstalls \/ EngineInstallFails \/ EngineExits
  BY <1>2 DEF EngineInstalls, EngineInstallFails, EngineExits
<1>3. CASE TargetExits \/ ObserverExits \/ UNCHANGED vars
  BY <1>3 DEF TargetExits, ObserverExits, vars
<1>4. CASE FinishReport \/ AbortReport
  BY <1>4 DEF FinishReport, AbortReport
<1>5. ~(Create \/ Compose \/ Assess \/ AssessHangs \/ Gate)
  BY DEF Create, Compose, Assess, AssessHangs, Gate
<1>6. ~(StartDisabled \/ StartEngine \/ SettleExited \/ SettleAlive \/ Judge)
  BY DEF StartDisabled, StartEngine, SettleExited, SettleAlive, Judge
<1>7. ~(StartObservability \/ TargetEnds \/ StopEngines \/ FinishSave \/ FinalizeAborted)
  BY DEF StartObservability, TargetEnds, StopEngines, FinishSave, FinalizeAborted
<1> QED
  BY <1>1, <1>2, <1>3, <1>4, <1>5, <1>6, <1>7 DEF Next, Main, Environment

\* A closed record is the last word: neither a report that cannot be written nor the
\* cleaning up after an error rewrites it as a refusal (run.rs, finalize_aborted).
THEOREM ClosedForGood == Spec => ClosedIsFinal
<1>1. IInv /\ [Next]_vars => [Closed => UNCHANGED <<file, disk, joined>>]_vars
  <2> SUFFICES ASSUME IInv, [Next]_vars, Closed
               PROVE  UNCHANGED <<file, disk, joined>>
    OBVIOUS
  <2>1. pc \notin Unclosed
    BY DEF IInv, RecordOpen, Closed, Status
  <2> QED
    BY <2>1, AfterClosingStep
<1> QED
  BY <1>1, Invariant, PTL DEF Spec, ClosedIsFinal

----------------------------------------------------------------------------
(* Refinement. *)

\* An attach that has not begun has no record.
LEMMA InitRecord == Init => Record!Init
BY ConstantsAssumption DEF Init, Record!Init, Record!NoExit, Status, NoExit

\* Every step of an attach is a step of its record, or leaves the record alone.
LEMMA RefinementStep ==
  TypeOK /\ PolicyKnown /\ IInv /\ [Next]_vars => [Record!Next]_(Record!vars)
<1> SUFFICES ASSUME TypeOK, PolicyKnown, IInv, [Next]_vars
             PROVE  [Record!Next]_(Record!vars)
  OBVIOUS
<1> USE ConstantsAssumption, SaveAssumption DEF TypeOK, Manifest, PlaneState,
   Statuses, NoExit, Attaching,
        Before, Following, Unclosed, recordVars, planeVars, engineVars, Status, IInv,
        JoinedMatchesControl, GateHeld, RecordOpen, Record!Next, Record!Write,
        Record!LaunchWrapped, Record!LaunchPlain, Record!Close, Record!vars,
        Record!NoExit
<1>1. CASE Create
  BY <1>1 DEF Create, SaveManifest, FreshManifest
<1>2. CASE Compose
  BY <1>2 DEF Compose
<1>3. CASE Assess
  BY <1>3 DEF Assess, SaveIgnoringErrors, SaveManifest
<1>4. CASE AssessHangs
  BY <1>4 DEF AssessHangs
<1>5. CASE Gate
  BY <1>5 DEF Gate, GateRefuses, SaveIgnoringErrors, SaveManifest
<1>6. CASE StartDisabled
  BY <1>6 DEF StartDisabled
<1>7. CASE StartEngine
  BY <1>7 DEF StartEngine
<1>8. CASE SettleExited
  BY <1>8 DEF SettleExited
<1>9. CASE SettleAlive
  BY <1>9 DEF SettleAlive, StopEngine
<1>10. CASE Judge
  BY <1>10 DEF Judge, EnforceUnmet
<1>11. CASE StartObservability
  BY <1>11 DEF StartObservability, SaveIgnoringErrors, SaveManifest
<1>12. CASE TargetEnds
  BY <1>12 DEF TargetEnds
<1>13. CASE StopEngines
  BY <1>13 DEF StopEngines, StopEngine
<1>14. CASE FinishSave
  BY <1>14 DEF FinishSave, ObservabilityAfterCollect, SaveManifest
<1>15. CASE FinishReport
  BY <1>15 DEF FinishReport
<1>16. CASE FinalizeAborted
  <2>1. CASE mem.ended
    BY <1>16, <2>1 DEF FinalizeAborted
  <2>2. CASE ~mem.ended
    <3>1. SaveIgnoringErrors(Aborted(mem)) /\ pc' = "abortReport"
      BY <1>16, <2>2 DEF FinalizeAborted
    <3> QED
      BY <1>16, <2>2, <3>1 DEF FinalizeAborted, Aborted, RefusedPlane,
         SaveIgnoringErrors, SaveManifest
  <2> QED
    BY <2>1, <2>2
<1>17. CASE AbortReport
  BY <1>17 DEF AbortReport
<1>18. CASE Killed
  BY <1>18 DEF Killed
<1>19. CASE Detach
  BY <1>19 DEF Detach
<1>20. CASE EngineInstalls
  BY <1>20 DEF EngineInstalls, otherThanEngine
<1>21. CASE EngineInstallFails
  BY <1>21 DEF EngineInstallFails, otherThanEngine
<1>22. CASE EngineExits
  BY <1>22 DEF EngineExits, otherThanEngine
<1>23. CASE TargetExits
  BY <1>23 DEF TargetExits
<1>24. CASE ObserverExits
  BY <1>24 DEF ObserverExits
<1>25. CASE UNCHANGED vars
  BY <1>25 DEF vars
<1> QED
  BY <1>1, <1>2, <1>3, <1>4, <1>5, <1>6, <1>7, <1>8, <1>9, <1>10, <1>11, <1>12,
     <1>13, <1>14, <1>15, <1>16, <1>17, <1>18, <1>19, <1>20, <1>21, <1>22, <1>23,
     <1>24, <1>25 DEF Next, Main, Environment

\* An attach implements the record that RunRecord describes, to follow the target
\* taking the place of the launch.
THEOREM AttachImplementsRecord == Spec => RecordRefinement
<1>1. Init => Record!Init
  BY InitRecord
<1>2. TypeOK /\ PolicyKnown /\ IInv /\ [Next]_vars => [Record!Next]_(Record!vars)
  BY RefinementStep
<1> QED
  BY <1>1, <1>2, Invariant, PTL DEF Spec, RecordRefinement, Record!Spec
=============================================================================
