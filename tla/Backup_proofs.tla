--------------------------- MODULE Backup_proofs ---------------------------
(***************************************************************************)
(* Theorems about Backup, for every timeout, pause and grace, and for any  *)
(* length of time.                                                         *)
(*                                                                         *)
(* The inductive invariant dates each window by the call it belongs to     *)
(* (WindowsDated), which gives the bound on the whole backup, and says     *)
(* what akeep can still do when its call is given up (CallsOrdered,        *)
(* SuccessDated).                                                          *)
(***************************************************************************)
EXTENDS Backup, TLAPS

----------------------------------------------------------------------------
(* The inductive invariant. *)

\* When the call being made must have begun: commit follows init, whose whole time
\* may have passed.
Due == IF call = "init" THEN 0 ELSE CallLimit

\* When each window may have opened at the latest, and how long the output has been
\* read.
WindowsDated ==
  /\ pc \notin {"drain", "done"} => held = 0
  /\ pc = "spawn"  => now <= Due
  /\ pc \in {"poll", "looked"} => since <= Due
  /\ pc = "paused" => since <= Due + Limit
  /\ pc = "reap"   => since <= Due + Limit + TermPause
  /\ pc = "drain"  => now - held <= Due + Limit
  /\ pc = "done"   => now - held <= 2 * CallLimit

\* Commit is not born before init has ended.
CallsOrdered ==
  /\ call = "init" => akeep["commit"] = "unborn"
  /\ call = "commit" => Ended("init")

\* The output is read of a process that has ended, a plane has an outcome once the
\* backup is over, and a success that no look has found is late.
SuccessDated ==
  /\ pc = "drain" => call = "commit" /\ Ended("commit")
  /\ outcome = "Degraded" => pc = "done"
  /\ pc \in {"looked", "paused", "reap"} /\ akeep["commit"] = "ok" => late

IInv ==
  /\ WindowsDated
  /\ CallsOrdered
  /\ SuccessDated
  /\ TimelySuccessCounts

----------------------------------------------------------------------------
(* Types. *)

\* The windows of run_with_timeout, one by one.
LEMMA Windows ==
  /\ DOMAIN Window = {"poll", "looked", "paused", "reap"}
  /\ Window["poll"] = Limit
  /\ Window["looked"] = Limit
  /\ Window["paused"] = TermPause
  /\ Window["reap"] = ReapGrace
BY DEF Window

\* The initial states are typed.
LEMMA InitTyped == Init => TypeOK
<1> SUFFICES ASSUME Init PROVE TypeOK
  OBVIOUS
<1> USE ConstantsAssumption, Windows DEF Init, TypeOK, Calls
<1>1. {heir, committed, late, saved} \subseteq BOOLEAN
  OBVIOUS
<1>2. CASE enabled
  BY <1>1, <1>2
<1>3. CASE ~enabled
  BY <1>1, <1>3
<1> QED
  BY <1>2, <1>3

\* No step takes a variable out of its type, or leaves a window overrun.
LEMMA TypeStep == TypeOK /\ [Next]_vars => TypeOK'
<1> SUFFICES ASSUME TypeOK, [Next]_vars PROVE TypeOK'
  OBVIOUS
<1> USE ConstantsAssumption, Windows DEF TypeOK, Calls, Ended, world, result
<1>1. CASE Hang
  BY <1>1 DEF Hang, Moves, Becomes
<1>2. CASE Snapshot
  BY <1>2 DEF Snapshot
<1>3. CASE FillPipe
  BY <1>3 DEF FillPipe, Becomes
<1>4. CASE Succeed
  BY <1>4 DEF Succeed, Becomes
<1>5. CASE Leave
  BY <1>5 DEF Leave
<1>6. CASE HeirEnds
  BY <1>6 DEF HeirEnds
<1>7. CASE Spawn
  BY <1>7 DEF Spawn
<1>8. CASE SpawnFails
  BY <1>8 DEF SpawnFails, Errs, Finish
<1>9. CASE SeeExit
  BY <1>9 DEF SeeExit, Finished, Finish
<1>10. CASE WaitFails
  BY <1>10 DEF WaitFails, Errs, Finish
<1>11. CASE Drain
  BY <1>11 DEF Drain, Finished, Finish
<1>12. CASE Drag
  BY <1>12 DEF Drag
<1>13. CASE Sleep
  BY <1>13 DEF Sleep, Closed
<1>14. CASE Terminate
  BY <1>14 DEF Terminate
<1>15. CASE Kill
  BY <1>15 DEF Kill, Closed
<1>16. CASE Reap
  BY <1>16 DEF Reap, TimedOut, Finish
<1>17. CASE Look
  BY <1>17 DEF Look
<1>18. CASE Linger
  BY <1>18 DEF Linger, Closed
<1>19. CASE UNCHANGED vars
  BY <1>19 DEF vars
<1> QED
  BY <1>1, <1>2, <1>3, <1>4, <1>5, <1>6, <1>7, <1>8, <1>9, <1>10, <1>11, <1>12,
     <1>13, <1>14, <1>15, <1>16, <1>17, <1>18, <1>19 DEF Next, Akeep, Main

\* Every variable of a backup always holds a value of its type, and no window is
\* overrun, however long akeep hangs.
THEOREM TypeCorrect == Spec => []TypeOK
<1>1. Init => TypeOK
  BY InitTyped
<1>2. TypeOK /\ [Next]_vars => TypeOK'
  BY TypeStep
<1> QED
  BY <1>1, <1>2, PTL DEF Spec

----------------------------------------------------------------------------
(* The inductive invariant is inductive. *)

\* Nothing has been called in an initial state.
LEMMA InitInv == Init => IInv
BY ConstantsAssumption
   DEF Init, IInv, WindowsDated, CallsOrdered, SuccessDated, TimelySuccessCounts, Due,
       CallLimit, Calls

\* Each window opens no later than the windows before it allow.
LEMMA DatesStep == TypeOK /\ IInv /\ [Next]_vars => WindowsDated'
<1> SUFFICES ASSUME TypeOK, IInv, [Next]_vars PROVE WindowsDated'
  OBVIOUS
<1> USE ConstantsAssumption, Windows
    DEF TypeOK, Calls, world, result, IInv, WindowsDated, SuccessDated, Due, CallLimit
<1>1. CASE Hang
  BY <1>1 DEF Hang, Moves, Becomes
<1>2. CASE Snapshot
  BY <1>2 DEF Snapshot
<1>3. CASE FillPipe
  BY <1>3 DEF FillPipe, Becomes
<1>4. CASE Succeed
  BY <1>4 DEF Succeed, Becomes
<1>5. CASE Leave
  BY <1>5 DEF Leave
<1>6. CASE HeirEnds
  BY <1>6 DEF HeirEnds
<1>7. CASE Spawn
  BY <1>7 DEF Spawn
<1>8. CASE SpawnFails
  BY <1>8 DEF SpawnFails, Errs, Finish
<1>9. CASE SeeExit
  BY <1>9 DEF SeeExit, Finished, Finish
<1>10. CASE WaitFails
  BY <1>10 DEF WaitFails, Errs, Finish
<1>11. CASE Drain
  BY <1>11 DEF Drain, Finished, Finish
<1>12. CASE Drag
  BY <1>12 DEF Drag
<1>13. CASE Sleep
  BY <1>13 DEF Sleep, Closed
<1>14. CASE Terminate
  BY <1>14 DEF Terminate
<1>15. CASE Kill
  BY <1>15 DEF Kill, Closed
<1>16. CASE Reap
  BY <1>16 DEF Reap, TimedOut, Finish
<1>17. CASE Look
  BY <1>17 DEF Look
<1>18. CASE Linger
  BY <1>18 DEF Linger, Closed
<1>19. CASE UNCHANGED vars
  BY <1>19 DEF vars
<1> QED
  BY <1>1, <1>2, <1>3, <1>4, <1>5, <1>6, <1>7, <1>8, <1>9, <1>10, <1>11, <1>12,
     <1>13, <1>14, <1>15, <1>16, <1>17, <1>18, <1>19 DEF Next, Akeep, Main

\* One akeep follows the other, and a success before the last look is seen.
LEMMA SuccessStep ==
  TypeOK /\ IInv /\ [Next]_vars => (CallsOrdered /\ SuccessDated /\ TimelySuccessCounts)'
<1> SUFFICES ASSUME TypeOK, IInv, [Next]_vars
             PROVE  (CallsOrdered /\ SuccessDated /\ TimelySuccessCounts)'
  OBVIOUS
<1> USE Windows DEF TypeOK, Calls, Ended, world, result, IInv, CallsOrdered, SuccessDated,
        TimelySuccessCounts
<1>1. CASE Hang
  BY <1>1 DEF Hang, Moves, Becomes
<1>2. CASE Snapshot
  BY <1>2 DEF Snapshot
<1>3. CASE FillPipe
  BY <1>3 DEF FillPipe, Becomes
<1>4. CASE Succeed
  BY <1>4 DEF Succeed, Becomes
<1>5. CASE Leave
  BY <1>5 DEF Leave
<1>6. CASE HeirEnds
  BY <1>6 DEF HeirEnds
<1>7. CASE Spawn
  BY <1>7 DEF Spawn
<1>8. CASE SpawnFails
  BY <1>8 DEF SpawnFails, Errs, Finish
<1>9. CASE SeeExit
  BY <1>9 DEF SeeExit, Finished, Finish
<1>10. CASE WaitFails
  BY <1>10 DEF WaitFails, Errs, Finish
<1>11. CASE Drain
  BY <1>11 DEF Drain, Finished, Finish
<1>12. CASE Drag
  BY <1>12 DEF Drag
<1>13. CASE Sleep
  BY <1>13 DEF Sleep, Closed
<1>14. CASE Terminate
  BY <1>14 DEF Terminate
<1>15. CASE Kill
  BY <1>15 DEF Kill, Closed
<1>16. CASE Reap
  BY <1>16 DEF Reap, TimedOut, Finish
<1>17. CASE Look
  BY <1>17 DEF Look
<1>18. CASE Linger
  BY <1>18 DEF Linger, Closed
<1>19. CASE UNCHANGED vars
  BY <1>19 DEF vars
<1> QED
  BY <1>1, <1>2, <1>3, <1>4, <1>5, <1>6, <1>7, <1>8, <1>9, <1>10, <1>11, <1>12,
     <1>13, <1>14, <1>15, <1>16, <1>17, <1>18, <1>19 DEF Next, Akeep, Main

\* So the invariant holds in every state of every backup.
LEMMA Invariant == Spec => [](TypeOK /\ IInv)
<1>1. Init => TypeOK /\ IInv
  BY InitTyped, InitInv
<1>2. TypeOK /\ IInv /\ [Next]_vars => TypeOK' /\ IInv'
  BY TypeStep, DatesStep, SuccessStep DEF IInv
<1> QED
  BY <1>1, <1>2, PTL DEF Spec

----------------------------------------------------------------------------
(* Safety. *)

\* Whatever akeep does, and for whatever values the timeouts have, a backup holds up
\* its run no longer than two calls with their shutdowns, but for reading an output
\* that somebody keeps open.
THEOREM LimitKept == Spec => []LimitIsKept
<1>1. TypeOK /\ IInv => LimitIsKept
  <2> SUFFICES ASSUME TypeOK, IInv PROVE now - held <= 2 * CallLimit
    BY DEF LimitIsKept
  <2> USE ConstantsAssumption, Windows DEF TypeOK, IInv, WindowsDated, Due, CallLimit
  <2>1. CASE pc = "spawn"
    BY <2>1
  <2>2. CASE pc \in {"poll", "looked"}
    BY <2>2
  <2>3. CASE pc = "paused"
    BY <2>3
  <2>4. CASE pc = "reap"
    BY <2>4
  <2>5. CASE pc \in {"drain", "done"}
    BY <2>5
  <2> QED
    BY <2>1, <2>2, <2>3, <2>4, <2>5
<1> QED
  BY <1>1, Invariant, PTL

\* Two akeeps are never alive together, not even when the first would not die.
THEOREM OneAtATimeAlways == Spec => []OneAtATime
<1>1. TypeOK /\ IInv => OneAtATime
  BY DEF TypeOK, Calls, IInv, CallsOrdered, OneAtATime, Alive, Ended
<1> QED
  BY <1>1, Invariant, PTL

\* For any timeouts, a commit that succeeded is recorded as a degraded backup only if
\* it came after the last look at akeep: a success before that look is never lost.
THEOREM TimelySuccessKept == Spec => []TimelySuccessCounts
<1>1. IInv => TimelySuccessCounts
  BY DEF IInv
<1> QED
  BY <1>1, Invariant, PTL
=============================================================================
