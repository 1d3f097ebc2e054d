--------------------------- MODULE Waiting_proofs ---------------------------
(***************************************************************************)
(* Theorems about how `actime run` waits for its wrap: WrapWait, for every *)
(* grace, window and wall-clock limit and for a wait of any length; and    *)
(* TreeScan, the look down the process tree by which a wait sees whether   *)
(* an agent is left, for any numbers, any bound on the numbers visited and *)
(* any processes that come and go during a look.                           *)
(*                                                                         *)
(* The inductive invariant of the wait relates what the main loop          *)
(* remembers of the agent to when it last saw one (IdleRemembered), and    *)
(* dates the windows that follow it by the limit (WindowsDated).           *)
(*                                                                         *)
(* What a look has ahead of it is the numbers on its stack and, in a       *)
(* listing, the children that have not been read.  Every agent that stays  *)
(* where it is has been found or is below one of those (Reaches), which    *)
(* is said without a chain of parents: it is in every set that holds them  *)
(* and that no child leaves.                                               *)
(***************************************************************************)
EXTENDS WrapWait, TreeScan, SequenceTheorems, TLAPS

----------------------------------------------------------------------------
(* The wait: its inductive invariant. *)

\* Every look lies in the past, and an idle time that is being counted began after the
\* start grace, after the last look that found an agent.
IdleRemembered ==
  pc = "poll" =>
    /\ seen < now
    /\ idleSince # Never => StartGrace <= idleSince /\ seen < idleSince

\* How far past the limit each window can begin.
WindowsDated ==
  limit # Never =>
    /\ pc \in {"poll", "natural"} => now <= limit
    /\ pc = "term" => since <= limit + 1 /\ now <= since + TermGrace
    /\ pc = "kill" => since <= limit + 1 + TermGrace /\ now <= since + KillGrace

IInv ==
  /\ IdleRemembered
  /\ IdleMeansIdle
  /\ WindowsDated

----------------------------------------------------------------------------
(* The wait: types. *)

\* The windows after the main loop, one by one.
LEMMA Windows ==
  /\ DOMAIN Window = {"poll", "natural", "term", "kill"}
  /\ Window["natural"] = Natural
  /\ Window["term"] = TermGrace
  /\ Window["kill"] = KillGrace
BY DEF Window

\* The initial states are typed.
LEMMA InitTyped == Init => TypeOK
<1> SUFFICES ASSUME Init PROVE TypeOK
  OBVIOUS
<1>1. {now, since} \subseteq 0 .. MaxTime
  BY ConstantsAssumption DEF Init
<1>2. {idleSince, seen} \subseteq {Never} \cup 0 .. MaxTime
  BY DEF Init
<1>3. {code, answer} \subseteq {Never, SIGTERM, SIGKILL} \cup 0..255
  BY DEF Init
<1> QED
  BY <1>1, <1>2, <1>3 DEF Init, TypeOK

\* A look leaves an idle time that is none or lies within the wait.
LEMMA LookTyped == TypeOK => NowIdleSince \in {Never} \cup 0 .. MaxTime
BY DEF TypeOK, NowIdleSince, Never

\* The values a status may have, no status among them.
StatusOrNone == {Never, SIGTERM, SIGKILL} \cup 0..255

\* A status a caller sees is one the engine may have, or none.
LEMMA SurfacedTyped ==
  TypeOK => \A c \in StatusOrNone : Surfaced(c) \in StatusOrNone
<1> SUFFICES ASSUME TypeOK, NEW c \in StatusOrNone PROVE Surfaced(c) \in StatusOrNone
  OBVIOUS
<1>1. code \in StatusOrNone /\ 0 \in StatusOrNone
  BY DEF TypeOK, StatusOrNone
<1> QED
  BY <1>1 DEF Surfaced

\* No step takes a variable out of its type.
LEMMA TypeStep == TypeOK /\ [Next]_vars => TypeOK'
<1> SUFFICES ASSUME TypeOK, [Next]_vars PROVE TypeOK'
  OBVIOUS
<1> USE ConstantsAssumption, LookTyped, SurfacedTyped
    DEF TypeOK, world, loops, Never, SIGTERM, SIGKILL
<1>1. CASE Exited
  <2>1. code \in StatusOrNone /\ 0 \in StatusOrNone
    BY DEF StatusOrNone
  <2>2. answer' \in StatusOrNone
    BY <1>1, <2>1 DEF Exited, Return
  <2> QED
    BY <1>1, <2>2 DEF Exited, Return, StatusOrNone
<1>2. CASE WaitFails
  BY <1>2 DEF WaitFails
<1>3. CASE Poll
  BY <1>3 DEF Poll, Look, Sleep
<1>4. CASE SeeIdle
  BY <1>4 DEF SeeIdle, Look
<1>5. CASE AwaitNaturalExit
  BY <1>5 DEF AwaitNaturalExit, Looks, Sleep
<1>6. CASE ReapIdle
  BY <1>6 DEF ReapIdle, Terminate
<1>7. CASE DeadlineExpires
  BY <1>7 DEF DeadlineExpires, Look, Terminate
<1>8. CASE AwaitTerm
  BY <1>8 DEF AwaitTerm, Looks, Sleep
<1>9. CASE Kill
  BY <1>9 DEF Kill
<1>10. CASE AwaitKill
  BY <1>10 DEF AwaitKill, Looks, Sleep
<1>11. CASE GiveUp
  <2>1. SIGKILL \in StatusOrNone /\ 0 \in StatusOrNone
    BY DEF StatusOrNone
  <2>2. answer' \in StatusOrNone
    BY <1>11, <2>1 DEF GiveUp, Return
  <2> QED
    BY <1>11, <2>2 DEF GiveUp, Return, StatusOrNone
<1>12. CASE AgentAppears
  BY <1>12 DEF AgentAppears
<1>13. CASE AgentLeaves
  BY <1>13 DEF AgentLeaves
<1>14. CASE WrapExits
  <2>1. code' \in StatusOrNone
    BY <1>14 DEF WrapExits, StatusOrNone
  <2>2. {code', answer'} \subseteq {Never, SIGTERM, SIGKILL} \cup 0..255
    BY <1>14, <2>1 DEF WrapExits, StatusOrNone
  <2>3. /\ limit' \in Limits
        /\ {now', since'} \subseteq 0 .. MaxTime
        /\ {idleSince', seen'} \subseteq {Never} \cup 0 .. MaxTime
        /\ child' \in {"running", "exited"}
        /\ agent' \in BOOLEAN
    BY <1>14 DEF WrapExits
  <2> QED
    BY <1>14, <2>2, <2>3 DEF WrapExits
<1>15. CASE UNCHANGED vars
  BY <1>15 DEF vars
<1> QED
  BY <1>1, <1>2, <1>3, <1>4, <1>5, <1>6, <1>7, <1>8, <1>9, <1>10, <1>11, <1>12,
     <1>13, <1>14, <1>15 DEF Next, Wait

\* Every variable of a wait always holds a value of its type: the answer is a status,
\* even when the engine never dies.
THEOREM TypeCorrect == Spec => []TypeOK
<1>1. Init => TypeOK
  BY InitTyped
<1>2. TypeOK /\ [Next]_vars => TypeOK'
  BY TypeStep
<1> QED
  BY <1>1, <1>2, PTL DEF Spec

----------------------------------------------------------------------------
(* The wait: the invariant is inductive. *)

\* At time 0 nothing has been seen, and the limit is not over.
LEMMA InitInv == Init => IInv
BY ConstantsAssumption
   DEF Init, IInv, IdleRemembered, IdleMeansIdle, WindowsDated, Never

\* An idle time is counted from a look that found no agent, and any look that finds one
\* ends it.
LEMMA IdleStep ==
  TypeOK /\ IInv /\ [Next]_vars => (IdleRemembered /\ IdleMeansIdle)'
<1> SUFFICES ASSUME TypeOK, IInv, [Next]_vars
             PROVE  (IdleRemembered /\ IdleMeansIdle)'
  OBVIOUS
<1> USE ConstantsAssumption
    DEF TypeOK, world, loops, IInv, IdleRemembered, IdleMeansIdle, Never
<1>1. CASE Exited
  BY <1>1 DEF Exited, Return
<1>2. CASE WaitFails
  BY <1>2 DEF WaitFails
<1>3. CASE Poll
  BY <1>3 DEF Poll, Look, Sleep, NowIdleSince
<1>4. CASE SeeIdle
  BY <1>4 DEF SeeIdle, Look, Idle, NowIdleSince
<1>5. CASE AwaitNaturalExit
  BY <1>5 DEF AwaitNaturalExit, Looks, Sleep
<1>6. CASE ReapIdle
  BY <1>6 DEF ReapIdle, Terminate
<1>7. CASE DeadlineExpires
  BY <1>7 DEF DeadlineExpires, Look, Terminate
<1>8. CASE AwaitTerm
  BY <1>8 DEF AwaitTerm, Looks, Sleep
<1>9. CASE Kill
  BY <1>9 DEF Kill
<1>10. CASE AwaitKill
  BY <1>10 DEF AwaitKill, Looks, Sleep
<1>11. CASE GiveUp
  BY <1>11 DEF GiveUp, Return
<1>12. CASE AgentAppears
  BY <1>12 DEF AgentAppears
<1>13. CASE AgentLeaves
  BY <1>13 DEF AgentLeaves
<1>14. CASE WrapExits
  BY <1>14 DEF WrapExits
<1>15. CASE UNCHANGED vars
  BY <1>15 DEF vars
<1> QED
  BY <1>1, <1>2, <1>3, <1>4, <1>5, <1>6, <1>7, <1>8, <1>9, <1>10, <1>11, <1>12,
     <1>13, <1>14, <1>15 DEF Next, Wait

\* The deadline is looked at in every turn, until SIGTERM has been sent.
LEMMA DatesStep == TypeOK /\ IInv /\ [Next]_vars => WindowsDated'
<1> SUFFICES ASSUME TypeOK, IInv, [Next]_vars PROVE WindowsDated'
  OBVIOUS
<1> USE ConstantsAssumption, Windows
    DEF TypeOK, world, loops, IInv, WindowsDated, Expired, Never
<1>1. CASE Exited
  BY <1>1 DEF Exited, Return
<1>2. CASE WaitFails
  BY <1>2 DEF WaitFails
<1>3. CASE Poll
  BY <1>3 DEF Poll, Look, Sleep
<1>4. CASE SeeIdle
  BY <1>4 DEF SeeIdle, Look
<1>5. CASE AwaitNaturalExit
  BY <1>5 DEF AwaitNaturalExit, Looks, Sleep
<1>6. CASE ReapIdle
  BY <1>6 DEF ReapIdle, Terminate
<1>7. CASE DeadlineExpires
  BY <1>7 DEF DeadlineExpires, Look, Terminate
<1>8. CASE AwaitTerm
  BY <1>8 DEF AwaitTerm, Looks, Sleep
<1>9. CASE Kill
  BY <1>9 DEF Kill
<1>10. CASE AwaitKill
  BY <1>10 DEF AwaitKill, Looks, Sleep
<1>11. CASE GiveUp
  BY <1>11 DEF GiveUp, Return
<1>12. CASE AgentAppears
  BY <1>12 DEF AgentAppears
<1>13. CASE AgentLeaves
  BY <1>13 DEF AgentLeaves
<1>14. CASE WrapExits
  BY <1>14 DEF WrapExits
<1>15. CASE UNCHANGED vars
  BY <1>15 DEF vars
<1> QED
  BY <1>1, <1>2, <1>3, <1>4, <1>5, <1>6, <1>7, <1>8, <1>9, <1>10, <1>11, <1>12,
     <1>13, <1>14, <1>15 DEF Next, Wait

\* So the invariant holds in every state of every wait.
LEMMA Invariant == Spec => [](TypeOK /\ IInv)
<1>1. Init => TypeOK /\ IInv
  BY InitTyped, InitInv
<1>2. TypeOK /\ IInv /\ [Next]_vars => TypeOK' /\ IInv'
  BY TypeStep, IdleStep, DatesStep DEF IInv
<1> QED
  BY <1>1, <1>2, PTL DEF Spec

----------------------------------------------------------------------------
(* The wait: safety. *)

\* Whichever window a wall-clock limit expires in, and whatever the engine does on
\* SIGTERM and SIGKILL, the wait is over within the graces of the shutdown.
THEOREM LimitKept == Spec => []LimitIsKept
<1>1. TypeOK /\ IInv => LimitIsKept
  BY ConstantsAssumption, Windows
     DEF TypeOK, IInv, WindowsDated, LimitIsKept, Pending, Never
<1> QED
  BY <1>1, Invariant, PTL

\* No run is given up for idle while looks find an agent, nor within the start grace,
\* however agents come and go between two looks.
THEOREM IdleIsIdle == Spec => []IdleMeansIdle
<1>1. IInv => IdleMeansIdle
  BY DEF IInv
<1> QED
  BY <1>1, Invariant, PTL

----------------------------------------------------------------------------
(* The wait: its answer. *)

\* A wrap that was left alone answers for itself.  One that was shut down for idle is
\* never a death by signal, and without failing waits keeps a status of its own below
\* 128; one shut down by the limit has its own status or that of the SIGKILL.
AnswerIsOwn ==
  pc = "over" =>
    /\ answer \in 0..255
    /\ reason = "none" => child = "exited" /\ answer = code
    /\ reason = "idle" =>
         /\ answer = 0 \/ (child = "exited" /\ answer = code /\ code < 128)
         /\ ~WaitMayFail /\ child = "exited" /\ code < 128 => answer = code
    /\ reason = "limit" =>
         limit # Never /\ (answer = SIGKILL \/ (child = "exited" /\ answer = code))

\* A shutdown has a reason, the limit only where there is one, and a child that is gone
\* has left a status.
Reasoned ==
  /\ pc \in {"poll", "natural"} => reason = "none"
  /\ pc \in {"term", "kill"} => reason \in {"idle", "limit"}
  /\ reason = "limit" => limit # Never
  /\ child = "exited" => code \in 0..255

\* Every step keeps the reason, and answers by it.
LEMMA AnswerStep ==
  TypeOK /\ Reasoned /\ AnswerIsOwn /\ [Next]_vars => Reasoned' /\ AnswerIsOwn'
<1> SUFFICES ASSUME TypeOK, Reasoned, AnswerIsOwn, [Next]_vars
             PROVE  Reasoned' /\ AnswerIsOwn'
  OBVIOUS
<1> USE ConstantsAssumption
    DEF TypeOK, Reasoned, AnswerIsOwn, world, loops, Never, SIGTERM, SIGKILL
<1>1. CASE Exited
  BY <1>1 DEF Exited, Looks, Pending, Window, Return, Surfaced
<1>2. CASE WaitFails
  BY <1>2 DEF WaitFails
<1>3. CASE Poll
  BY <1>3 DEF Poll
<1>4. CASE SeeIdle
  BY <1>4 DEF SeeIdle
<1>5. CASE AwaitNaturalExit
  BY <1>5 DEF AwaitNaturalExit
<1>6. CASE ReapIdle
  BY <1>6 DEF ReapIdle, Terminate
<1>7. CASE DeadlineExpires
  BY <1>7 DEF DeadlineExpires, Expired, Terminate
<1>8. CASE AwaitTerm
  BY <1>8 DEF AwaitTerm
<1>9. CASE Kill
  BY <1>9 DEF Kill
<1>10. CASE AwaitKill
  BY <1>10 DEF AwaitKill
<1>11. CASE GiveUp
  BY <1>11 DEF GiveUp, Return, Surfaced
<1>12. CASE AgentAppears \/ AgentLeaves
  BY <1>12 DEF AgentAppears, AgentLeaves
<1>13. CASE WrapExits
  BY <1>13 DEF WrapExits
<1>14. CASE UNCHANGED vars
  BY <1>14 DEF vars
<1> QED
  BY <1>1, <1>2, <1>3, <1>4, <1>5, <1>6, <1>7, <1>8, <1>9, <1>10, <1>11, <1>12,
     <1>13, <1>14 DEF Next, Wait

\* A forced shutdown after the agent does not surface as a death by signal, and no
\* status is made up (run.rs, run_host_policy_wrap), whatever exits between two looks.
THEOREM AnswerKept == Spec => []AnswerIsOwn
<1>1. Init => Reasoned /\ AnswerIsOwn
  BY DEF Init, Reasoned, AnswerIsOwn
<1> QED
  BY <1>1, AnswerStep, Invariant, PTL DEF Spec

----------------------------------------------------------------------------
(* The look: its inductive invariant. *)

Elems(seq) == {seq[i] : i \in 1 .. Len(seq)}

\* The children of the number visited that remain to be read.
Unread == IF phase = "read" THEN {q \in listed : parent[q] = at} ELSE {}

\* The walk is going down the tree.
Walking == phase \in {"visit", "read"}

\* The wrap is nobody's child among the numbers, and no agent.
Rooted == parent[Wrap] = Reaper /\ comm[Wrap] = "helper"

\* Who stays is there and has stayed an agent.
StillAgents == \A p \in steady : p \in InUse /\ comm[p] = "agent"

\* What is to be visited was found, but for the wrap.
Found == Walking => Elems(stack) \subseteq Elems(out) \cup {Wrap}

\* Who stays was found, or is below what the walk has ahead.
Reaches ==
  Walking => \A set \in SUBSET Pids :
               Closed(set) /\ Elems(stack) \cup Unread \subseteq set =>
                 steady \subseteq set \cup Elems(out)

\* A walk that has got to its end has found all who stay; their names remain to be read.
NamesAhead == phase = "names" /\ stack = <<>> => steady \subseteq Elems(out)

ScanIInv ==
  /\ ScanTypeOK
  /\ Rooted
  /\ StillAgents
  /\ Found
  /\ Reaches
  /\ NamesAhead
  /\ StableAgentIsSeen

----------------------------------------------------------------------------
(* The look: sequences. *)

\* A number on top of a stack, or at the end of what was found.
LEMMA AppendElems ==
  ASSUME NEW seq \in Seq(Pids), NEW p \in Pids
  PROVE  /\ Append(seq, p) \in Seq(Pids)
         /\ Len(Append(seq, p)) = Len(seq) + 1
         /\ Elems(Append(seq, p)) = Elems(seq) \cup {p}
<1>1. /\ Append(seq, p) \in Seq(Pids)
      /\ Len(Append(seq, p)) = Len(seq) + 1
      /\ \A i \in 1 .. Len(seq) : Append(seq, p)[i] = seq[i]
      /\ Append(seq, p)[Len(seq) + 1] = p
  BY AppendProperties
<1>2. Len(seq) \in Nat
  BY LenProperties
<1> QED
  BY <1>1, <1>2 DEF Elems

\* The top of a stack, and what is below it.
LEMMA LastElems ==
  ASSUME NEW seq \in Seq(Pids), seq # <<>>
  PROVE  /\ Last(seq) \in Pids
         /\ Front(seq) \in Seq(Pids)
         /\ Len(Front(seq)) = Len(seq) - 1
         /\ Elems(seq) = Elems(Front(seq)) \cup {Last(seq)}
<1>1. Len(seq) \in Nat \ {0}
  BY LenProperties, EmptySeq
<1>2. \A i \in 1 .. Len(seq) : seq[i] \in Pids
  BY ElementOfSeq
<1>3. /\ Front(seq) \in Seq(Pids)
      /\ Len(Front(seq)) = Len(seq) - 1
      /\ \A i \in 1 .. Len(seq) - 1 : Front(seq)[i] = seq[i]
  <2>1. PICK last \in Nat : Len(seq) = last + 1
    BY <1>1
  <2>2. Front(seq) = SubSeq(seq, 1, last)
    BY <2>1 DEF Front
  <2>3. /\ SubSeq(seq, 1, last) \in Seq(Pids)
        /\ Len(SubSeq(seq, 1, last)) = IF 1 <= last THEN last - 1 + 1 ELSE 0
        /\ \A i \in 1 .. last - 1 + 1 : SubSeq(seq, 1, last)[i] = seq[1 + i - 1]
    BY <1>2, <2>1, SubSeqProperties
  <2> QED
    BY <2>1, <2>2, <2>3
<1> QED
  BY <1>1, <1>2, <1>3 DEF Elems, Last

\* The first that was found, and the others.
LEMMA HeadElems ==
  ASSUME NEW seq \in Seq(Pids), seq # <<>>
  PROVE  /\ Head(seq) \in Pids
         /\ Tail(seq) \in Seq(Pids)
         /\ Elems(seq) = Elems(Tail(seq)) \cup {Head(seq)}
<1>1. Len(seq) \in Nat \ {0}
  BY LenProperties, EmptySeq
<1>2. /\ Head(seq) = seq[1] /\ Head(seq) \in Pids
      /\ Tail(seq) \in Seq(Pids)
      /\ Len(Tail(seq)) = Len(seq) - 1
      /\ \A i \in 1 .. Len(seq) - 1 : Tail(seq)[i] = seq[i + 1]
  BY <1>1, HeadTailProperties, ElementOfSeq
<1>3. \A i \in 2 .. Len(seq) : i - 1 \in 1 .. Len(seq) - 1 /\ seq[i] = Tail(seq)[i - 1]
  BY <1>1, <1>2
<1>4. \A x \in Elems(seq) : x \in Elems(Tail(seq)) \cup {Head(seq)}
  <2> SUFFICES ASSUME NEW i \in 1 .. Len(seq)
               PROVE  seq[i] \in Elems(Tail(seq)) \cup {Head(seq)}
    BY DEF Elems
  <2>1. CASE i = 1
    BY <2>1, <1>2
  <2>2. CASE i # 1
    BY <2>2, <1>1, <1>2, <1>3 DEF Elems
  <2> QED
    BY <2>1, <2>2
<1>5. \A x \in Elems(Tail(seq)) : x \in Elems(seq)
  BY <1>1, <1>2 DEF Elems
<1>6. Head(seq) \in Elems(seq)
  BY <1>1, <1>2 DEF Elems
<1> QED
  BY <1>2, <1>4, <1>5, <1>6

\* Nothing is in an empty one.
LEMMA EmptyElems == Elems(<<>>) = {} /\ <<>> \in Seq(Pids) /\ Len(<<>>) = 0
BY EmptySeq DEF Elems

----------------------------------------------------------------------------
(* The look: the tree. *)

\* Who is below p: its children, and the children of those who are.
LEMMA BelowIsClosed ==
  ASSUME NEW p
  PROVE  /\ Below(p) \subseteq InUse
         /\ Children(p) \subseteq Below(p)
         /\ Closed(Below(p))
<1>1. Children(p) \subseteq Below(p)
  BY DEF Below, Children
<1>2. ASSUME NEW q \in InUse, parent[q] \in Below(p)
      PROVE  q \in Below(p)
  <2> SUFFICES ASSUME NEW set \in SUBSET InUse, Children(p) \subseteq set, Closed(set)
               PROVE  q \in set
    BY DEF Below
  <2>1. parent[q] \in set
    BY <1>2 DEF Below
  <2> QED
    BY <2>1 DEF Closed
<1> QED
  BY <1>1, <1>2 DEF Closed, Below

\* And nobody who is not in every set that has p and that no child leaves.
LEMMA BelowIsLeast ==
  ASSUME NEW p, NEW set, p \in set, Closed(set)
  PROVE  Below(p) \subseteq set
<1> DEFINE inside == set \cap InUse
<1>1. Children(p) \subseteq inside
  BY DEF Closed, Children
<1>2. Closed(inside)
  BY DEF Closed
<1> QED
  BY <1>1, <1>2 DEF Below
----------------------------------------------------------------------------
(* The look: its initial states. *)

\* At the start there is the wrap alone, and no walk.
LEMMA ScanInitInvariant == ScanInit => ScanIInv
<1> SUFFICES ASSUME ScanInit
             PROVE  ScanIInv
  OBVIOUS
<1> USE DEF ScanInit
<1>1. ScanTypeOK
  BY ScanConstantsAssumption, EmptyElems DEF ScanTypeOK, Free, Reaper, InUse
<1>2. Rooted
  BY ScanConstantsAssumption DEF Rooted
<1>3. StillAgents /\ Found /\ Reaches /\ NamesAhead /\ StableAgentIsSeen
  BY DEF StillAgents, Found, Reaches, NamesAhead, StableAgentIsSeen, Walking
<1> QED
  BY <1>1, <1>2, <1>3 DEF ScanIInv

----------------------------------------------------------------------------
(* The look: the processes. *)

\* A new number is below its parent; it leaves the walk and who stays alone.
LEMMA ForkInvariant == ScanIInv /\ Fork => ScanIInv'
<1> SUFFICES ASSUME ScanIInv, Fork
             PROVE  ScanIInv'
  OBVIOUS
<1> USE ScanConstantsAssumption DEF ScanIInv
<1>1. PICK p \in InUse, q \in Pids \ InUse :
        /\ parent' = [parent EXCEPT ![q] = p]
        /\ comm' = [comm EXCEPT ![q] = comm[p]]
        /\ UNCHANGED <<walk, steady>>
  BY DEF Fork
<1>2. /\ q \in Pids /\ p \in Pids /\ parent[q] = Free /\ p # Free
      /\ \A r \in Pids \ {q} : parent'[r] = parent[r] /\ comm'[r] = comm[r]
      /\ parent'[q] = p
      /\ InUse' = InUse \cup {q}
  BY <1>1 DEF ScanTypeOK, InUse, Free
<1>3. ScanTypeOK'
  BY <1>1, <1>2 DEF ScanTypeOK, walk, InUse
<1>4. Rooted' /\ StillAgents' /\ Wrap # q
  BY <1>1, <1>2 DEF Rooted, StillAgents, InUse, Free, Reaper
<1>5. Found' /\ NamesAhead' /\ StableAgentIsSeen'
  BY <1>1 DEF Found, NamesAhead, StableAgentIsSeen, Walking, walk
<1>6. Reaches'
  <2> SUFFICES ASSUME Walking, NEW set \in SUBSET Pids, Closed(set)',
                      (Elems(stack) \cup Unread)' \subseteq set
               PROVE  steady \subseteq set \cup Elems(out)
    BY <1>1 DEF Reaches, Walking, walk
  <2>1. Closed(set)
    BY <1>2 DEF Closed, InUse
  <2>2. Unread \subseteq Unread'
    BY <1>1, <1>2 DEF Unread, walk, ScanTypeOK, Free
  <2>3. Elems(stack) \cup Unread \subseteq set
    BY <1>1, <2>2 DEF walk
  <2> QED
    BY <2>1, <2>3 DEF Reaches
<1> QED
  BY <1>3, <1>4, <1>5, <1>6

\* A process that takes another name stays no longer; the tree is as it was.
LEMMA ExecInvariant == ScanIInv /\ Exec => ScanIInv'
<1> SUFFICES ASSUME ScanIInv, Exec
             PROVE  ScanIInv'
  OBVIOUS
<1> USE ScanConstantsAssumption DEF ScanIInv
<1>1. PICK p \in InUse \ {Wrap} :
        /\ comm' = [comm EXCEPT ![p] = IF @ = "helper" THEN "agent" ELSE "helper"]
        /\ steady' = steady \ {p}
        /\ UNCHANGED <<parent, walk>>
  BY DEF Exec
<1>2. ScanTypeOK'
  BY <1>1 DEF ScanTypeOK, walk, InUse
<1>3. Rooted' /\ StillAgents'
  BY <1>1 DEF Rooted, StillAgents, InUse, ScanTypeOK
<1>4. Found' /\ NamesAhead' /\ StableAgentIsSeen'
  BY <1>1 DEF Found, NamesAhead, StableAgentIsSeen, Walking, walk
<1>5. Reaches'
  BY <1>1 DEF Reaches, Walking, walk, Closed, InUse, Unread
<1> QED
  BY <1>2, <1>3, <1>4, <1>5

\* With a process that is gone, those below it leave the tree, and stay no longer:
\* without them the others are below what the walk has ahead.
LEMMA ExitInvariant == ScanIInv /\ Exit => ScanIInv'
<1> SUFFICES ASSUME ScanIInv, Exit
             PROVE  ScanIInv'
  OBVIOUS
<1> USE ScanConstantsAssumption DEF ScanIInv
<1>1. PICK p \in InUse \ {Wrap} :
        /\ parent' = [q \in Pids |-> IF q = p THEN Free
                                     ELSE IF parent[q] = p THEN Reaper ELSE parent[q]]
        /\ comm' = [comm EXCEPT ![p] = "helper"]
        /\ steady' = steady \ ({p} \cup Below(p))
        /\ UNCHANGED walk
  BY DEF Exit
<1>2. /\ p \in Pids /\ p \notin {Free, Reaper} /\ Reaper # Free
      /\ InUse' = InUse \ {p}
      /\ \A q \in InUse \ {p} : parent[q] # p => parent'[q] = parent[q]
  <2>1. p \in Pids /\ p \notin {Free, Reaper} /\ Reaper # Free
    BY DEF InUse, Free, Reaper
  <2>2. \A q \in Pids : parent'[q] # Free <=> q # p /\ parent[q] # Free
    BY <1>1, <2>1
  <2> QED
    BY <1>1, <2>1, <2>2 DEF InUse
<1>3. ScanTypeOK'
  BY <1>1, <1>2 DEF ScanTypeOK, walk
<1>4. Rooted'
  BY <1>1, <1>2 DEF Rooted, ScanTypeOK
<1>5. StillAgents'
  BY <1>1, <1>2 DEF StillAgents, ScanTypeOK, InUse
<1>6. Found' /\ NamesAhead' /\ StableAgentIsSeen'
  BY <1>1 DEF Found, NamesAhead, StableAgentIsSeen, Walking, walk
<1>7. Reaches'
  <2> SUFFICES ASSUME Walking, NEW set \in SUBSET Pids, Closed(set)',
                      (Elems(stack) \cup Unread)' \subseteq set
               PROVE  steady' \subseteq set \cup Elems(out)
    BY <1>1 DEF Reaches, Walking, walk
  <2> DEFINE whole == set \cup {p} \cup Below(p)
  <2>1. whole \in SUBSET Pids
    BY <1>2, BelowIsClosed DEF InUse
  <2>2. Closed(whole)
    <3> SUFFICES ASSUME NEW q \in InUse, parent[q] \in whole
                 PROVE  q \in whole
      BY DEF Closed
    <3>1. CASE q = p \/ parent[q] = p
      BY <3>1, BelowIsClosed DEF Children
    <3>2. CASE q # p /\ parent[q] # p /\ parent[q] \in set
      BY <3>2, <1>2 DEF Closed
    <3>3. CASE parent[q] \in Below(p)
      BY <3>3, BelowIsClosed DEF Closed
    <3> QED
      BY <3>1, <3>2, <3>3
  <2>3. Unread \subseteq whole
    <3> SUFFICES ASSUME phase = "read", NEW q \in listed, parent[q] = at
                 PROVE  q \in whole
      BY DEF Unread
    <3>1. q \in Pids /\ at \in Pids /\ q \in InUse
      BY DEF ScanTypeOK, InUse, Free
    <3>2. CASE q = p \/ at = p
      BY <3>1, <3>2, BelowIsClosed DEF Children
    <3>3. CASE q # p /\ at # p
      <4>1. parent'[q] = at
        BY <3>1, <3>3, <1>2
      <4> QED
        BY <4>1, <1>1 DEF Unread, walk
    <3> QED
      BY <3>2, <3>3
  <2>4. Elems(stack) \cup Unread \subseteq whole
    BY <1>1, <2>3 DEF walk
  <2>5. steady \subseteq whole \cup Elems(out)
    BY <2>1, <2>2, <2>4 DEF Reaches
  <2> QED
    BY <2>5, <1>1
<1> QED
  BY <1>3, <1>4, <1>5, <1>6, <1>7

----------------------------------------------------------------------------
(* The look: the walk. *)

\* What only depends on the table and on those who stay.
LEMMA SameTable ==
  ASSUME ScanIInv, UNCHANGED <<table, steady>>
  PROVE  /\ Rooted' /\ StillAgents'
         /\ InUse' = InUse
         /\ \A set : Closed(set)' <=> Closed(set)
BY DEF ScanIInv, table, Rooted, StillAgents, InUse, Closed

\* A walk begins with the wrap ahead, which all agents of its tree are below.
LEMMA BeginInvariant == ScanIInv /\ Begin => ScanIInv'
<1> SUFFICES ASSUME ScanIInv, Begin
             PROVE  ScanIInv'
  OBVIOUS
<1> USE ScanConstantsAssumption DEF ScanIInv, Begin
<1>1. InUse' = InUse /\ Rooted'
  BY DEF InUse, table, Rooted
<1>2. <<Wrap>> \in Seq(Pids) /\ Len(<<Wrap>>) = 1 /\ Elems(<<Wrap>>) = {Wrap}
  BY DEF Elems
<1>3. steady' \subseteq InUse
  BY BelowIsClosed
<1>4. ScanTypeOK'
  BY <1>1, <1>2, <1>3, EmptyElems DEF ScanTypeOK, table
<1>5. StillAgents'
  BY <1>1, <1>3 DEF StillAgents, table
<1>6. Found' /\ NamesAhead' /\ StableAgentIsSeen'
  BY <1>2 DEF Found, NamesAhead, StableAgentIsSeen
<1>7. Reaches'
  <2> SUFFICES ASSUME NEW set \in SUBSET Pids, Closed(set), Wrap \in set
               PROVE  steady' \subseteq set
    BY <1>1, <1>2 DEF Reaches, Closed, table
  <2> QED
    BY BelowIsLeast
<1> QED
  BY <1>1, <1>4, <1>5, <1>6, <1>7

\* The number that is visited is replaced by its children, none of which is read yet.
LEMMA VisitInvariant == ScanIInv /\ Visit => ScanIInv'
<1> SUFFICES ASSUME ScanIInv, Visit
             PROVE  ScanIInv'
  OBVIOUS
<1> USE ScanConstantsAssumption DEF ScanIInv, Visit
<1> DEFINE top == Last(stack)
<1>1. /\ Rooted' /\ StillAgents' /\ InUse' = InUse
      /\ \A set : Closed(set)' <=> Closed(set)
  BY SameTable
<1>2. /\ top \in Pids /\ Front(stack) \in Seq(Pids)
      /\ Len(Front(stack)) = Len(stack) - 1
      /\ Elems(stack) = Elems(Front(stack)) \cup {top}
  BY LastElems DEF ScanTypeOK
<1>3. ScanTypeOK'
  <2>1. Len(stack) \in Nat /\ Len(out) \in Nat /\ Len(stack) <= Len(out) + 1
    BY LenProperties DEF ScanTypeOK
  <2>2. visits + 1 \in 0 .. Guard
    BY DEF ScanTypeOK
  <2> QED
    BY <1>1, <1>2, <2>1, <2>2 DEF ScanTypeOK, table, InUse
<1>4. Found' /\ NamesAhead' /\ StableAgentIsSeen'
  BY <1>2 DEF Found, NamesAhead, StableAgentIsSeen, Walking
<1>5. Reaches'
  <2> SUFFICES ASSUME NEW set \in SUBSET Pids, Closed(set)',
                      (Elems(stack) \cup Unread)' \subseteq set
               PROVE  steady \subseteq set \cup Elems(out)
    BY DEF Reaches
  <2>1. \A q \in InUse \ {top} : parent[q] = top => q \in set
    BY DEF Unread, table
  <2>2. Closed(set \cup {top})
    BY <1>1, <2>1 DEF Closed
  <2>3. Elems(stack) \cup Unread \subseteq set \cup {top}
    BY <1>2 DEF Unread
  <2>4. steady \subseteq set \cup {top} \cup Elems(out)
    BY <1>2, <2>2, <2>3 DEF Reaches, Walking
  <2>5. top \in Elems(out) \/ top \notin steady
    BY <1>2 DEF Found, Walking, Rooted, StillAgents
  <2> QED
    BY <2>4, <2>5
<1> QED
  BY <1>1, <1>3, <1>4, <1>5

\* A child that is read is found and goes on the stack; any other is no child.
LEMMA ReadStatInvariant == ScanIInv /\ ReadStat => ScanIInv'
<1> SUFFICES ASSUME ScanIInv, ReadStat
             PROVE  ScanIInv'
  OBVIOUS
<1> USE ScanConstantsAssumption DEF ScanIInv
<1>1. PICK p \in listed :
        /\ listed' = listed \ {p}
        /\ IF parent[p] = at
             THEN out' = Append(out, p) /\ stack' = Append(stack, p)
             ELSE UNCHANGED <<out, stack>>
  BY DEF ReadStat
<1>2. phase = "read" /\ UNCHANGED <<table, phase, visits, at, steady>> /\ p \in Pids
  BY DEF ReadStat, ScanTypeOK
<1>3. /\ Rooted' /\ StillAgents' /\ InUse' = InUse
      /\ \A set : Closed(set)' <=> Closed(set)
  BY <1>2, SameTable
<1>4. NamesAhead' /\ StableAgentIsSeen'
  BY <1>2 DEF NamesAhead, StableAgentIsSeen
<1>5. CASE parent[p] = at
  <2>1. /\ out' \in Seq(Pids) /\ Len(out') = Len(out) + 1
        /\ Elems(out') = Elems(out) \cup {p}
        /\ stack' \in Seq(Pids) /\ Len(stack') = Len(stack) + 1
        /\ Elems(stack') = Elems(stack) \cup {p}
    <3>1. stack \in Seq(Pids) /\ out \in Seq(Pids)
      BY DEF ScanTypeOK
    <3> QED
      BY <1>1, <1>2, <1>5, <3>1, AppendElems
  <2>2. Unread \subseteq Unread' \cup {p}
    BY <1>1, <1>2 DEF Unread, table
  <2>3. ScanTypeOK'
    <3>1. Len(stack) \in Nat /\ Len(out) \in Nat /\ Len(stack) <= Len(out) + 1
      BY <1>2, LenProperties DEF ScanTypeOK
    <3>2. Len(stack') <= Len(out') + 1
      BY <2>1, <3>1
    <3> QED
      BY <1>1, <1>2, <1>3, <2>1, <3>2 DEF ScanTypeOK, table
  <2>4. Found'
    BY <1>2, <2>1 DEF Found, Walking
  <2>5. Reaches'
    <3> SUFFICES ASSUME NEW set \in SUBSET Pids, Closed(set)',
                        (Elems(stack) \cup Unread)' \subseteq set
                 PROVE  steady \subseteq set \cup Elems(out')
      BY <1>2 DEF Reaches
    <3>1. Elems(stack) \cup Unread \subseteq set
      BY <2>1, <2>2
    <3> QED
      BY <1>2, <1>3, <2>1, <3>1 DEF Reaches, Walking
  <2> QED
    BY <1>3, <1>4, <2>3, <2>4, <2>5
<1>6. CASE parent[p] # at
  <2>1. Unread' = Unread
    BY <1>1, <1>2, <1>6 DEF Unread, table
  <2>2. ScanTypeOK'
    BY <1>1, <1>2, <1>3, <1>6 DEF ScanTypeOK, table
  <2>3. Found'
    BY <1>1, <1>2, <1>6 DEF Found, Walking
  <2>4. Reaches'
    BY <1>1, <1>2, <1>3, <1>6, <2>1 DEF Reaches, Walking
  <2> QED
    BY <1>3, <1>4, <2>2, <2>3, <2>4
<1> QED
  BY <1>5, <1>6

\* All of a listing has been read: nothing of it is ahead.
LEMMA VisitedInvariant == ScanIInv /\ Visited => ScanIInv'
<1> SUFFICES ASSUME ScanIInv, Visited
             PROVE  ScanIInv'
  OBVIOUS
<1> USE ScanConstantsAssumption DEF ScanIInv, Visited
<1>1. /\ Rooted' /\ StillAgents' /\ InUse' = InUse
      /\ \A set : Closed(set)' <=> Closed(set)
  BY SameTable
<1>2. ScanTypeOK'
  BY <1>1 DEF ScanTypeOK, table
<1>3. Found' /\ NamesAhead' /\ StableAgentIsSeen'
  BY DEF Found, NamesAhead, StableAgentIsSeen, Walking
<1>4. Unread = {} /\ Unread' = {}
  BY DEF Unread
<1>5. Reaches'
  BY <1>1, <1>4 DEF Reaches, Walking
<1> QED
  BY <1>1, <1>2, <1>3, <1>5

\* With nothing ahead, all who stay have been found.
LEMMA CollectedInvariant == ScanIInv /\ Collected => ScanIInv'
<1> SUFFICES ASSUME ScanIInv, Collected
             PROVE  ScanIInv'
  OBVIOUS
<1> USE ScanConstantsAssumption DEF ScanIInv, Collected
<1>1. /\ Rooted' /\ StillAgents' /\ InUse' = InUse
  BY SameTable
<1>2. ScanTypeOK'
  BY <1>1 DEF ScanTypeOK, table
<1>3. Found' /\ Reaches' /\ StableAgentIsSeen'
  BY DEF Found, Reaches, StableAgentIsSeen, Walking
<1>4. NamesAhead'
  <2> SUFFICES ASSUME stack = <<>>
               PROVE  steady \subseteq Elems(out)
    BY DEF NamesAhead
  <2>1. Elems(stack) \cup Unread = {} /\ Closed({})
    BY EmptyElems DEF Unread, Closed
  <2> QED
    BY <2>1 DEF Reaches, Walking
<1> QED
  BY <1>1, <1>2, <1>3, <1>4

\* One whose name is a helper's does not stay an agent.
LEMMA ReadCommInvariant == ScanIInv /\ ReadComm => ScanIInv'
<1> SUFFICES ASSUME ScanIInv, ReadComm
             PROVE  ScanIInv'
  OBVIOUS
<1> USE ScanConstantsAssumption DEF ScanIInv, ReadComm
<1>1. /\ Rooted' /\ StillAgents' /\ InUse' = InUse
  BY SameTable
<1>2. /\ Head(out) \in Pids /\ Tail(out) \in Seq(Pids)
      /\ Elems(out) = Elems(Tail(out)) \cup {Head(out)}
  BY HeadElems DEF ScanTypeOK
<1>3. CASE Head(out) \notin InUse \/ comm[Head(out)] = "agent"
  BY <1>1, <1>3, EmptyElems
  DEF ScanTypeOK, table, Found, Reaches, NamesAhead, StableAgentIsSeen, Walking
<1>4. CASE ~(Head(out) \notin InUse \/ comm[Head(out)] = "agent")
  <2>1. ScanTypeOK'
    BY <1>1, <1>2, <1>4 DEF ScanTypeOK, table
  <2>2. Found' /\ Reaches' /\ StableAgentIsSeen'
    BY <1>4 DEF Found, Reaches, StableAgentIsSeen, Walking
  <2>3. NamesAhead'
    BY <1>2, <1>4 DEF NamesAhead, StillAgents
  <2> QED
    BY <1>1, <2>1, <2>2, <2>3
<1> QED
  BY <1>3, <1>4

\* No name was an agent's, so none stayed.
LEMMA NoneLeftInvariant == ScanIInv /\ NoneLeft => ScanIInv'
<1> SUFFICES ASSUME ScanIInv, NoneLeft
             PROVE  ScanIInv'
  OBVIOUS
<1> USE ScanConstantsAssumption DEF ScanIInv, NoneLeft
<1>1. /\ Rooted' /\ StillAgents' /\ InUse' = InUse
  BY SameTable
<1>2. ScanTypeOK'
  BY <1>1 DEF ScanTypeOK, table
<1>3. Found' /\ Reaches' /\ NamesAhead'
  BY DEF Found, Reaches, NamesAhead, Walking
<1>4. StableAgentIsSeen'
  BY EmptyElems DEF NamesAhead, StableAgentIsSeen
<1> QED
  BY <1>1, <1>2, <1>3, <1>4

----------------------------------------------------------------------------
(* The look: theorems. *)

\* Every step keeps the invariant.
LEMMA ScanStepInvariant == ScanIInv /\ [ScanNext]_scanVars => ScanIInv'
<1>1. ASSUME ScanIInv, UNCHANGED scanVars
      PROVE  ScanIInv'
  <2>1. Rooted' /\ StillAgents' /\ Found' /\ Reaches' /\ NamesAhead' /\ StableAgentIsSeen'
    BY <1>1 DEF ScanIInv, scanVars, table, walk, Rooted, StillAgents, InUse, Found,
                Reaches, Closed, Unread, Walking, NamesAhead, StableAgentIsSeen
  <2>2. ScanTypeOK'
    BY <1>1 DEF ScanIInv, scanVars, table, walk, ScanTypeOK, InUse
  <2> QED
    BY <2>1, <2>2 DEF ScanIInv
<1> QED
  BY <1>1, ForkInvariant, ExecInvariant, ExitInvariant, BeginInvariant, VisitInvariant,
     ReadStatInvariant, VisitedInvariant, CollectedInvariant, ReadCommInvariant,
     NoneLeftInvariant
  DEF ScanNext, Walk

\* The inductive invariant is one.
LEMMA ScanInvariant == ScanSpec => []ScanIInv
<1> QED
  BY ScanInitInvariant, ScanStepInvariant, PTL DEF ScanSpec

\* Every variable of a walk (run.rs, wrap_tree_has_agent) holds a value that the code
\* can give it: the stack never has more than was found and the wrap.
THEOREM ScanTypeCorrect == ScanSpec => []ScanTypeOK
<1>1. ScanIInv => ScanTypeOK
  BY DEF ScanIInv
<1> QED
  BY <1>1, ScanInvariant, PTL

\* A walk that gets to its end and sees no agent (run.rs, wrap_tree_has_agent) is right
\* about all who stayed where they were, whatever processes were forked, changed their
\* names or died while it read /proc.
THEOREM StableIsSeen == ScanSpec => []StableAgentIsSeen
<1>1. ScanIInv => StableAgentIsSeen
  BY DEF ScanIInv
<1> QED
  BY <1>1, ScanInvariant, PTL
=============================================================================
