--------------------------- MODULE RunStore_proofs ---------------------------
(***************************************************************************)
(* Theorems about RunStore, for any number of processes and clients, any   *)
(* number of suffixes and retries, and any number of runs that prune keeps.*)
(*                                                                         *)
(* A prune removes only what Keep newer runs outlive, whoever draws which  *)
(* id (Spared).  What is closed stays closed until it is pruned, and so is *)
(* listed, unless two processes took its id at a time (Alone): a process   *)
(* then has the id to itself from the look that finds it vacant to its     *)
(* last save (NothingFinalIsWritten).  Nothing is assumed of the draws.    *)
(***************************************************************************)
EXTENDS RunStore, FiniteSetTheorems, WellFoundedInduction, TLAPS

\* At least Keep runs in the store are newer.
NewerThan(id) == {n \in Present : n > id}
IsSpared(id)  == Cardinality(NewerThan(id)) >= Keep

----------------------------------------------------------------------------
(* The inductive invariant. *)

\* Only the closing save, which ends a run, may exceed the bound on saves; a process that
\* has begun a run has an id.
WritersSound ==
  \A p \in Procs :
    /\ writer[p].at # "idle" => writer[p].id \in Ids
    /\ ~writer[p].closing => writer[p].saves <= MaxSaves
    /\ writer[p].at = "running" => ~writer[p].closing

\* What a client has listed is there or was removed with Keep newer ones left, and so
\* is what it is about to remove.
Spared ==
  \A c \in Clients :
    /\ \A id \in client[c].listed : id \in Present \/ IsSpared(id)
    /\ \A id \in client[c].victims : IsSpared(id)

\* Processes that work under one id at a time share it.
Alone ==
  \A p, q \in Procs :
    /\ p # q
    /\ writer[p].at \in Holding /\ writer[q].at \in Holding
    /\ writer[p].id = writer[q].id
    => writer[p].id \in shared

\* From its look at a vacant id to its last save, a process that does not share the id
\* has no closed record there.
NothingFinalIsWritten ==
  \A p \in Procs :
    writer[p].id \in Ids \ shared /\ writer[p].at \in Holding =>
      slot[writer[p].id].state # "final"

\* What was closed when a client began is closed, unless it is pruned or shared.
ClosedStays ==
  \A c \in Clients : \A id \in client[c].closed \ (pruned \cup shared) :
    id \in client[c].entries /\ slot[id].state = "final"

\* A scan lists what it has read of that.
ScanLists ==
  \A c \in Clients :
    /\ client[c].at = "idle" => client[c].seen = {}
    /\ (client[c].closed \ (pruned \cup shared)) \cap client[c].seen
         \subseteq client[c].listed

\* The target is the newest of the list, and no older than what was closed.
TargetIsFirst ==
  \A c \in Clients :
    /\ client[c].at \in {"idle", "scan", "remove"} => client[c].target = NoId
    /\ client[c].at = "load" => \A id \in client[c].listed : id <= client[c].target
    /\ client[c].at = "done" /\ client[c].target # NoId =>
         \A id \in client[c].closed \ (pruned \cup shared) : id <= client[c].target

\* The part about closed records.
IInv ==
  /\ Alone
  /\ NothingFinalIsWritten
  /\ ClosedStays
  /\ ScanLists
  /\ ListIsComplete
  /\ TargetIsFirst

----------------------------------------------------------------------------
(* Numbers and sets of them. *)

Less == {pair \in Nat \X Nat : pair[1] < pair[2]}

\* A set of natural numbers that is not empty has a least element.
LEMMA LeastNumber ==
  ASSUME NEW T \in SUBSET Nat, T # {}
  PROVE  \E x \in T : \A y \in T : x <= y
<1>1. IsWellFoundedOn(Less, Nat)
  BY NatLessThanWellFounded DEF OpToRel, Less
<1>2. T \subseteq Nat
  OBVIOUS
<1>3. PICK x \in T : \A y \in T : ~(<<y, x>> \in Less)
  BY <1>1, <1>2, WFMin
<1>4. ASSUME NEW y \in T PROVE x <= y
  <2>1. x \in Nat /\ y \in Nat /\ ~(<<y, x>> \in Less)
    BY <1>2, <1>3
  <2> QED
    BY <2>1 DEF Less
<1> QED
  BY <1>4

\* Max, of a set that is not empty and has a bound.
LEMMA GreatestNumber ==
  ASSUME NEW n \in Nat, NEW T \in SUBSET (0 .. n), T # {}
  PROVE  Max(T) \in T /\ \A y \in T : y <= Max(T)
<1> DEFINE U == {n - x : x \in T}
<1>1. U \in SUBSET Nat /\ U # {}
  <2>1. \A x \in T : n - x \in Nat
    OBVIOUS
  <2>2. \E x \in T : n - x \in U
    OBVIOUS
  <2> QED
    BY <2>1, <2>2
<1>2. PICK u \in U : \A y \in U : u <= y
  BY <1>1, LeastNumber
<1>3. PICK x \in T : u = n - x
  BY <1>2
<1>4. ASSUME NEW y \in T PROVE x >= y
  <2>1. u <= n - y
    BY <1>2
  <2> QED
    BY <1>3, <2>1
<1>5. Max(T) \in T /\ \A y \in T : Max(T) >= y
  BY <1>4 DEF Max
<1> QED
  BY <1>5

\* A product is monotonic in the second.
LEMMA ProductMonotonic ==
  ASSUME NEW a \in Nat, NEW b \in Nat, NEW s \in Nat \ {0}, a <= b
  PROVE  a * s <= b * s
OBVIOUS

\* The second of an id never decreases with the id.
LEMMA SecondMonotonic ==
  ASSUME NEW a \in Nat, NEW b \in Nat, NEW s \in Nat \ {0}, a <= b
  PROVE  a \div s <= b \div s
OBVIOUS

\* Every id is a number with a bound; there are finitely many.
LEMMA IdsFinite ==
  /\ Ids \subseteq Nat
  /\ (MaxClock + 1) * Suffixes - 1 \in Nat
  /\ Ids = 0 .. (MaxClock + 1) * Suffixes - 1
  /\ IsFiniteSet(Ids)
  /\ NoId \notin Ids
<1>1. MaxClock + 1 \in Nat \ {0} /\ Suffixes \in Nat \ {0}
  BY ConstantsAssumption
<1>2. (MaxClock + 1) * Suffixes \in Nat \ {0}
  <2>1. 1 * Suffixes <= (MaxClock + 1) * Suffixes
    BY <1>1, ProductMonotonic
  <2> QED
    BY <1>1, <2>1
<1>3. (MaxClock + 1) * Suffixes - 1 \in Nat
  BY <1>2
<1> QED
  BY <1>3, FS_Interval DEF Ids, NoId

\* An id that is generated is an id.
LEMMA GenerateTyped ==
  ASSUME clock \in 0 .. MaxClock, NEW p \in Procs
  PROVE  Generate(p) \subseteq Ids
<1> SUFFICES ASSUME NEW s \in Draws[p]
             PROVE  clock * Suffixes + s \in Ids
  BY DEF Generate
<1>1. s \in 0 .. Suffixes - 1 /\ Suffixes \in Nat \ {0} /\ MaxClock \in Nat
  BY ConstantsAssumption
<1>2. clock * Suffixes <= MaxClock * Suffixes
  BY <1>1, ProductMonotonic
<1>3. (MaxClock + 1) * Suffixes = MaxClock * Suffixes + Suffixes
  BY <1>1
<1>4. clock * Suffixes \in Nat /\ MaxClock * Suffixes \in Nat
  BY <1>1
<1> QED
  BY <1>1, <1>2, <1>3, <1>4 DEF Ids

----------------------------------------------------------------------------
(* Types. *)

WriterStates ==
  [at : WriterAt, id : Ids \cup {NoId}, tries : 0 .. MaxRetries,
   saves : 0 .. MaxSaves + 1, closing : BOOLEAN]

ClientStates ==
  [at : ClientAt, op : Ops \cup {"none"}, entries : SUBSET Ids, seen : SUBSET Ids,
   listed : SUBSET Ids, victims : SUBSET Ids, target : Ids \cup {NoId},
   closed : SUBSET Ids]

SlotStates == [state : Contents, by : Procs \cup {Nobody}]

\* TypeOK, with names for what its functions return.
LEMMA TypeParts ==
  TypeOK <=> /\ clock \in 0 .. MaxClock
             /\ slot \in [Ids -> SlotStates]
             /\ writer \in [Procs -> WriterStates]
             /\ client \in [Clients -> ClientStates]
             /\ pruned \subseteq Ids
             /\ shared \subseteq Ids
             /\ actors \in 0 .. MaxActors
BY DEF TypeOK, WriterStates, ClientStates, SlotStates

\* The bounds, one by one.
LEMMA Bounds ==
  /\ MaxRetries \in Nat /\ Keep \in Nat /\ MaxClock \in Nat
  /\ MaxActors \in Nat /\ MaxSaves \in Nat
BY ConstantsAssumption

\* The initial states are typed.
LEMMA InitTyped == Init => TypeOK /\ WritersSound
<1> SUFFICES ASSUME Init PROVE TypeOK /\ WritersSound
  OBVIOUS
<1> USE Bounds DEF Init
<1>0. clock \in 0 .. MaxClock /\ actors \in 0 .. MaxActors /\ pruned \subseteq Ids
      /\ shared \subseteq Ids
  OBVIOUS
<1>1. slot \in [Ids -> SlotStates]
  BY DEF SlotStates, Contents, Absent
<1>2. writer \in [Procs -> WriterStates]
  BY DEF WriterStates, WriterAt
<1>3. client \in [Clients -> ClientStates]
  BY DEF ClientStates, ClientAt
<1>4. WritersSound
  BY DEF WritersSound
<1> QED
  BY <1>0, <1>1, <1>2, <1>3, <1>4, TypeParts

\* No step takes a variable out of its type.
LEMMA TypeStep == TypeOK /\ WritersSound /\ [Next]_vars => TypeOK' /\ WritersSound'
<1> SUFFICES ASSUME TypeOK, WritersSound, [Next]_vars PROVE TypeOK' /\ WritersSound'
  OBVIOUS
<1>0. SUFFICES /\ clock' \in 0 .. MaxClock
               /\ slot' \in [Ids -> SlotStates]
               /\ writer' \in [Procs -> WriterStates]
               /\ client' \in [Clients -> ClientStates]
               /\ pruned' \subseteq Ids
               /\ shared' \subseteq Ids
               /\ actors' \in 0 .. MaxActors
               /\ WritersSound'
  BY DEF TypeOK, WriterStates, ClientStates, SlotStates
<1> DEFINE Typed == /\ clock' \in 0 .. MaxClock
                    /\ slot' \in [Ids -> SlotStates]
                    /\ writer' \in [Procs -> WriterStates]
                    /\ client' \in [Clients -> ClientStates]
                    /\ pruned' \subseteq Ids
                    /\ shared' \subseteq Ids
                    /\ actors' \in 0 .. MaxActors
                    /\ WritersSound'
<1> USE Bounds, TypeParts DEF WritersSound
<1>1. CASE Tick
  BY <1>1 DEF Tick
<1>2. ASSUME NEW p \in Procs, Start(p) PROVE Typed
  <2>1. PICK id \in Generate(p) :
          writer' = [writer EXCEPT ![p] = [at |-> "check", id |-> id, tries |-> 0,
                                           saves |-> 0, closing |-> FALSE]]
    BY <1>2 DEF Start
  <2>2. id \in Ids
    BY GenerateTyped
  <2>3. writer' \in [Procs -> WriterStates] /\ WritersSound'
    BY <2>1, <2>2 DEF WriterStates, WriterAt
  <2> QED
    BY <1>2, <2>3 DEF Start
<1>3. ASSUME NEW p \in Procs, Taken(p) PROVE Typed
  <2>1. PICK id \in Generate(p) :
          writer' = [writer EXCEPT ![p].id = id, ![p].tries = @ + 1]
    BY <1>3 DEF Taken
  <2>2. id \in Ids
    BY GenerateTyped
  <2>3. writer' \in [Procs -> WriterStates] /\ WritersSound'
    BY <1>3, <2>1, <2>2 DEF Taken, WriterStates
  <2> QED
    BY <1>3, <2>3 DEF Taken
<1>4. ASSUME NEW p \in Procs, GiveUp(p) PROVE Typed
  BY <1>4 DEF GiveUp, WriterStates, WriterAt
<1>5. ASSUME NEW p \in Procs, Vacant(p) PROVE Typed
  <2>1. "mkdir" \in WriterAt /\ 0 \in 0 .. MaxRetries
    BY DEF WriterAt
  <2>4. shared' \subseteq Ids
    BY <1>5 DEF Vacant, WriterStates
  <2>2. writer' \in [Procs -> WriterStates]
    BY <1>5, <2>1 DEF Vacant, WriterStates
  <2>3. WritersSound'
    BY <1>5, <2>1 DEF Vacant, WriterStates
  <2> QED
    BY <1>5, <2>2, <2>3, <2>4 DEF Vacant
<1>6. ASSUME NEW p \in Procs, MakeDir(p) PROVE Typed
  <2>1. writer' \in [Procs -> WriterStates] /\ WritersSound'
    BY <1>6 DEF MakeDir, WriterStates, WriterAt
  <2>2. [state |-> "bare", by |-> p] \in SlotStates
    BY DEF SlotStates, Contents
  <2>3. slot' \in [Ids -> SlotStates]
    BY <1>6, <2>2 DEF MakeDir
  <2> QED
    BY <1>6, <2>1, <2>3 DEF MakeDir
<1>7. ASSUME NEW p \in Procs, Truncate(p) PROVE Typed
  <2>1. writer' \in [Procs -> WriterStates] /\ WritersSound'
    <3>1. CASE Exists(p)
      BY <1>7, <3>1 DEF Truncate, WriterStates, WriterAt
    <3>2. CASE ~Exists(p)
      BY <1>7, <3>2 DEF Truncate, WriterStates, WriterAt
    <3> QED
      BY <3>1, <3>2
  <2>2. [state |-> "torn", by |-> p] \in SlotStates
    BY DEF SlotStates, Contents
  <2>3. slot' \in [Ids -> SlotStates]
    BY <1>7, <2>2 DEF Truncate
  <2> QED
    BY <1>7, <2>1, <2>3 DEF Truncate
<1>8. ASSUME NEW p \in Procs, Write(p) PROVE Typed
  <2>1. writer' \in [Procs -> WriterStates] /\ WritersSound'
    BY <1>8 DEF Write, WriterStates, WriterAt
  <2>2. \A state \in {"open", "final", "mixed"} : [state |-> state, by |-> p] \in SlotStates
    BY DEF SlotStates, Contents
  <2>3. slot' \in [Ids -> SlotStates]
    <3>1. CASE writer[p].at = "write"
      <4>1. PICK state \in {"open", "final", "mixed"} :
              slot' = [slot EXCEPT ![writer[p].id] = [state |-> state, by |-> p]]
        BY <1>8, <3>1 DEF Write
      <4> QED
        BY <2>2, <4>1
    <3>2. CASE writer[p].at # "write"
      BY <1>8, <3>2 DEF Write
    <3> QED
      BY <3>1, <3>2
  <2> QED
    BY <1>8, <2>1, <2>3 DEF Write
<1>9. ASSUME NEW p \in Procs, Save(p) PROVE Typed
  BY <1>9 DEF Save, WriterStates, WriterAt
<1>10. ASSUME NEW p \in Procs, Crash(p) PROVE Typed
  BY <1>10 DEF Crash, Holding, WriterStates, WriterAt
<1>11. ASSUME NEW c \in Clients, Begin(c) PROVE Typed
  <2>1. Present \subseteq Ids /\ Closed \subseteq Ids
    BY DEF Present, Closed
  <2>2. client' \in [Clients -> ClientStates]
    <3>1. PICK op \in Ops :
            client' = [client EXCEPT ![c].at = "scan", ![c].op = op, ![c].entries = Present,
                                     ![c].closed = Closed]
      BY <1>11 DEF Begin
    <3>2. "scan" \in ClientAt /\ op \in Ops \cup {"none"}
      BY DEF ClientAt
    <3>3. client[c] \in ClientStates
      OBVIOUS
    <3>4. [client[c] EXCEPT !.at = "scan", !.op = op, !.entries = Present,
                            !.closed = Closed] \in ClientStates
      BY <2>1, <3>2, <3>3 DEF ClientStates
    <3> QED
      BY <3>1, <3>4
  <2>3. actors' \in 0 .. MaxActors
    BY <1>11 DEF Begin
  <2> QED
    BY <1>11, <2>2, <2>3 DEF Begin
<1>12. ASSUME NEW c \in Clients, ReadEntry(c) PROVE Typed
  <2>1. Present \subseteq Ids
    BY DEF Present
  <2>2. client' \in [Clients -> ClientStates]
    <3>1. PICK id \in Present :
            client' = [client EXCEPT
                         ![c].seen = @ \cup {id},
                         ![c].listed = IF Listable(slot[id].state) THEN @ \cup {id} ELSE @]
      BY <1>12 DEF ReadEntry
    <3>2. client[c] \in ClientStates
      OBVIOUS
    <3>3. [client[c] EXCEPT !.seen = @ \cup {id},
                            !.listed = IF Listable(slot[id].state) THEN @ \cup {id} ELSE @]
            \in ClientStates
      BY <2>1, <3>2 DEF ClientStates
    <3> QED
      BY <3>1, <3>3
  <2> QED
    BY <1>12, <2>2 DEF ReadEntry
<1>13. ASSUME NEW c \in Clients, EndScan(c) PROVE Typed
  <2> DEFINE me == client[c]
  <2>1. me \in ClientStates
    OBVIOUS
  <2>2. me.listed \subseteq Ids /\ Victims(me.listed) \subseteq Ids
    BY <2>1 DEF ClientStates, Victims
  <2>3. me.listed # {} => First(me.listed) \in Ids
    BY <2>2, IdsFinite, GreatestNumber DEF First
  <2>4. client' \in [Clients -> ClientStates]
    <3>1. CASE me.op = "latest" /\ me.listed # {}
      BY <1>13, <2>1, <2>3, <3>1 DEF EndScan, ClientStates, ClientAt
    <3>2. CASE me.op = "prune"
      BY <1>13, <2>1, <2>2, <3>2 DEF EndScan, ClientStates, ClientAt
    <3>3. CASE ~(me.op = "latest" /\ me.listed # {}) /\ me.op # "prune"
      BY <1>13, <2>1, <3>3 DEF EndScan, ClientStates, ClientAt
    <3> QED
      BY <3>1, <3>2, <3>3
  <2> QED
    BY <1>13, <2>4 DEF EndScan
<1>14. ASSUME NEW c \in Clients, Load(c) PROVE Typed
  <2>1. "done" \in ClientAt
    BY DEF ClientAt
  <2>2. client' \in [Clients -> ClientStates]
    <3>1. client[c] \in ClientStates
      OBVIOUS
    <3>2. [client[c] EXCEPT !.at = "done",
             !.target = IF slot[@].state \in Whole THEN @ ELSE NoId] \in ClientStates
      BY <2>1, <3>1 DEF ClientStates
    <3> QED
      BY <1>14, <3>2 DEF Load
  <2> QED
    BY <1>14, <2>2 DEF Load
<1>15. ASSUME NEW c \in Clients, Remove(c) PROVE Typed
  <2>1. client' \in [Clients -> ClientStates]
    BY <1>15 DEF Remove, ClientStates
  <2>2. Absent \in SlotStates /\ Present \subseteq Ids
    BY DEF Absent, SlotStates, Contents, Present
  <2>3. slot' \in [Ids -> SlotStates] /\ pruned' \subseteq Ids
    BY <1>15, <2>2 DEF Remove
  <2>4. "unlinked" \in WriterAt
    BY DEF WriterAt
  <2>5. writer' \in [Procs -> WriterStates] /\ WritersSound'
    BY <1>15, <2>4 DEF Remove, WriterStates
  <2> QED
    BY <1>15, <2>1, <2>3, <2>5 DEF Remove
<1>16. ASSUME NEW c \in Clients, EndPrune(c) PROVE Typed
  BY <1>16 DEF EndPrune, ClientStates, ClientAt
<1>17. CASE UNCHANGED vars
  BY <1>17 DEF vars
<1> QED
  BY <1>1, <1>2, <1>3, <1>4, <1>5, <1>6, <1>7, <1>8, <1>9, <1>10, <1>11, <1>12,
     <1>13, <1>14, <1>15, <1>16, <1>17 DEF Next, Writing

\* Every variable of the store always holds a value of its type, for any number of
\* processes: in particular an id is always one that can be told apart as a string.
THEOREM TypeCorrect == Spec => []TypeOK
<1>1. Init => TypeOK /\ WritersSound
  BY InitTyped
<1>2. TypeOK /\ WritersSound /\ [Next]_vars => TypeOK' /\ WritersSound'
  BY TypeStep
<1> QED
  BY <1>1, <1>2, PTL DEF Spec

----------------------------------------------------------------------------
(* Pruning. *)

\* What is in the store is a finite set, now and after a step.
LEMMA StoreFinite ==
  /\ Present \subseteq Ids /\ Present' \subseteq Ids
  /\ \A S \in SUBSET Ids : IsFiniteSet(S) /\ Cardinality(S) \in Nat
  /\ \A S, T \in SUBSET Ids : S \subseteq T => Cardinality(S) <= Cardinality(T)
<1>1. Present \subseteq Ids /\ Present' \subseteq Ids
  BY DEF Present
<1>2. \A S \in SUBSET Ids : IsFiniteSet(S) /\ Cardinality(S) \in Nat
  BY IdsFinite, FS_Subset, FS_CardinalityType
<1>3. \A S, T \in SUBSET Ids : S \subseteq T => Cardinality(S) <= Cardinality(T)
  BY <1>2, FS_Subset
<1> QED
  BY <1>1, <1>2, <1>3

\* Only a removal takes a run out of the store.
LEMMA StoreGrows ==
  ASSUME TypeOK, [Next]_vars, \A c \in Clients : ~Remove(c)
  PROVE  Present \subseteq Present'
<1> USE DEF Present
<1>1. CASE Tick
  BY <1>1 DEF Tick
<1>2. ASSUME NEW p \in Procs, Start(p) PROVE Present \subseteq Present'
  BY <1>2 DEF Start
<1>3. ASSUME NEW p \in Procs, Taken(p) PROVE Present \subseteq Present'
  BY <1>3 DEF Taken
<1>4. ASSUME NEW p \in Procs, GiveUp(p) PROVE Present \subseteq Present'
  BY <1>4 DEF GiveUp
<1>5. ASSUME NEW p \in Procs, Vacant(p) PROVE Present \subseteq Present'
  BY <1>5 DEF Vacant
<1>6. ASSUME NEW p \in Procs, MakeDir(p) PROVE Present \subseteq Present'
  BY <1>6 DEF MakeDir
<1>7. ASSUME NEW p \in Procs, Truncate(p) PROVE Present \subseteq Present'
  <2>1. slot \in [Ids -> SlotStates]
    BY TypeParts
  <2>2. \A id \in Ids : slot'[id] = slot[id] \/ slot'[id] = [state |-> "torn", by |-> p]
    BY <1>7, <2>1 DEF Truncate
  <2> QED
    BY <2>2
<1>8. ASSUME NEW p \in Procs, Write(p) PROVE Present \subseteq Present'
  <2>1. slot \in [Ids -> SlotStates]
    BY TypeParts
  <2>2. CASE writer[p].at = "write"
    <3>1. PICK state \in {"open", "final", "mixed"} :
            slot' = [slot EXCEPT ![writer[p].id] = [state |-> state, by |-> p]]
      BY <1>8, <2>2 DEF Write
    <3>2. \A id \in Ids : slot'[id] = slot[id] \/ slot'[id].state = state
      BY <2>1, <3>1
    <3> QED
      BY <3>2
  <2>3. CASE writer[p].at # "write"
    BY <1>8, <2>3 DEF Write
  <2> QED
    BY <2>2, <2>3
<1>9. ASSUME NEW p \in Procs, Save(p) PROVE Present \subseteq Present'
  BY <1>9 DEF Save
<1>10. ASSUME NEW p \in Procs, Crash(p) PROVE Present \subseteq Present'
  BY <1>10 DEF Crash
<1>11. ASSUME NEW c \in Clients, Begin(c) PROVE Present \subseteq Present'
  BY <1>11 DEF Begin
<1>12. ASSUME NEW c \in Clients, ReadEntry(c) PROVE Present \subseteq Present'
  BY <1>12 DEF ReadEntry
<1>13. ASSUME NEW c \in Clients, EndScan(c) PROVE Present \subseteq Present'
  BY <1>13 DEF EndScan
<1>14. ASSUME NEW c \in Clients, Load(c) PROVE Present \subseteq Present'
  BY <1>14 DEF Load
<1>15. ASSUME NEW c \in Clients, Remove(c) PROVE Present \subseteq Present'
  BY <1>15 DEF Remove
<1>16. ASSUME NEW c \in Clients, EndPrune(c) PROVE Present \subseteq Present'
  BY <1>16 DEF EndPrune
<1>17. CASE UNCHANGED vars
  BY <1>17 DEF vars
<1> QED
  BY <1>1, <1>2, <1>3, <1>4, <1>5, <1>6, <1>7, <1>8, <1>9, <1>10, <1>11, <1>12,
     <1>13, <1>14, <1>15, <1>16, <1>17 DEF Next, Writing

\* A run that is spared stays so while nothing is removed.
LEMMA SparedKept ==
  ASSUME Present \subseteq Present', NEW id, IsSpared(id)
  PROVE  IsSpared(id)'
<1>1. NewerThan(id) \subseteq NewerThan(id)'
  BY DEF NewerThan
<1>2. NewerThan(id) \in SUBSET Ids /\ NewerThan(id)' \in SUBSET Ids
  BY StoreFinite DEF NewerThan
<1>3. Cardinality(NewerThan(id)) <= Cardinality(NewerThan(id)')
  BY <1>1, <1>2, StoreFinite
<1> QED
  BY <1>2, <1>3, StoreFinite, Bounds DEF IsSpared

\* The removal of a run that is spared takes the newer runs of none away: those that
\* are newer than it are newer than whatever is older.
LEMMA RemovalSpares ==
  ASSUME NEW gone \in Ids, IsSpared(gone), Present' = Present \ {gone},
         NEW id \in Ids, IsSpared(id)
  PROVE  IsSpared(id)'
<1>1. gone \in Nat /\ id \in Nat /\ \A n \in Present : n \in Nat
  BY IdsFinite, StoreFinite
<1>2. NewerThan(id)' \in SUBSET Ids /\ NewerThan(gone) \in SUBSET Ids
  BY StoreFinite DEF NewerThan
<1>3. CASE gone <= id
  <2>1. NewerThan(id)' = NewerThan(id)
    BY <1>1, <1>3 DEF NewerThan
  <2> QED
    BY <2>1 DEF IsSpared
<1>4. CASE gone > id
  <2>1. NewerThan(gone) \subseteq NewerThan(id)'
    BY <1>1, <1>4 DEF NewerThan
  <2>2. Cardinality(NewerThan(gone)) <= Cardinality(NewerThan(id)')
    BY <1>2, <2>1, StoreFinite
  <2> QED
    BY <1>2, <2>2, StoreFinite, Bounds DEF IsSpared
<1> QED
  BY <1>1, <1>3, <1>4

\* What prune takes from its list is spared, even when other prunes have removed some
\* of the list meanwhile: the newer runs of a removed one are newer still.
LEMMA VictimsSpared ==
  ASSUME NEW listed \in SUBSET Ids, \A id \in listed : id \in Present \/ IsSpared(id),
         NEW id \in Victims(listed)
  PROVE  IsSpared(id)
<1>1. id \in Ids /\ \A n \in Ids : n \in Nat
  BY IdsFinite DEF Victims
<1> DEFINE newer == {n \in listed : n > id}
<1>2. newer \in SUBSET Ids /\ Cardinality(newer) >= Keep
  BY DEF Victims
<1>3. NewerThan(id) \in SUBSET Ids
  BY StoreFinite DEF NewerThan
<1>4. CASE newer \subseteq Present
  <2>1. newer \subseteq NewerThan(id)
    BY <1>4 DEF NewerThan
  <2>2. Cardinality(newer) <= Cardinality(NewerThan(id))
    BY <1>2, <1>3, <2>1, StoreFinite
  <2> HIDE DEF newer
  <2> QED
    BY <1>2, <1>3, <2>2, StoreFinite, Bounds DEF IsSpared
<1>5. CASE ~(newer \subseteq Present)
  <2>1. PICK n \in newer : n \notin Present
    BY <1>5
  <2>2. IsSpared(n) /\ n > id /\ n \in Ids
    BY <2>1
  <2>3. NewerThan(n) \in SUBSET Ids /\ NewerThan(n) \subseteq NewerThan(id)
    BY <1>1, <2>2, StoreFinite DEF NewerThan
  <2>4. Cardinality(NewerThan(n)) <= Cardinality(NewerThan(id))
    BY <1>3, <2>3, StoreFinite
  <2> QED
    BY <1>3, <2>2, <2>3, <2>4, StoreFinite, Bounds DEF IsSpared
<1> QED
  BY <1>4, <1>5

\* The run that is removed is the newest of the victims, and it alone.
LEMMA RemoveOne ==
  ASSUME TypeOK, NEW c \in Clients, Remove(c)
  PROVE  LET gone == Max(client[c].victims)
         IN  /\ gone \in client[c].victims /\ gone \in Ids
             /\ slot' = [slot EXCEPT ![gone] = Absent]
             /\ Present' = Present \ {gone}
             /\ gone \in Present => gone \in pruned'
<1> DEFINE gone == Max(client[c].victims)
<1>1. client[c].victims \in SUBSET Ids /\ client[c].victims # {}
  BY TypeParts DEF Remove, ClientStates
<1>2. gone \in client[c].victims
  BY <1>1, IdsFinite, GreatestNumber
<1>3. /\ gone \in Ids
      /\ slot' = [slot EXCEPT ![gone] = Absent]
      /\ pruned' = pruned \cup ({gone} \cap Present)
  BY <1>1, <1>2 DEF Remove
<1>4. Present' = Present \ {gone}
  BY <1>3, TypeParts DEF Present, Absent
<1> QED
  BY <1>2, <1>3, <1>4

\* Lists and victims are spared whatever steps are taken, by other prunes above all.
LEMMA SparedStep == TypeOK /\ Spared /\ [Next]_vars => Spared'
<1> SUFFICES ASSUME TypeOK, Spared, [Next]_vars PROVE Spared'
  OBVIOUS
<1>a. client \in [Clients -> ClientStates]
  BY TypeParts
<1>b. \A d \in Clients : client[d].listed \subseteq Ids /\ client[d].victims \subseteq Ids
  BY <1>a DEF ClientStates
<1>1. CASE \E c \in Clients : Remove(c)
  <2>1. PICK c \in Clients : Remove(c)
    BY <1>1
  <2> DEFINE gone == Max(client[c].victims)
  <2>2. /\ gone \in client[c].victims /\ gone \in Ids
        /\ Present' = Present \ {gone}
    BY <2>1, RemoveOne
  <2>3. IsSpared(gone)
    BY <2>2 DEF Spared
  <2>4. \A id \in Ids : IsSpared(id) => IsSpared(id)'
    BY <2>2, <2>3, RemovalSpares
  <2>5. \A d \in Clients : /\ client'[d].listed = client[d].listed
                           /\ client'[d].victims \subseteq client[d].victims
    BY <2>1, <1>a DEF Remove, ClientStates
  <2> HIDE DEF gone
  <2>6. \A id \in Ids : id \in Present \/ IsSpared(id) => (id \in Present \/ IsSpared(id))'
    BY <2>2, <2>3, <2>4
  <2> QED
    BY <1>b, <2>4, <2>5, <2>6 DEF Spared
<1>2. CASE \A c \in Clients : ~Remove(c)
  <2>1. Present \subseteq Present'
    BY <1>2, StoreGrows
  <2>2. \A id \in Ids : IsSpared(id) => IsSpared(id)'
    BY <2>1, SparedKept
  <2> DEFINE ListKept(d)    == \A id \in client'[d].listed :
                                 id \in client[d].listed \/ id \in Present
             VictimsKept(d) == \A id \in client'[d].victims :
                                 id \in client[d].victims \/ IsSpared(id)
  <2>3. ASSUME client' = client, NEW d \in Clients PROVE ListKept(d) /\ VictimsKept(d)
    BY <2>3
  <2>4. ASSUME NEW c \in Clients, ReadEntry(c), NEW d \in Clients
        PROVE  ListKept(d) /\ VictimsKept(d)
    BY <2>4, <1>a DEF ReadEntry, ClientStates
  <2>5. ASSUME NEW c \in Clients, EndScan(c), NEW d \in Clients
        PROVE  ListKept(d) /\ VictimsKept(d)
    <3>1. /\ client'[d].listed = client[d].listed
          /\ \/ client'[d].victims = client[d].victims
             \/ client'[d].victims = Victims(client[d].listed)
      BY <2>5, <1>a DEF EndScan, ClientStates
    <3>2. \A id \in Victims(client[d].listed) : IsSpared(id)
      BY <1>b, VictimsSpared DEF Spared
    <3> QED
      BY <3>1, <3>2
  <2>6. ASSUME NEW c \in Clients, Begin(c), NEW d \in Clients
        PROVE  ListKept(d) /\ VictimsKept(d)
    <3>1. client'[d].listed = client[d].listed /\ client'[d].victims = client[d].victims
      BY <2>6, <1>a DEF Begin, ClientStates
    <3> QED
      BY <3>1
  <2>7. ASSUME NEW c \in Clients, Load(c), NEW d \in Clients
        PROVE  ListKept(d) /\ VictimsKept(d)
    <3>1. client'[d].listed = client[d].listed /\ client'[d].victims = client[d].victims
      BY <2>7, <1>a DEF Load, ClientStates
    <3> QED
      BY <3>1
  <2>8. ASSUME NEW c \in Clients, EndPrune(c), NEW d \in Clients
        PROVE  ListKept(d) /\ VictimsKept(d)
    <3>1. client'[d].listed = client[d].listed /\ client'[d].victims = client[d].victims
      BY <2>8, <1>a DEF EndPrune, ClientStates
    <3> QED
      BY <3>1
  <2>9. ASSUME NEW p \in Procs, Start(p) \/ Writing(p) \/ Save(p) \/ Crash(p)
        PROVE  client' = client
    BY <2>9 DEF Start, Writing, Taken, GiveUp, Vacant, MakeDir, Truncate, Write, Save,
       Crash
  <2>10. (UNCHANGED vars \/ Tick) => client' = client
    BY DEF vars, Tick
  <2>11. \A d \in Clients : ListKept(d) /\ VictimsKept(d)
    <3> HIDE DEF ListKept, VictimsKept
    <3> QED
      BY <1>2, <2>3, <2>4, <2>5, <2>6, <2>7, <2>8, <2>9, <2>10 DEF Next
  <2>12. ASSUME NEW d \in Clients
         PROVE  /\ \A id \in client'[d].listed : id \in Present' \/ IsSpared(id)'
                /\ \A id \in client'[d].victims : IsSpared(id)'
    <3>1. \A id \in client[d].listed : id \in Present' \/ IsSpared(id)'
      BY <1>b, <2>1, <2>2 DEF Spared
    <3>2. \A id \in client[d].victims : IsSpared(id) /\ IsSpared(id)'
      BY <1>b, <2>2 DEF Spared
    <3>3. \A id : IsSpared(id) => IsSpared(id)'
      BY <2>1, SparedKept
    <3> QED
      BY <2>1, <2>11, <3>1, <3>2, <3>3
  <2> QED
    BY <2>12 DEF Spared
<1> QED
  BY <1>1, <1>2

\* Nothing has been listed in an initial state.
LEMMA InitSpared == Init => Spared
BY DEF Init, Spared

\* A step that removes a run leaves Keep newer ones.
LEMMA PruneStep ==
  TypeOK /\ Spared /\ [Next]_vars
    => \A id \in Present : slot'[id] = Absent =>
         Cardinality({n \in Present' : n > id}) >= Keep
<1> SUFFICES ASSUME TypeOK, Spared, [Next]_vars,
                    NEW id \in Present, slot'[id] = Absent
             PROVE  Cardinality({n \in Present' : n > id}) >= Keep
  OBVIOUS
<1>1. id \in Ids /\ id \notin Present'
  BY StoreFinite DEF Present, Absent
<1>2. PICK c \in Clients : Remove(c)
  BY <1>1, StoreGrows
<1> DEFINE gone == Max(client[c].victims)
<1>3. /\ gone \in client[c].victims /\ gone \in Ids
      /\ Present' = Present \ {gone}
  BY <1>2, RemoveOne
<1>4. id = gone /\ IsSpared(gone)
  BY <1>1, <1>3 DEF Spared
<1>5. IsSpared(id)'
  BY <1>3, <1>4, RemovalSpares
<1> QED
  BY <1>5 DEF IsSpared, NewerThan

\* However many clients prune at once, and whatever runs are made meanwhile, a prune
\* never removes one of the Keep newest runs.
THEOREM NewestSpared == Spec => PruneSparesNewest
<1>1. Init => TypeOK /\ WritersSound /\ Spared
  BY InitTyped, InitSpared
<1>2. TypeOK /\ WritersSound /\ Spared /\ [Next]_vars
        => TypeOK' /\ WritersSound' /\ Spared'
  BY TypeStep, SparedStep
<1>3. TypeOK /\ Spared /\ [Next]_vars
        => [\A id \in Present : slot'[id] = Absent =>
              Cardinality({n \in Present' : n > id}) >= Keep]_vars
  BY PruneStep
<1> QED
  BY <1>1, <1>2, <1>3, PTL DEF Spec, PruneSparesNewest

----------------------------------------------------------------------------
(* What is closed stays closed. *)

\* A step leaves a closed record as it is, or prunes it.
LEMMA FinalStep ==
  ASSUME TypeOK, NothingFinalIsWritten, [Next]_vars,
         NEW id \in Ids \ shared, slot[id].state = "final"
  PROVE  slot'[id] = slot[id] \/ (slot'[id] = Absent /\ id \in pruned')
<1> DEFINE Kept == slot'[id] = slot[id] \/ (slot'[id] = Absent /\ id \in pruned')
<1>a. slot \in [Ids -> SlotStates]
  BY TypeParts
<1>b. id \in Present
  BY DEF Present
<1>1. CASE Tick
  BY <1>1 DEF Tick
<1>2. ASSUME NEW p \in Procs, Start(p) PROVE Kept
  BY <1>2 DEF Start
<1>3. ASSUME NEW p \in Procs, Taken(p) PROVE Kept
  BY <1>3 DEF Taken
<1>4. ASSUME NEW p \in Procs, GiveUp(p) PROVE Kept
  BY <1>4 DEF GiveUp
<1>5. ASSUME NEW p \in Procs, Vacant(p) PROVE Kept
  BY <1>5 DEF Vacant
<1>6. ASSUME NEW p \in Procs, MakeDir(p) PROVE Kept
  <2>1. Exists(p) \/ writer[p].id # id
    BY <1>b DEF Exists
  <2> QED
    BY <1>6, <2>1, <1>a DEF MakeDir
<1>7. ASSUME NEW p \in Procs, Truncate(p) PROVE Kept
  <2>1. writer[p].id # id
    BY <1>7 DEF Truncate, Holding, NothingFinalIsWritten
  <2> QED
    BY <1>7, <2>1, <1>a DEF Truncate
<1>8. ASSUME NEW p \in Procs, Write(p) PROVE Kept
  <2>1. writer[p].id # id
    BY <1>8 DEF Write, Holding, NothingFinalIsWritten
  <2> QED
    BY <1>8, <2>1, <1>a DEF Write
<1>9. ASSUME NEW p \in Procs, Save(p) PROVE Kept
  BY <1>9 DEF Save
<1>10. ASSUME NEW p \in Procs, Crash(p) PROVE Kept
  BY <1>10 DEF Crash
<1>11. ASSUME NEW c \in Clients, Begin(c) PROVE Kept
  BY <1>11 DEF Begin
<1>12. ASSUME NEW c \in Clients, ReadEntry(c) PROVE Kept
  BY <1>12 DEF ReadEntry
<1>13. ASSUME NEW c \in Clients, EndScan(c) PROVE Kept
  BY <1>13 DEF EndScan
<1>14. ASSUME NEW c \in Clients, Load(c) PROVE Kept
  BY <1>14 DEF Load
<1>15. ASSUME NEW c \in Clients, Remove(c) PROVE Kept
  <2> DEFINE gone == Max(client[c].victims)
  <2>1. slot' = [slot EXCEPT ![gone] = Absent] /\ (gone \in Present => gone \in pruned')
    BY <1>15, RemoveOne
  <2> HIDE DEF gone
  <2> QED
    BY <2>1, <1>a, <1>b
<1>16. ASSUME NEW c \in Clients, EndPrune(c) PROVE Kept
  BY <1>16 DEF EndPrune
<1>17. CASE UNCHANGED vars
  BY <1>17 DEF vars
<1> QED
  BY <1>1, <1>2, <1>3, <1>4, <1>5, <1>6, <1>7, <1>8, <1>9, <1>10, <1>11, <1>12,
     <1>13, <1>14, <1>15, <1>16, <1>17 DEF Next, Writing

\* What a step does to the record under an id that a process holds: when it is final
\* after the step it was final before, or this process has closed it.
LEMMA HeldStep ==
  ASSUME TypeOK, Alone, [Next]_vars,
         NEW q \in Procs, writer[q].id \in Ids \ shared, writer[q].at \in Holding,
         slot'[writer[q].id].state = "final"
  PROVE  \/ slot[writer[q].id].state = "final"
         \/ Write(q) /\ writer'[q].at = "closed"
<1>a. slot \in [Ids -> SlotStates] /\ writer \in [Procs -> WriterStates]
  BY TypeParts
<1>b. \A p \in Procs : p # q /\ writer[p].at \in Holding => writer[p].id # writer[q].id
  BY DEF Alone
<1> DEFINE Held == \/ slot[writer[q].id].state = "final"
                   \/ Write(q) /\ writer'[q].at = "closed"
<1>1. CASE Tick
  BY <1>1 DEF Tick
<1>2. ASSUME NEW p \in Procs, Start(p) PROVE Held
  BY <1>2 DEF Start
<1>3. ASSUME NEW p \in Procs, Taken(p) PROVE Held
  BY <1>3 DEF Taken
<1>4. ASSUME NEW p \in Procs, GiveUp(p) PROVE Held
  BY <1>4 DEF GiveUp
<1>5. ASSUME NEW p \in Procs, Vacant(p) PROVE Held
  BY <1>5 DEF Vacant
<1>6. ASSUME NEW p \in Procs, MakeDir(p) PROVE Held
  <2>1. slot'[writer[q].id] \in {slot[writer[q].id], [state |-> "bare", by |-> p]}
    BY <1>6, <1>a DEF MakeDir
  <2> QED
    BY <2>1
<1>7. ASSUME NEW p \in Procs, Truncate(p) PROVE Held
  <2>1. slot'[writer[q].id] \in {slot[writer[q].id], [state |-> "torn", by |-> p]}
    BY <1>7, <1>a DEF Truncate
  <2> QED
    BY <2>1
<1>8. ASSUME NEW p \in Procs, Write(p) PROVE Held
  <2>1. CASE p # q
    BY <1>8, <1>a, <1>b, <2>1 DEF Write, Holding
  <2>2. CASE p = q /\ writer[q].closing
    BY <1>8, <1>a, <2>2 DEF Write, WriterStates
  <2>3. CASE p = q /\ ~writer[q].closing
    <3>1. \/ slot' = slot
          \/ \E state \in {"open", "mixed"} :
               slot' = [slot EXCEPT ![writer[q].id] = [state |-> state, by |-> q]]
      BY <1>8, <2>3 DEF Write
    <3> QED
      BY <1>a, <3>1
  <2> QED
    BY <2>1, <2>2, <2>3
<1>9. ASSUME NEW p \in Procs, Save(p) PROVE Held
  BY <1>9 DEF Save
<1>10. ASSUME NEW p \in Procs, Crash(p) PROVE Held
  BY <1>10 DEF Crash
<1>11. ASSUME NEW c \in Clients, Begin(c) PROVE Held
  BY <1>11 DEF Begin
<1>12. ASSUME NEW c \in Clients, ReadEntry(c) PROVE Held
  BY <1>12 DEF ReadEntry
<1>13. ASSUME NEW c \in Clients, EndScan(c) PROVE Held
  BY <1>13 DEF EndScan
<1>14. ASSUME NEW c \in Clients, Load(c) PROVE Held
  BY <1>14 DEF Load
<1>15. ASSUME NEW c \in Clients, Remove(c) PROVE Held
  <2>1. slot'[writer[q].id] \in {slot[writer[q].id], Absent}
    BY <1>15, <1>a DEF Remove
  <2> QED
    BY <2>1 DEF Absent
<1>16. ASSUME NEW c \in Clients, EndPrune(c) PROVE Held
  BY <1>16 DEF EndPrune
<1>17. CASE UNCHANGED vars
  BY <1>17 DEF vars
<1> QED
  BY <1>1, <1>2, <1>3, <1>4, <1>5, <1>6, <1>7, <1>8, <1>9, <1>10, <1>11, <1>12,
     <1>13, <1>14, <1>15, <1>16, <1>17 DEF Next, Writing

\* A process that holds an id after a step has just found it vacant, or held it before.
LEMMA HeldOn ==
  ASSUME TypeOK, [Next]_vars, NEW q \in Procs, writer'[q].at \in Holding
  PROVE  Vacant(q) \/ (writer'[q].id = writer[q].id /\ writer[q].at \in Holding)
<1> DEFINE Held == Vacant(q) \/ (writer'[q].id = writer[q].id /\ writer[q].at \in Holding)
<1> USE DEF Holding
<1>a. writer \in [Procs -> WriterStates]
  BY TypeParts
<1>1. CASE Tick
  BY <1>1 DEF Tick
<1>2. ASSUME NEW p \in Procs, Start(p) PROVE Held
  BY <1>2, <1>a DEF Start
<1>3. ASSUME NEW p \in Procs, Taken(p) PROVE Held
  BY <1>3, <1>a DEF Taken, WriterStates
<1>4. ASSUME NEW p \in Procs, GiveUp(p) PROVE Held
  BY <1>4, <1>a DEF GiveUp, WriterStates
<1>5. ASSUME NEW p \in Procs, Vacant(p) PROVE Held
  BY <1>5, <1>a DEF Vacant, WriterStates
<1>6. ASSUME NEW p \in Procs, MakeDir(p) PROVE Held
  BY <1>6, <1>a DEF MakeDir, WriterStates
<1>7. ASSUME NEW p \in Procs, Truncate(p) PROVE Held
  BY <1>7, <1>a DEF Truncate, WriterStates
<1>8. ASSUME NEW p \in Procs, Write(p) PROVE Held
  BY <1>8, <1>a DEF Write, WriterStates
<1>9. ASSUME NEW p \in Procs, Save(p) PROVE Held
  BY <1>9, <1>a DEF Save, WriterStates
<1>10. ASSUME NEW p \in Procs, Crash(p) PROVE Held
  BY <1>10, <1>a DEF Crash, WriterStates
<1>11. ASSUME NEW c \in Clients, Begin(c) PROVE Held
  BY <1>11 DEF Begin
<1>12. ASSUME NEW c \in Clients, ReadEntry(c) PROVE Held
  BY <1>12 DEF ReadEntry
<1>13. ASSUME NEW c \in Clients, EndScan(c) PROVE Held
  BY <1>13 DEF EndScan
<1>14. ASSUME NEW c \in Clients, Load(c) PROVE Held
  BY <1>14 DEF Load
<1>15. ASSUME NEW c \in Clients, Remove(c) PROVE Held
  BY <1>15, <1>a DEF Remove, WriterStates
<1>16. ASSUME NEW c \in Clients, EndPrune(c) PROVE Held
  BY <1>16 DEF EndPrune
<1>17. CASE UNCHANGED vars
  BY <1>17 DEF vars
<1> QED
  BY <1>1, <1>2, <1>3, <1>4, <1>5, <1>6, <1>7, <1>8, <1>9, <1>10, <1>11, <1>12,
     <1>13, <1>14, <1>15, <1>16, <1>17 DEF Next, Writing

\* An id that is shared stays so; and it is when a process takes an id that another
\* works under.
LEMMA SharedGrows ==
  ASSUME [Next]_vars
  PROVE  /\ shared \subseteq shared'
         /\ \A p \in Procs : Vacant(p) /\ HeldByOther(p) => writer[p].id \in shared'
<1>1. shared \subseteq shared'
  BY DEF Next, Writing, vars, Tick, Start, Taken, GiveUp, Vacant, MakeDir, Truncate, Write,
     Save, Crash, Begin, ReadEntry, EndScan, Load, Remove, EndPrune
<1>2. \A p \in Procs : Vacant(p) /\ HeldByOther(p) => writer[p].id \in shared'
  BY DEF Vacant
<1> QED
  BY <1>1, <1>2

\* Two processes come to work under one id only when one of them takes it while the
\* other does.
LEMMA AloneStep ==
  ASSUME TypeOK, Alone, [Next]_vars
  PROVE  Alone'
<1> SUFFICES ASSUME NEW p \in Procs, NEW q \in Procs, p # q,
                    writer'[p].at \in Holding, writer'[q].at \in Holding,
                    writer'[p].id = writer'[q].id
             PROVE  writer'[p].id \in shared'
  BY DEF Alone
<1>1. writer \in [Procs -> WriterStates]
  BY TypeParts
<1>2. ASSUME NEW r \in Procs, Vacant(r)
      PROVE  /\ writer'[r].id = writer[r].id
             /\ \A o \in Procs \ {r} : writer'[o] = writer[o]
  BY <1>1, <1>2 DEF Vacant, WriterStates
<1>3. CASE Vacant(p)
  <2>1. HeldByOther(p)
    BY <1>2, <1>3 DEF HeldByOther
  <2> QED
    BY <1>2, <1>3, <2>1, SharedGrows
<1>4. CASE Vacant(q)
  <2>1. HeldByOther(q)
    BY <1>2, <1>4 DEF HeldByOther
  <2> QED
    BY <1>2, <1>4, <2>1, SharedGrows
<1>5. CASE ~Vacant(p) /\ ~Vacant(q)
  <2>1. /\ writer[p].at \in Holding /\ writer'[p].id = writer[p].id
        /\ writer[q].at \in Holding /\ writer'[q].id = writer[q].id
    BY <1>5, HeldOn
  <2> QED
    BY <2>1, SharedGrows DEF Alone
<1> QED
  BY <1>3, <1>4, <1>5

\* A process that has found its id vacant, and shares it with none, has no closed record
\* under it.
LEMMA NothingFinalStep ==
  ASSUME TypeOK, Alone, NothingFinalIsWritten, [Next]_vars
  PROVE  NothingFinalIsWritten'
<1> SUFFICES ASSUME NEW q \in Procs, writer'[q].id \in Ids \ shared',
                    writer'[q].at \in Holding
             PROVE  slot'[writer'[q].id].state # "final"
  BY DEF NothingFinalIsWritten
<1>b. shared \subseteq shared'
  BY SharedGrows
<1>a. writer \in [Procs -> WriterStates] /\ slot \in [Ids -> SlotStates]
  BY TypeParts
<1>1. CASE Vacant(q)
  <2>1. writer'[q].id = writer[q].id /\ writer[q].id \notin Present /\ slot' = slot
    BY <1>1, <1>a DEF Vacant, Exists, WriterStates
  <2> QED
    BY <2>1 DEF Present
<1>2. CASE ~Vacant(q)
  <2>1. writer'[q].id = writer[q].id /\ writer[q].at \in Holding
    BY <1>2, HeldOn
  <2>2. writer[q].id \in Ids \ shared /\ slot[writer[q].id].state # "final"
    BY <1>b, <2>1 DEF NothingFinalIsWritten
  <2>3. ~(writer'[q].at = "closed")
    BY DEF Holding
  <2> QED
    BY <2>1, <2>2, <2>3, HeldStep
<1> QED
  BY <1>1, <1>2

----------------------------------------------------------------------------
(* Lists. *)

\* A step is a client's own or leaves it alone; nothing is forgotten to be pruned.
LEMMA ClientStep ==
  ASSUME TypeOK, [Next]_vars, NEW d \in Clients
  PROVE  /\ \/ client'[d] = client[d]
            \/ Begin(d) \/ ReadEntry(d) \/ EndScan(d) \/ Load(d) \/ Remove(d) \/ EndPrune(d)
         /\ pruned \subseteq pruned'
<1> DEFINE Own == /\ \/ client'[d] = client[d]
                     \/ Begin(d) \/ ReadEntry(d) \/ EndScan(d) \/ Load(d) \/ Remove(d)
                     \/ EndPrune(d)
                  /\ pruned \subseteq pruned'
<1>a. client \in [Clients -> ClientStates]
  BY TypeParts
<1>1. CASE Tick
  BY <1>1 DEF Tick
<1>2. ASSUME NEW p \in Procs, Start(p) PROVE Own
  BY <1>2 DEF Start
<1>3. ASSUME NEW p \in Procs, Taken(p) PROVE Own
  BY <1>3 DEF Taken
<1>4. ASSUME NEW p \in Procs, GiveUp(p) PROVE Own
  BY <1>4 DEF GiveUp
<1>5. ASSUME NEW p \in Procs, Vacant(p) PROVE Own
  BY <1>5 DEF Vacant
<1>6. ASSUME NEW p \in Procs, MakeDir(p) PROVE Own
  BY <1>6 DEF MakeDir
<1>7. ASSUME NEW p \in Procs, Truncate(p) PROVE Own
  BY <1>7 DEF Truncate
<1>8. ASSUME NEW p \in Procs, Write(p) PROVE Own
  BY <1>8 DEF Write
<1>9. ASSUME NEW p \in Procs, Save(p) PROVE Own
  BY <1>9 DEF Save
<1>10. ASSUME NEW p \in Procs, Crash(p) PROVE Own
  BY <1>10 DEF Crash
<1>11. ASSUME NEW c \in Clients, Begin(c) PROVE Own
  <2>1. CASE c = d
    BY <1>11, <2>1 DEF Begin
  <2>2. CASE c # d
    BY <1>11, <1>a, <2>2 DEF Begin
  <2> QED
    BY <2>1, <2>2
<1>12. ASSUME NEW c \in Clients, ReadEntry(c) PROVE Own
  <2>1. CASE c = d
    BY <1>12, <2>1 DEF ReadEntry
  <2>2. CASE c # d
    BY <1>12, <1>a, <2>2 DEF ReadEntry
  <2> QED
    BY <2>1, <2>2
<1>13. ASSUME NEW c \in Clients, EndScan(c) PROVE Own
  <2>1. CASE c = d
    BY <1>13, <2>1 DEF EndScan
  <2>2. CASE c # d
    BY <1>13, <1>a, <2>2 DEF EndScan
  <2> QED
    BY <2>1, <2>2
<1>14. ASSUME NEW c \in Clients, Load(c) PROVE Own
  <2>1. CASE c = d
    BY <1>14, <2>1 DEF Load
  <2>2. CASE c # d
    BY <1>14, <1>a, <2>2 DEF Load
  <2> QED
    BY <2>1, <2>2
<1>15. ASSUME NEW c \in Clients, Remove(c) PROVE Own
  <2>1. CASE c = d
    BY <1>15, <2>1 DEF Remove
  <2>2. CASE c # d
    BY <1>15, <1>a, <2>2 DEF Remove
  <2> QED
    BY <2>1, <2>2
<1>16. ASSUME NEW c \in Clients, EndPrune(c) PROVE Own
  <2>1. CASE c = d
    BY <1>16, <2>1 DEF EndPrune
  <2>2. CASE c # d
    BY <1>16, <1>a, <2>2 DEF EndPrune
  <2> QED
    BY <2>1, <2>2
<1>17. CASE UNCHANGED vars
  BY <1>17 DEF vars
<1> QED
  BY <1>1, <1>2, <1>3, <1>4, <1>5, <1>6, <1>7, <1>8, <1>9, <1>10, <1>11, <1>12,
     <1>13, <1>14, <1>15, <1>16, <1>17 DEF Next, Writing

\* What a step leaves of a client, other than the steps of its scan.
LEMMA ClientFrame ==
  ASSUME TypeOK, [Next]_vars, NEW d \in Clients, ~Begin(d)
  PROVE  /\ client'[d].closed = client[d].closed
         /\ client'[d].entries = client[d].entries
         /\ client'[d].at = "idle" => client[d].at = "idle"
         /\ ~ReadEntry(d) => /\ client'[d].seen = client[d].seen
                             /\ client'[d].listed = client[d].listed
<1>1. client \in [Clients -> ClientStates]
  BY TypeParts
<1>2. CASE client'[d] = client[d]
  BY <1>2
<1>3. CASE ReadEntry(d)
  BY <1>1, <1>3 DEF ReadEntry, ClientStates
<1>4. CASE EndScan(d)
  BY <1>1, <1>4 DEF EndScan, ClientStates
<1>5. CASE Load(d)
  BY <1>1, <1>5 DEF Load, ClientStates
<1>6. CASE Remove(d)
  BY <1>1, <1>6 DEF Remove, ClientStates
<1>7. CASE EndPrune(d)
  BY <1>1, <1>7 DEF EndPrune, ClientStates
<1> QED
  BY <1>2, <1>3, <1>4, <1>5, <1>6, <1>7, ClientStep

\* What was closed when a client began stays closed until it is pruned.
LEMMA ClosedStaysStep ==
  ASSUME TypeOK, NothingFinalIsWritten, ClosedStays, [Next]_vars
  PROVE  ClosedStays'
<1> SUFFICES ASSUME NEW d \in Clients, NEW id \in client'[d].closed \ (pruned' \cup shared')
             PROVE  id \in client'[d].entries /\ slot'[id].state = "final"
  BY DEF ClosedStays
<1>1. client \in [Clients -> ClientStates]
  BY TypeParts
<1>2. CASE Begin(d)
  <2>1. client'[d].closed = Closed /\ client'[d].entries = Present /\ slot' = slot
    BY <1>1, <1>2 DEF Begin, ClientStates
  <2> QED
    BY <2>1 DEF Closed, Present
<1>3. CASE ~Begin(d)
  <2>1. client'[d].closed = client[d].closed /\ client'[d].entries = client[d].entries
    BY <1>3, ClientFrame
  <2>2. id \in client[d].closed \ (pruned \cup shared)
    BY <2>1, ClientStep, SharedGrows
  <2>3. id \in client[d].entries /\ slot[id].state = "final" /\ id \in Ids \ shared
    BY <1>1, <2>2 DEF ClosedStays, ClientStates
  <2> QED
    BY <2>1, <2>3, FinalStep
<1> QED
  BY <1>2, <1>3

\* A scan lists each closed run that it reads.
LEMMA ScanListsStep ==
  ASSUME TypeOK, ClosedStays, ScanLists, [Next]_vars
  PROVE  ScanLists'
<1> SUFFICES ASSUME NEW d \in Clients
             PROVE  /\ client'[d].at = "idle" => client'[d].seen = {}
                    /\ (client'[d].closed \ (pruned' \cup shared')) \cap client'[d].seen
                         \subseteq client'[d].listed
  BY DEF ScanLists
<1>1. client \in [Clients -> ClientStates]
  BY TypeParts
<1>2. pruned \subseteq pruned' /\ shared \subseteq shared'
  BY ClientStep, SharedGrows
<1>3. CASE Begin(d)
  <2>1. client'[d].at = "scan" /\ client'[d].seen = client[d].seen /\ client[d].at = "idle"
    BY <1>1, <1>3 DEF Begin, ClientStates
  <2> QED
    BY <2>1 DEF ScanLists
<1>4. CASE ReadEntry(d)
  <2>1. PICK id \in Present :
          /\ client'[d].seen = client[d].seen \cup {id}
          /\ client'[d].listed = IF Listable(slot[id].state) THEN client[d].listed \cup {id}
                                                             ELSE client[d].listed
    BY <1>1, <1>4 DEF ReadEntry, ClientStates
  <2>2. /\ client'[d].closed = client[d].closed /\ client'[d].at = "scan"
        /\ pruned' = pruned
        /\ shared' = shared
    BY <1>1, <1>4 DEF ReadEntry, ClientStates
  <2>3. id \in client[d].closed \ (pruned \cup shared) => Listable(slot[id].state)
    BY DEF ClosedStays, Listable, Whole
  <2> QED
    BY <2>1, <2>2, <2>3 DEF ScanLists
<1>5. CASE ~Begin(d) /\ ~ReadEntry(d)
  BY <1>2, <1>5, ClientFrame DEF ScanLists
<1> QED
  BY <1>3, <1>4, <1>5

\* A scan ends when all that was there when it began, and is there yet, has been read.
LEMMA ListStep ==
  ASSUME TypeOK, ClosedStays, ScanLists, ListIsComplete, [Next]_vars
  PROVE  ListIsComplete'
<1> SUFFICES ASSUME NEW d \in Clients, client'[d].at \notin {"idle", "scan"}
             PROVE  client'[d].closed \ (pruned' \cup shared') \subseteq client'[d].listed
  BY DEF ListIsComplete
<1>1. client \in [Clients -> ClientStates]
  BY TypeParts
<1>2. ~Begin(d) /\ ~ReadEntry(d)
  <2>1. Begin(d) => client'[d].at = "scan"
    BY <1>1 DEF Begin, ClientStates
  <2>2. ReadEntry(d) => client'[d].at = "scan"
    BY <1>1 DEF ReadEntry, ClientStates
  <2> QED
    BY <2>1, <2>2
<1>3. /\ client'[d].closed = client[d].closed
      /\ client'[d].listed = client[d].listed
      /\ pruned \subseteq pruned' /\ shared \subseteq shared'
  BY <1>2, ClientFrame, ClientStep, SharedGrows
<1>4. CASE EndScan(d)
  <2>1. client[d].entries \cap Present \subseteq client[d].seen
    BY <1>4 DEF EndScan
  <2>2. \A id \in client[d].closed \ (pruned \cup shared) :
          id \in client[d].entries \cap Present
    BY <1>1 DEF ClosedStays, Present, ClientStates
  <2> QED
    BY <1>3, <2>1, <2>2 DEF ScanLists
<1>5. CASE ~EndScan(d)
  <2>1. client[d].at \notin {"idle", "scan"}
    BY <1>2, <1>5, ClientStep DEF Load, Remove, EndPrune
  <2> QED
    BY <1>3, <2>1 DEF ListIsComplete
<1> QED
  BY <1>4, <1>5

\* The target is the first of the list and stays it.
LEMMA TargetStep ==
  ASSUME TypeOK, ListIsComplete, TargetIsFirst, [Next]_vars
  PROVE  TargetIsFirst'
<1> SUFFICES ASSUME NEW d \in Clients
             PROVE  /\ client'[d].at \in {"idle", "scan", "remove"}
                         => client'[d].target = NoId
                    /\ client'[d].at = "load"
                         => \A id \in client'[d].listed : id <= client'[d].target
                    /\ client'[d].at = "done" /\ client'[d].target # NoId
                         => \A id \in client'[d].closed \ (pruned' \cup shared') :
                              id <= client'[d].target
  BY DEF TargetIsFirst
<1>1. client \in [Clients -> ClientStates] /\ client[d] \in ClientStates
  BY TypeParts
<1>2. pruned \subseteq pruned' /\ shared \subseteq shared'
  BY ClientStep, SharedGrows
<1>3. CASE client'[d] = client[d]
  BY <1>2, <1>3 DEF TargetIsFirst
<1>4. CASE Begin(d)
  BY <1>1, <1>4 DEF Begin, TargetIsFirst, ClientStates
<1>5. CASE ReadEntry(d)
  BY <1>1, <1>5 DEF ReadEntry, TargetIsFirst, ClientStates
<1>6. CASE EndScan(d)
  <2> DEFINE me == client[d]
  <2>1. me.target = NoId
    BY <1>6 DEF EndScan, TargetIsFirst
  <2>2. CASE me.op = "latest" /\ me.listed # {}
    <3>1. /\ client'[d].at = "load" /\ client'[d].listed = me.listed
          /\ client'[d].target = First(me.listed)
      BY <1>1, <1>6, <2>2 DEF EndScan, ClientStates
    <3>2. me.listed \in SUBSET Ids
      BY <1>1 DEF ClientStates
    <3>3. \A id \in me.listed : id <= First(me.listed)
      BY <2>2, <3>2, IdsFinite, GreatestNumber DEF First
    <3> QED
      BY <3>1, <3>3
  <2>3. CASE ~(me.op = "latest" /\ me.listed # {})
    <3>1. client'[d].target = NoId /\ client'[d].at # "load"
      BY <1>1, <1>6, <2>1, <2>3 DEF EndScan, ClientStates
    <3> QED
      BY <3>1
  <2> QED
    BY <2>2, <2>3
<1>7. CASE Load(d)
  <2>1. /\ client[d].at = "load" /\ client'[d].at = "done"
        /\ client'[d].closed = client[d].closed
        /\ client'[d].target \in {client[d].target, NoId}
    BY <1>1, <1>7 DEF Load, ClientStates
  <2>2. client[d].closed \ (pruned \cup shared) \subseteq client[d].listed
    BY <2>1 DEF ListIsComplete
  <2>3. \A id \in client[d].closed \ (pruned \cup shared) : id <= client[d].target
    BY <2>1, <2>2 DEF TargetIsFirst
  <2> QED
    BY <1>2, <2>1, <2>3
<1>8. CASE Remove(d)
  <2>1. client'[d].at = "remove" /\ client'[d].target = client[d].target
        /\ client[d].at = "remove"
    BY <1>1, <1>8 DEF Remove, ClientStates
  <2> QED
    BY <2>1 DEF TargetIsFirst
<1>9. CASE EndPrune(d)
  <2>1. client'[d].at = "done" /\ client'[d].target = client[d].target
        /\ client[d].at = "remove"
    BY <1>1, <1>9 DEF EndPrune, ClientStates
  <2> QED
    BY <2>1 DEF TargetIsFirst
<1> QED
  BY <1>3, <1>4, <1>5, <1>6, <1>7, <1>8, <1>9, ClientStep

----------------------------------------------------------------------------
(* The theorems about closed records. *)

\* No process has an id, and no client has begun, in an initial state.
LEMMA InitInv == Init => IInv
<1> SUFFICES ASSUME Init PROVE IInv
  OBVIOUS
<1>1. Alone /\ NothingFinalIsWritten
  BY DEF Init, Alone, NothingFinalIsWritten, Holding
<1>2. ClosedStays /\ ScanLists /\ ListIsComplete /\ TargetIsFirst
  BY DEF Init, ClosedStays, ScanLists, ListIsComplete, TargetIsFirst
<1> QED
  BY <1>1, <1>2 DEF IInv

\* Every step preserves it.
LEMMA InvStep == TypeOK /\ IInv /\ [Next]_vars => IInv'
<1> SUFFICES ASSUME TypeOK, IInv, [Next]_vars PROVE IInv'
  OBVIOUS
<1>1. Alone' /\ NothingFinalIsWritten'
  BY AloneStep, NothingFinalStep DEF IInv
<1>2. ClosedStays' /\ ScanLists' /\ ListIsComplete' /\ TargetIsFirst'
  BY ClosedStaysStep, ScanListsStep, ListStep, TargetStep DEF IInv
<1> QED
  BY <1>1, <1>2 DEF IInv

\* It holds in every state the store can reach.
LEMMA InvHolds == Spec => [](TypeOK /\ IInv)
<1>1. Init => TypeOK /\ WritersSound /\ IInv
  BY InitTyped, InitInv
<1>2. TypeOK /\ WritersSound /\ IInv /\ [Next]_vars => (TypeOK /\ WritersSound /\ IInv)'
  BY TypeStep, InvStep
<1> QED
  BY <1>1, <1>2, PTL DEF Spec

\* The record of a closed run is never rewritten, however many processes record runs,
\* whatever suffixes they draw, however they crash and whatever is pruned meanwhile,
\* unless two of them took its id at a time.
THEOREM ClosedKept == Spec => ClosedRecordKept
<1>1. TypeOK /\ IInv /\ [Next]_vars
        => [\A id \in Ids \ shared : slot[id].state = "final" =>
              slot'[id] \in {slot[id], Absent}]_vars
  BY FinalStep DEF IInv
<1> QED
  BY <1>1, InvHolds, PTL DEF Spec, ClosedRecordKept

\* A list misses no run closed before it was asked for, though the directory is read
\* entry by entry while other processes add to it and take from it, but one that is
\* pruned or whose id two processes took at a time.
THEOREM ListComplete == Spec => []ListIsComplete
<1>1. TypeOK /\ IInv => ListIsComplete
  BY DEF IInv
<1> QED
  BY <1>1, InvHolds, PTL

\* "latest" is of the second of the last run closed when it was asked for, or later, with
\* the same exceptions.
THEOREM LatestRecent == Spec => []LatestIsRecent
<1>1. TypeOK /\ IInv => LatestIsRecent
  <2> SUFFICES ASSUME TypeOK, IInv, NEW c \in Clients,
                      client[c].at = "done", client[c].target # NoId,
                      NEW id \in client[c].closed \ (pruned \cup shared)
               PROVE  id \div Suffixes <= client[c].target \div Suffixes
    BY DEF LatestIsRecent
  <2>1. client[c].target \in Ids /\ id \in Ids
    BY TypeParts DEF ClientStates
  <2>2. id \in Nat /\ client[c].target \in Nat /\ Suffixes \in Nat \ {0}
    BY <2>1, IdsFinite, ConstantsAssumption
  <2>3. id <= client[c].target
    BY DEF IInv, TargetIsFirst
  <2> QED
    BY <2>2, <2>3, SecondMonotonic
<1> QED
  BY <1>1, InvHolds, PTL

=============================================================================
