-------------------------- MODULE Observing_proofs --------------------------
(***************************************************************************)
(* Theorems about Observing, for any finite set of facts of the kinds that *)
(* are counted.                                                            *)
(*                                                                         *)
(* A count is positive if and only if there is a fact of one of the kinds  *)
(* behind it in the main file (StorePositive), and the main file never     *)
(* loses a fact.  The inductive invariant says what of the store and of    *)
(* the other files can still change once the record is closed (LogMoved,   *)
(* StaysDown), and so how a later collection compares with the record's    *)
(* (Stands).                                                               *)
(***************************************************************************)
EXTENDS Observing, FiniteSetTheorems, TLAPS

----------------------------------------------------------------------------
(* The inductive invariant. *)

Observers == {"none", "running", "exited", "dead", "survivor"}

\* The witness is one of a record.
WitnessTyped ==
  witness \in [finished : BOOLEAN, observer : Observers, saw : SUBSET Facts,
               readable : BOOLEAN]

\* The record is there from its closing on.
ClosedOnce == pc = "closed" <=> recorded # Nothing

\* Nothing is left in the log of an observer that closed its store or never ran.
LogMoved == observer \in {"none", "exited"} => log = {}

\* Nor does such an observer come back once the record is closed.
StaysDown ==
  pc = "closed" /\ witness.observer \in {"none", "exited"} => observer = witness.observer

\* When no engine of a finished run goes on writing, its files are as readable as they
\* were, a collection has something of every kind that the record counts, and the same
\* counts when nothing was left in the log.
Stands ==
  pc = "closed" /\ witness.finished /\ ~survives =>
    /\ witness.readable <=> violations = "text" /\ events # "broken"
    /\ \A kind \in CountKinds : recorded.counts[kind] > 0 => Collected({})[kind] > 0
    /\ witness.observer \in {"none", "exited"} => recorded.counts = Collected({})

\* What the closing of a record establishes, and every later step keeps.
Recorded == WitnessTyped /\ ClosedOnce /\ StaysDown /\ Stands /\ CleanStopIsCounted

IInv == TypeOK /\ LogMoved /\ Recorded

----------------------------------------------------------------------------
(* Counting. *)

\* A set of facts has a number, which is 0 for none.
LEMMA CountOfFacts ==
  ASSUME NEW set \in SUBSET Facts
  PROVE  /\ Cardinality(set) \in Nat
         /\ Cardinality(set) > 0 <=> set # {}
<1>1. IsFiniteSet(set)
  BY ConstantsAssumption, FS_Subset
<1> QED
  BY <1>1, FS_CardinalityType, FS_EmptySet

\* Facts are about no more objects than there are facts, and about one if there is one.
LEMMA CountOfObjects ==
  ASSUME NEW set \in SUBSET Facts
  PROVE  /\ Cardinality({f.object : f \in set}) \in 0 .. Cardinality(set)
         /\ Cardinality({f.object : f \in set}) > 0 <=> set # {}
<1> DEFINE objects == {f.object : f \in set}
           about == [f \in set |-> f.object]
<1>1. IsFiniteSet(set)
  BY ConstantsAssumption, FS_Subset
<1>2. about \in Surjection(set, objects)
  BY DEF Surjection
<1>3. IsFiniteSet(objects) /\ Cardinality(objects) <= Cardinality(set)
  BY <1>1, <1>2, FS_Surjection
<1>4. Cardinality(objects) \in Nat /\ Cardinality(set) \in Nat
  BY <1>1, <1>3, FS_CardinalityType
<1>5. Cardinality(objects) = 0 <=> objects = {}
  BY <1>3, FS_EmptySet
<1>6. objects = {} <=> set = {}
  OBVIOUS
<1> QED
  BY <1>3, <1>4, <1>5, <1>6

\* The kinds of facts behind a count, which depend on the schema alone.
Behind ==
  [processes     |-> IF schema = "unknown" THEN {} ELSE {"exec", "exit"},
   files_written |-> IF schema = "unknown" THEN {} ELSE {"write"},
   endpoints     |-> IF schema = "unknown" THEN {} ELSE {"connect"},
   llm_calls     |-> IF schema = "0.2" THEN {"llm"} ELSE {}]

\* The number of rows of some kinds.
LEMMA Rows ==
  TypeOK => \A kinds : /\ RowsOf(kinds) \in Nat
                       /\ RowsOf(kinds) > 0 <=> \E f \in main : f.kind \in kinds
<1> SUFFICES ASSUME TypeOK, NEW kinds
             PROVE  /\ RowsOf(kinds) \in Nat
                    /\ RowsOf(kinds) > 0 <=> \E f \in main : f.kind \in kinds
  OBVIOUS
<1> DEFINE rows == {f \in main : f.kind \in kinds}
<1>1. rows \in SUBSET Facts
  BY DEF TypeOK
<1> HIDE DEF rows
<1>2. Cardinality(rows) \in Nat /\ (Cardinality(rows) > 0 <=> rows # {})
  BY <1>1, CountOfFacts
<1> QED
  BY <1>2 DEF rows, RowsOf

\* The same of the connections, which the store counts by their host.
LEMMA Hosts ==
  TypeOK => LET hosts == {f.object : f \in {g \in main : g.kind = "connect"}}
            IN  /\ Cardinality(hosts) \in 0 .. RowsOf({"connect"})
                /\ Cardinality(hosts) > 0 <=> \E f \in main : f.kind \in {"connect"}
<1> DEFINE rows == {g \in main : g.kind = "connect"}
<1> SUFFICES ASSUME TypeOK
             PROVE  /\ Cardinality({f.object : f \in rows}) \in 0 .. RowsOf({"connect"})
                    /\ Cardinality({f.object : f \in rows}) > 0 <=>
                         \E f \in main : f.kind \in {"connect"}
  OBVIOUS
<1>1. rows \in SUBSET Facts
  BY DEF TypeOK
<1>2. RowsOf({"connect"}) = Cardinality(rows)
  <2>1. rows = {f \in main : f.kind \in {"connect"}}
    OBVIOUS
  <2> QED
    BY <2>1 DEF RowsOf
<1>3. rows # {} <=> \E f \in main : f.kind \in {"connect"}
  OBVIOUS
<1> HIDE DEF rows
<1> QED
  BY <1>1, <1>2, <1>3, CountOfObjects

\* The store has a number for each count, which is positive if and only if there is a
\* fact behind it.
LEMMA StorePositive ==
  TypeOK => /\ FromStore \in [CountKinds -> Nat]
            /\ \A kind \in CountKinds :
                 FromStore[kind] > 0 <=> \E f \in main : f.kind \in Behind[kind]
<1> SUFFICES ASSUME TypeOK
             PROVE  /\ FromStore \in [CountKinds -> Nat]
                    /\ \A kind \in CountKinds :
                         FromStore[kind] > 0 <=> \E f \in main : f.kind \in Behind[kind]
  OBVIOUS
<1> DEFINE hosts == Cardinality({f.object : f \in {g \in main : g.kind = "connect"}})
           exec  == RowsOf({"exec"})
           exit  == RowsOf({"exit"})
           files == RowsOf({"write"})
           links == RowsOf({"connect"})
           calls == RowsOf({"llm"})
<1>1. /\ exec \in Nat /\ (exec > 0 <=> \E f \in main : f.kind \in {"exec"})
      /\ exit \in Nat /\ (exit > 0 <=> \E f \in main : f.kind \in {"exit"})
      /\ files \in Nat /\ (files > 0 <=> \E f \in main : f.kind \in {"write"})
      /\ links \in Nat /\ (links > 0 <=> \E f \in main : f.kind \in {"connect"})
      /\ calls \in Nat /\ (calls > 0 <=> \E f \in main : f.kind \in {"llm"})
  BY Rows
<1>2. hosts \in Nat /\ (hosts > 0 <=> \E f \in main : f.kind \in {"connect"})
  BY <1>1, Hosts
<1>3. (\E f \in main : f.kind \in {"exec", "exit"}) <=> exec > 0 \/ exit > 0
  BY <1>1
<1>4. schema \in {"0.2", "kind", "unknown"}
  BY DEF TypeOK
<1>5. CASE schema = "0.2"
  <2>1. FromStore = [processes |-> IF exec > 0 THEN exec ELSE exit,
                     files_written |-> files, endpoints |-> hosts, llm_calls |-> calls]
    BY <1>5 DEF FromStore
  <2> HIDE DEF exec, exit, files, links, calls, hosts
  <2>2. FromStore \in [CountKinds -> Nat]
    BY <2>1, <1>1, <1>2 DEF CountKinds
  <2>3. \A kind \in CountKinds :
          FromStore[kind] > 0 <=> \E f \in main : f.kind \in Behind[kind]
    BY <2>1, <1>1, <1>2, <1>3, <1>5 DEF CountKinds, Behind
  <2> QED
    BY <2>2, <2>3
<1>6. CASE schema = "kind"
  <2>1. FromStore = [processes |-> 2 * exec + exit, files_written |-> 2 * files,
                     endpoints |-> links, llm_calls |-> 0]
    BY <1>6 DEF FromStore
  <2> HIDE DEF exec, exit, files, links, calls, hosts
  <2>2. FromStore \in [CountKinds -> Nat]
    BY <2>1, <1>1 DEF CountKinds
  <2>3. \A kind \in CountKinds :
          FromStore[kind] > 0 <=> \E f \in main : f.kind \in Behind[kind]
    BY <2>1, <1>1, <1>3, <1>6 DEF CountKinds, Behind
  <2> QED
    BY <2>2, <2>3
<1>7. CASE schema = "unknown"
  <2>1. FromStore = [kind \in CountKinds |-> 0]
    BY <1>7 DEF FromStore, NoCounts
  <2> QED
    BY <2>1, <1>7 DEF CountKinds, Behind
<1> QED
  BY <1>4, <1>5, <1>6, <1>7

\* A collection counts nothing if a file is no text; otherwise what the store has, of
\* the queries that do not fail, and a record of events.jsonl.
LEMMA CollectedIs ==
  TypeOK => \A failed \in SUBSET CountKinds :
    /\ Collected(failed) \in [CountKinds -> Nat]
    /\ \A kind \in CountKinds :
         /\ Collected(failed)[kind] <= Collected({})[kind]
         /\ Collected({})[kind] > 0 <=>
              /\ violations = "text" /\ events # "broken"
              /\ \/ \E f \in main : f.kind \in Behind[kind]
                 \/ kind = "processes" /\ events = "records"
<1> SUFFICES ASSUME TypeOK, NEW failed \in SUBSET CountKinds
             PROVE  /\ Collected(failed) \in [CountKinds -> Nat]
                    /\ \A kind \in CountKinds :
                         /\ Collected(failed)[kind] <= Collected({})[kind]
                         /\ Collected({})[kind] > 0 <=>
                              /\ violations = "text" /\ events # "broken"
                              /\ \/ \E f \in main : f.kind \in Behind[kind]
                                 \/ kind = "processes" /\ events = "records"
  OBVIOUS
<1>1. violations \in {"text", "broken"}
  BY DEF TypeOK
<1>2. CASE violations = "broken" \/ events = "broken"
  <2>1. Collected(failed) = NoCounts /\ Collected({}) = NoCounts
    BY <1>2 DEF Collected
  <2> QED
    BY <1>2, <2>1 DEF NoCounts
<1>3. CASE ~(violations = "broken" \/ events = "broken")
  <2> DEFINE more == [kind \in CountKinds |->
                        IF kind = "processes" /\ events = "records" THEN 1 ELSE 0]
  <2>1. \A set : Collected(set) = [kind \in CountKinds |->
                   (IF kind \in set THEN 0 ELSE FromStore[kind]) + more[kind]]
    BY <1>3 DEF Collected
  <2>2. \A kind \in CountKinds :
          /\ more[kind] \in 0 .. 1
          /\ more[kind] > 0 <=> kind = "processes" /\ events = "records"
    OBVIOUS
  <2> HIDE DEF more
  <2>3. \A kind \in CountKinds :
          /\ FromStore[kind] \in Nat
          /\ FromStore[kind] > 0 <=> \E f \in main : f.kind \in Behind[kind]
    BY StorePositive
  <2>4. Collected(failed) \in [CountKinds -> Nat]
    BY <2>1, <2>2, <2>3
  <2>5. ASSUME NEW kind \in CountKinds
        PROVE  /\ Collected(failed)[kind] <= Collected({})[kind]
               /\ Collected({})[kind] > 0 <=>
                    \/ \E f \in main : f.kind \in Behind[kind]
                    \/ kind = "processes" /\ events = "records"
    <3>1. Collected({})[kind] = FromStore[kind] + more[kind]
      BY <2>1
    <3>2. Collected(failed)[kind] =
            (IF kind \in failed THEN 0 ELSE FromStore[kind]) + more[kind]
      BY <2>1
    <3> QED
      BY <3>1, <3>2, <2>2, <2>3
  <2> QED
    BY <1>1, <1>3, <2>4, <2>5
<1> QED
  BY <1>2, <1>3

\* In particular what a collection that no query fails can have found.
LEMMA CollectedPositive ==
  TypeOK => \A kind \in CountKinds :
    Collected({})[kind] > 0 <=>
      /\ violations = "text" /\ events # "broken"
      /\ \/ \E f \in main : f.kind \in Behind[kind]
         \/ kind = "processes" /\ events = "records"
BY CollectedIs

\* A query fails only beside an observer that is alive.
LEMMA FailedQueries ==
  /\ Failed \subseteq SUBSET CountKinds
  /\ observer \notin Alive => Failed = {{}}
BY DEF Failed

----------------------------------------------------------------------------
(* Types. *)

\* A run that has not been recorded is a run without a record.
LEMMA NothingIs == Nothing.plane = "not started" /\ Nothing \in Reports \cup {Nothing}
BY DEF Nothing

\* A report is none that was not made.
LEMMA ReportsAreSome == \A r \in Reports : r # Nothing
<1>1. \A r \in Reports : r.plane # "not started"
  BY DEF Reports
<1> QED
  BY <1>1, NothingIs

\* The initial states are typed.
LEMMA InitInv == Init => IInv
<1> SUFFICES ASSUME Init PROVE IInv
  OBVIOUS
<1> USE DEF Init
<1>1. TypeOK
  BY NothingIs DEF TypeOK
<1>2. WitnessTyped
  BY DEF WitnessTyped, Witness, Observers
<1>3. ClosedOnce /\ LogMoved /\ StaysDown /\ Stands /\ CleanStopIsCounted
  BY DEF ClosedOnce, LogMoved, StaysDown, Stands, CleanStopIsCounted
<1> QED
  BY <1>1, <1>2, <1>3 DEF IInv, Recorded

\* What a run is recorded as, of which the plane was degraded only if it was active.
LEMMA FinishTyped ==
  ASSUME TypeOK, NEW failed \in Failed
  PROVE  LET counts == Collected(failed)
         IN  /\ [plane |-> PlaneAfter(counts), counts |-> counts] \in Reports
             /\ PlaneAfter(counts) = "Degraded" => plane = "Active"
<1> DEFINE counts == Collected(failed)
<1>1. counts \in [CountKinds -> Nat]
  BY CollectedIs, FailedQueries
<1>2. PlaneAfter(counts) \in {"Disabled", "Active", "Degraded"}
      /\ (PlaneAfter(counts) = "Degraded" => plane = "Active")
  BY DEF PlaneAfter, TypeOK
<1> HIDE DEF counts
<1>3. [plane |-> PlaneAfter(counts), counts |-> counts] \in Reports
  BY <1>1, <1>2 DEF Reports
<1> QED
  BY <1>2, <1>3 DEF counts

\* No step takes a variable out of its type.
LEMMA TypeStep == IInv /\ [Next]_vars => TypeOK'
<1> SUFFICES ASSUME IInv, [Next]_vars PROVE TypeOK'
  OBVIOUS
<1>0. TypeOK
  BY DEF IInv
<1> USE <1>0 DEF input, store
<1>1. CASE See
  BY <1>1 DEF See, TypeOK
<1>2. CASE Checkpoint
  BY <1>2 DEF Checkpoint, TypeOK
<1>3. CASE ObserverCloses
  BY <1>3 DEF ObserverCloses, TypeOK
<1>4. CASE ObserverCrashes
  BY <1>4 DEF ObserverCrashes, TypeOK
<1>5. CASE PolicyWrites
  BY <1>5 DEF PolicyWrites, TypeOK
<1>6. CASE NotStarted
  BY <1>6, ReportsAreSome, NothingIs DEF NotStarted, TypeOK, IInv, Recorded, ClosedOnce
<1>7. CASE Start
  BY <1>7 DEF Start, TypeOK
<1>8. CASE Settle
  BY <1>8, NothingIs DEF Settle, TypeOK, IInv, Recorded, ClosedOnce
<1>9. CASE Stop
  BY <1>9 DEF Stop, TypeOK
<1>10. CASE Finish
  <2>1. PICK failed \in Failed :
          recorded' =
            [plane |-> PlaneAfter(Collected(failed)), counts |-> Collected(failed)]
    BY <1>10 DEF Finish
  <2>2. recorded' \in Reports /\ (recorded'.plane = "Degraded" => plane = "Active")
    BY <2>1, FinishTyped
  <2> QED
    BY <1>10, <2>2 DEF Finish, TypeOK
<1>11. CASE Abort
  <2>1. NoCounts \in [CountKinds -> Nat]
    BY DEF NoCounts
  <2>2. recorded' \in Reports /\ recorded'.plane = plane /\ plane # "Degraded"
    BY <1>11, <2>1 DEF Abort, TypeOK, Reports
  <2> QED
    BY <1>11, <2>2 DEF Abort, TypeOK
<1>12. CASE Report
  <2>1. PICK failed \in Failed :
          shown' = [plane |-> recorded.plane, counts |-> Collected(failed)]
    BY <1>12 DEF Report
  <2>2. Collected(failed) \in [CountKinds -> Nat]
    BY CollectedIs, FailedQueries
  <2>3. recorded \in Reports
    BY <1>12 DEF Report, TypeOK, IInv, Recorded, ClosedOnce
  <2>4. shown' \in Reports
    BY <2>1, <2>2, <2>3 DEF Reports
  <2> QED
    BY <1>12, <2>4 DEF Report, TypeOK
<1>13. CASE UNCHANGED vars
  BY <1>13 DEF vars, TypeOK
<1> QED
  BY <1>1, <1>2, <1>3, <1>4, <1>5, <1>6, <1>7, <1>8, <1>9, <1>10, <1>11, <1>12,
     <1>13 DEF Next

----------------------------------------------------------------------------
(* Before the record is closed. *)

\* What a step before the closing leaves alone, and that an observer which closes its
\* store leaves nothing in its log.
LEMMA OpenStep ==
  IInv /\ [Next]_vars => /\ LogMoved'
                         /\ pc' # "closed" => UNCHANGED <<recorded, witness>>
<1> SUFFICES ASSUME IInv, [Next]_vars
             PROVE  /\ LogMoved'
                    /\ pc' # "closed" => UNCHANGED <<recorded, witness>>
  OBVIOUS
<1> USE DEF IInv, TypeOK, LogMoved, Alive, input, store
<1>1. CASE See
  BY <1>1 DEF See
<1>2. CASE Checkpoint
  BY <1>2 DEF Checkpoint
<1>3. CASE ObserverCloses
  BY <1>3 DEF ObserverCloses
<1>4. CASE ObserverCrashes
  BY <1>4 DEF ObserverCrashes
<1>5. CASE PolicyWrites
  BY <1>5 DEF PolicyWrites
<1>6. CASE NotStarted
  BY <1>6 DEF NotStarted
<1>7. CASE Start
  BY <1>7 DEF Start
<1>8. CASE Settle
  BY <1>8 DEF Settle
<1>9. CASE Stop
  BY <1>9 DEF Stop
<1>10. CASE Finish
  BY <1>10 DEF Finish
<1>11. CASE Abort
  BY <1>11 DEF Abort
<1>12. CASE Report
  BY <1>12 DEF Report
<1>13. CASE UNCHANGED vars
  BY <1>13 DEF vars
<1> QED
  BY <1>1, <1>2, <1>3, <1>4, <1>5, <1>6, <1>7, <1>8, <1>9, <1>10, <1>11, <1>12,
     <1>13 DEF Next

\* Only the two ways to close a record close it.
LEMMA ClosingStep == pc # "closed" /\ pc' = "closed" /\ [Next]_vars => Finish \/ Abort
BY DEF Next, vars, input, See, Checkpoint, ObserverCloses, ObserverCrashes, PolicyWrites,
       NotStarted, Start, Settle, Stop, Report

\* After that a store only grows, and only while there is somebody to fill or move its
\* log; the other files change only with a policy engine that survived.
LEMMA ClosedStep ==
  IInv /\ pc = "closed" /\ [Next]_vars =>
    /\ pc' = "closed"
    /\ UNCHANGED <<input, plane, recorded, witness>>
    /\ main \subseteq main'
    /\ ~survives => UNCHANGED violations
    /\ observer \in {"none", "exited"} => UNCHANGED <<observer, store>>
<1> SUFFICES ASSUME IInv, pc = "closed", [Next]_vars
             PROVE  /\ pc' = "closed"
                    /\ UNCHANGED <<input, plane, recorded, witness>>
                    /\ main \subseteq main'
                    /\ ~survives => UNCHANGED violations
                    /\ observer \in {"none", "exited"} => UNCHANGED <<observer, store>>
  OBVIOUS
<1> USE DEF IInv, LogMoved, Alive, store
<1>1. CASE See
  BY <1>1 DEF See
<1>2. CASE Checkpoint
  BY <1>2 DEF Checkpoint
<1>3. CASE ObserverCloses
  BY <1>3 DEF ObserverCloses
<1>4. CASE ObserverCrashes
  BY <1>4 DEF ObserverCrashes
<1>5. CASE PolicyWrites
  BY <1>5 DEF PolicyWrites
<1>6. CASE NotStarted \/ Start \/ Settle \/ Stop \/ Finish \/ Abort
  BY <1>6 DEF NotStarted, Start, Settle, Stop, Finish, Abort
<1>7. CASE Report
  BY <1>7 DEF Report
<1>8. CASE UNCHANGED vars
  BY <1>8 DEF vars
<1> QED
  BY <1>1, <1>2, <1>3, <1>4, <1>5, <1>6, <1>7, <1>8 DEF Next

----------------------------------------------------------------------------
(* The closing. *)

\* An aborted run counts nothing, and nothing is claimed of its counts.
LEMMA AbortInv ==
  IInv /\ Abort => Recorded'
<1> SUFFICES ASSUME IInv, Abort
             PROVE  Recorded'
  OBVIOUS
<1>0. TypeOK
  BY DEF IInv, Recorded
<1>1. witness' = [finished |-> FALSE, observer |-> observer, saw |-> log \cup main,
                  readable |-> violations = "text" /\ events # "broken"]
  BY DEF Abort, Witness
<1>2. /\ pc' = "closed" /\ UNCHANGED observer
      /\ recorded' = [plane |-> plane, counts |-> NoCounts]
  BY DEF Abort
<1>3. WitnessTyped'
  BY <1>0, <1>1 DEF WitnessTyped, TypeOK, Observers
<1>4. recorded' \in Reports
  <2>1. NoCounts \in [CountKinds -> Nat]
    BY DEF NoCounts
  <2> QED
    BY <1>0, <1>2, <2>1 DEF TypeOK, Reports
<1>5. ClosedOnce'
  BY <1>2, <1>4, ReportsAreSome, NothingIs DEF ClosedOnce, Nothing
<1>6. StaysDown'
  BY <1>1, <1>2 DEF StaysDown
<1>7. Stands' /\ CleanStopIsCounted'
  BY <1>1 DEF Stands, CleanStopIsCounted
<1> QED
  BY <1>3, <1>5, <1>6, <1>7 DEF Recorded

\* A finished run counts what was in the main file, which of an observer that closed
\* its store is all that it saw.
LEMMA FinishInv ==
  IInv /\ Finish => Recorded'
<1> SUFFICES ASSUME IInv, Finish
             PROVE  Recorded'
  OBVIOUS
<1>0. TypeOK /\ LogMoved
  BY DEF IInv
<1>1. PICK failed \in Failed :
        recorded' = [plane |-> PlaneAfter(Collected(failed)), counts |-> Collected(failed)]
  BY DEF Finish
<1>2. /\ recorded'.counts = Collected(failed)
      /\ recorded'.plane = PlaneAfter(Collected(failed))
      /\ recorded' # Nothing
  BY <1>0, <1>1, FinishTyped, ReportsAreSome
<1>3. witness' = [finished |-> TRUE, observer |-> observer, saw |-> log \cup main,
                  readable |-> violations = "text" /\ events # "broken"]
  BY DEF Finish, Witness
<1>4. pc' = "closed" /\ UNCHANGED <<input, violations, observer, store, plane>>
  BY DEF Finish
<1>5. WitnessTyped'
  BY <1>0, <1>3 DEF WitnessTyped, TypeOK, Observers
<1>6. ClosedOnce' /\ StaysDown'
  BY <1>2, <1>3, <1>4 DEF ClosedOnce, StaysDown
<1>7. observer \in {"none", "exited"} => failed = {}
  BY <1>1, FailedQueries DEF Alive
<1>8. Collected({})' = Collected({})
  BY <1>4 DEF input, store, Collected, NoCounts, FromStore, RowsOf
<1>9. \A kind \in CountKinds : Collected(failed)[kind] > 0 => Collected({})[kind] > 0
  <2> SUFFICES ASSUME NEW kind \in CountKinds, Collected(failed)[kind] > 0
               PROVE  Collected({})[kind] > 0
    OBVIOUS
  <2>1. {} \in SUBSET CountKinds /\ failed \in SUBSET CountKinds
    BY FailedQueries
  <2>2. /\ Collected(failed)[kind] \in Nat /\ Collected({})[kind] \in Nat
        /\ Collected(failed)[kind] <= Collected({})[kind]
    BY <1>0, <2>1, CollectedIs
  <2> QED
    BY <2>2
<1>10. Stands'
  BY <1>2, <1>3, <1>4, <1>7, <1>8, <1>9 DEF Stands, input
<1>11. CleanStopIsCounted'
  <2> SUFFICES ASSUME violations = "text", events = "none", observer = "exited",
                      schema = "0.2"
               PROVE  CleanStopIsCounted'
    BY <1>3, <1>4 DEF CleanStopIsCounted, input
  <2> DEFINE counts == Collected({})
             Saw(kinds) == {f \in main : f.kind \in kinds}
             hosts == Cardinality({f.object : f \in {g \in main : g.kind = "connect"}})
  <2>1. log \cup main = main /\ failed = {}
    BY <1>0, <1>7 DEF LogMoved
  <2>2. counts = [kind \in CountKinds |-> FromStore[kind] + 0]
    BY DEF Collected
  <2>3. \A kind \in CountKinds : FromStore[kind] \in Nat /\ counts[kind] = FromStore[kind]
    BY <1>0, <2>2, StorePositive
  <2>4. /\ FromStore.files_written = Cardinality(Saw({"write"}))
        /\ FromStore.llm_calls = Cardinality(Saw({"llm"}))
        /\ FromStore.endpoints = hosts
    BY DEF FromStore, RowsOf
  <2>5. hosts \in 0 .. Cardinality(Saw({"connect"}))
    BY <1>0, Hosts DEF RowsOf
  <2>6. Signal(counts) <=> main # {}
    <3>1. \A kind \in CountKinds :
            counts[kind] > 0 <=> \E f \in main : f.kind \in Behind[kind]
      BY <1>0, <2>3, StorePositive
    <3>2. \A f \in main : f.kind \in {"exec", "exit", "write", "connect", "llm"}
      BY <1>0, ConstantsAssumption DEF TypeOK
    <3>3. \A f \in main : \E kind \in CountKinds : f.kind \in Behind[kind]
      BY <3>2 DEF Behind, CountKinds
    <3> QED
      BY <3>1, <3>3 DEF Signal
  <2>7. plane = "Active" => (PlaneAfter(counts) = "Active" <=> main # {})
    BY <2>6 DEF PlaneAfter
  <2>8. /\ counts.files_written = Cardinality(Saw({"write"}))
        /\ counts.llm_calls = Cardinality(Saw({"llm"}))
        /\ counts.endpoints \in 0 .. Cardinality(Saw({"connect"}))
    BY <2>3, <2>4, <2>5 DEF CountKinds
  <2>9. recorded'.counts = counts /\ recorded'.plane = PlaneAfter(counts)
    BY <1>2, <2>1
  <2>10. witness'.saw = main
    BY <1>3, <2>1
  <2> HIDE DEF counts
  <2>11. Signal(recorded'.counts) <=> main # {}
    BY <2>6, <2>9
  <2> QED
    BY <1>4, <2>7, <2>8, <2>9, <2>10, <2>11 DEF CleanStopIsCounted, Signal
<1> QED
  BY <1>5, <1>6, <1>10, <1>11 DEF Recorded

----------------------------------------------------------------------------
(* After it. *)

\* A collection finds something of every kind that it would have found before.
LEMMA StillCollected ==
  IInv /\ pc = "closed" /\ [Next]_vars /\ ~survives =>
    /\ \A kind \in CountKinds : Collected({})[kind] > 0 => Collected({})'[kind] > 0
    /\ observer \in {"none", "exited"} => Collected({})' = Collected({})
<1> SUFFICES ASSUME IInv, pc = "closed", [Next]_vars, ~survives
             PROVE  /\ \A kind \in CountKinds :
                         Collected({})[kind] > 0 => Collected({})'[kind] > 0
                    /\ observer \in {"none", "exited"} => Collected({})' = Collected({})
  OBVIOUS
<1>1. /\ UNCHANGED <<schema, events, violations>> /\ main \subseteq main'
      /\ observer \in {"none", "exited"} => UNCHANGED main
  BY ClosedStep DEF input, store
<1>2. TypeOK /\ TypeOK'
  BY TypeStep DEF IInv
<1>3. \A kind \in CountKinds :
        Collected({})[kind] > 0 <=>
          /\ violations = "text" /\ events # "broken"
          /\ \/ \E f \in main : f.kind \in Behind[kind]
             \/ kind = "processes" /\ events = "records"
  BY <1>2, CollectedPositive
<1>4. \A kind \in CountKinds :
        Collected({})'[kind] > 0 <=>
          /\ violations' = "text" /\ events' # "broken"
          /\ \/ \E f \in main' : f.kind \in Behind'[kind]
             \/ kind = "processes" /\ events' = "records"
  <2>1. (TypeOK => \A kind \in CountKinds :
           Collected({})[kind] > 0 <=>
             /\ violations = "text" /\ events # "broken"
             /\ \/ \E f \in main : f.kind \in Behind[kind]
                \/ kind = "processes" /\ events = "records")'
    BY CollectedPositive, PTL
  <2> QED
    BY <1>2, <2>1
<1>5. Behind' = Behind
  BY <1>1 DEF Behind
<1>6. observer \in {"none", "exited"} => Collected({})' = Collected({})
  BY <1>1 DEF Collected, NoCounts, FromStore, RowsOf
<1> QED
  BY <1>1, <1>3, <1>4, <1>5, <1>6

\* So what was said of a record when it was closed stays true.
LEMMA ClosedInv ==
  IInv /\ pc = "closed" /\ [Next]_vars => Recorded'
<1> SUFFICES ASSUME IInv, pc = "closed", [Next]_vars
             PROVE  Recorded'
  OBVIOUS
<1>1. /\ pc' = "closed"
      /\ UNCHANGED <<schema, events, survives, plane, recorded, witness>>
      /\ ~survives => UNCHANGED violations
      /\ observer \in {"none", "exited"} => UNCHANGED observer
  BY ClosedStep DEF input
<1>2. WitnessTyped' /\ ClosedOnce'
  BY <1>1 DEF IInv, Recorded, WitnessTyped, ClosedOnce
<1>3. StaysDown'
  BY <1>1 DEF IInv, Recorded, StaysDown
<1>4. Stands'
  <2> SUFFICES ASSUME witness.finished, ~survives
               PROVE  Stands'
    BY <1>1 DEF Stands
  <2>1. /\ witness.readable <=> violations = "text" /\ events # "broken"
        /\ \A kind \in CountKinds : recorded.counts[kind] > 0 => Collected({})[kind] > 0
        /\ witness.observer \in {"none", "exited"} =>
             recorded.counts = Collected({}) /\ observer \in {"none", "exited"}
    BY DEF IInv, Recorded, Stands, StaysDown
  <2>2. /\ \A kind \in CountKinds : Collected({})[kind] > 0 => Collected({})'[kind] > 0
        /\ observer \in {"none", "exited"} => Collected({})' = Collected({})
    BY StillCollected
  <2> QED
    BY <1>1, <2>1, <2>2 DEF Stands
<1>5. CleanStopIsCounted'
  BY <1>1 DEF IInv, Recorded, CleanStopIsCounted, Signal
<1> QED
  BY <1>2, <1>3, <1>4, <1>5 DEF Recorded

----------------------------------------------------------------------------
(* The theorems. *)

\* Every step keeps the invariant.
LEMMA StepInv == IInv /\ [Next]_vars => IInv'
<1> SUFFICES ASSUME IInv, [Next]_vars PROVE IInv'
  OBVIOUS
<1>1. TypeOK' /\ LogMoved'
  BY TypeStep, OpenStep
<1>2. CASE pc = "closed"
  BY <1>1, <1>2, ClosedInv DEF IInv, Recorded
<1>3. CASE pc # "closed" /\ pc' = "closed"
  BY <1>1, <1>3, ClosingStep, FinishInv, AbortInv DEF IInv, Recorded
<1>4. CASE pc # "closed" /\ pc' # "closed"
  <2>1. UNCHANGED <<recorded, witness>> /\ recorded = Nothing
    BY <1>4, OpenStep DEF IInv, Recorded, ClosedOnce
  <2>2. WitnessTyped' /\ ClosedOnce' /\ StaysDown' /\ Stands' /\ CleanStopIsCounted'
    BY <1>4, <2>1
    DEF IInv, Recorded, WitnessTyped, ClosedOnce, StaysDown, Stands, CleanStopIsCounted
  <2> QED
    BY <1>1, <2>2 DEF IInv, Recorded
<1> QED
  BY <1>2, <1>3, <1>4

\* The inductive invariant is one.
LEMMA Invariant == Spec => []IInv
BY InitInv, StepInv, PTL DEF Spec

\* Every variable always holds a value of its type: in particular only a plane that was
\* active is recorded as degraded (run.rs, finish), whatever a collection fails on.
THEOREM TypeCorrect == Spec => []TypeOK
<1>1. IInv => TypeOK
  BY DEF IInv
<1> QED
  BY <1>1, Invariant, PTL

\* Of an observer that closed its store, whatever it saw and in whatever order its rows
\* were moved, a finished run counts everything (observations.rs, collect_from_sqlite),
\* and its plane is as active as there was something to see (run.rs, finish).
THEOREM CleanStopCounted == Spec => []CleanStopIsCounted
<1>1. IInv => CleanStopIsCounted
  BY DEF IInv, Recorded
<1> QED
  BY <1>1, Invariant, PTL

\* A report made at any later time (commands.rs, report) has something of every kind
\* that the record of a finished run counts, and is that record when nothing was left in
\* the log, provided no engine still writes.
THEOREM ReportKept == Spec => ReportKeepsRecord
<1> DEFINE Kept == witness.finished /\ ~survives /\ observer \notin Alive =>
             /\ \A kind \in CountKinds :
                  recorded.counts[kind] > 0 => shown'.counts[kind] > 0
             /\ witness.observer \in {"none", "exited"} => shown' = recorded
<1>1. IInv /\ [Next]_vars =>
        [shown' # shown /\ witness.finished /\ ~survives /\ observer \notin Alive =>
           /\ \A kind \in CountKinds : recorded.counts[kind] > 0 => shown'.counts[kind] > 0
           /\ witness.observer \in {"none", "exited"} => shown' = recorded]_vars
  <2> SUFFICES ASSUME IInv, [Next]_vars, shown' # shown PROVE Kept
    OBVIOUS
  <2>1. Report
    BY DEF Next, vars, See, Checkpoint, ObserverCloses, ObserverCrashes, PolicyWrites,
           NotStarted, Start, Settle, Stop, Finish, Abort
  <2> SUFFICES ASSUME witness.finished, ~survives, observer \notin Alive
               PROVE  /\ \A kind \in CountKinds :
                           recorded.counts[kind] > 0 => shown'.counts[kind] > 0
                      /\ witness.observer \in {"none", "exited"} => shown' = recorded
    OBVIOUS
  <2>2. shown' = [plane |-> recorded.plane, counts |-> Collected({})]
    BY <2>1, FailedQueries DEF Report
  <2>3. /\ \A kind \in CountKinds : recorded.counts[kind] > 0 => Collected({})[kind] > 0
        /\ witness.observer \in {"none", "exited"} => recorded.counts = Collected({})
    BY <2>1 DEF IInv, Recorded, Stands, Report
  <2>4. recorded \in Reports
    BY <2>1 DEF Report, IInv, Recorded, TypeOK, ClosedOnce
  <2>5. recorded = [plane |-> recorded.plane, counts |-> recorded.counts]
    BY <2>4 DEF Reports
  <2> QED
    BY <2>2, <2>3, <2>5
<1> QED
  BY <1>1, Invariant, PTL DEF Spec, ReportKeepsRecord
=============================================================================
