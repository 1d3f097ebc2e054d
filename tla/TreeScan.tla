------------------------------ MODULE TreeScan ------------------------------
(***************************************************************************)
(* How `actime run` sees whether an agent is left below the policy engine  *)
(* (wrap_tree_has_agent, collect_descendants and direct_children in        *)
(* crates/actime-cli/src/run.rs): a walk down the process tree that reads  *)
(* /proc one file at a time, while processes fork, change their names,     *)
(* exit and give up their numbers to others.                               *)
(*                                                                         *)
(* WrapWait takes the answer for the truth at one instant; this is what    *)
(* the answer is worth.  A process that has died counts as one until it is *)
(* reaped, as it does in /proc.  Names that WrapWait has too begin with    *)
(* "Scan" here, so that a module can extend both.                          *)
(***************************************************************************)
EXTENDS Integers, FiniteSets, SequencesExt

CONSTANTS
  Pids,        \* process numbers, the wrap's included
  Wrap,        \* `actplane run`, alive for as long as it is looked at
  Guard        \* processes visited at most: 10,000 in the code

ASSUME ScanConstantsAssumption ==
  /\ Pids \subseteq Nat \ {0, 1}
  /\ Wrap \in Pids
  /\ Guard \in Nat \ {0}

VARIABLES
  parent,      \* parent of each number in use, or Free
  comm,        \* "helper" or "agent": whether its name is one of the helpers'
  phase,       \* control point of the walk
  stack,       \* numbers to visit
  out,         \* descendants found
  visits,      \* numbers visited
  at,          \* the one being visited
  listed,      \* entries of /proc that remain to be read for it
  steady       \* history: agents below the wrap by one chain since the walk began

table == <<parent, comm>>
walk  == <<phase, stack, out, visits, at, listed>>
scanVars  == <<table, walk, steady>>

Free   == 0
Reaper == 1       \* init, or whoever adopts the orphans

InUse == {p \in Pids : parent[p] # Free}
Children(p) == {q \in InUse : parent[q] = p}

\* A set of numbers that no child leaves.
Closed(set) == \A q \in InUse : parent[q] \in set => q \in set

\* Who is below p: its children, theirs and so on, the least such set.
Below(p) ==
  {q \in InUse :
     \A set \in SUBSET InUse : Children(p) \subseteq set /\ Closed(set) => q \in set}

----------------------------------------------------------------------------
(* The processes. *)

Fork ==
  \E p \in InUse, q \in Pids \ InUse :
    /\ parent' = [parent EXCEPT ![q] = p]
    /\ comm' = [comm EXCEPT ![q] = comm[p]]
    /\ UNCHANGED <<walk, steady>>

\* A process becomes an agent, or takes a helper's name.
Exec ==
  \E p \in InUse \ {Wrap} :
    /\ comm' = [comm EXCEPT ![p] = IF @ = "helper" THEN "agent" ELSE "helper"]
    /\ steady' = steady \ {p}
    /\ UNCHANGED <<parent, walk>>

\* A process is gone; its children are adopted and leave the wrap's tree.
Exit ==
  \E p \in InUse \ {Wrap} :
    /\ parent' = [q \in Pids |-> IF q = p THEN Free
                                 ELSE IF parent[q] = p THEN Reaper ELSE parent[q]]
    /\ comm' = [comm EXCEPT ![p] = "helper"]
    /\ steady' = steady \ ({p} \cup Below(p))
    /\ UNCHANGED walk

----------------------------------------------------------------------------
(* The walk. *)

Begin ==
  /\ phase \in {"idle", "yes", "no"}
  /\ phase' = "visit"
  /\ stack' = <<Wrap>> /\ out' = <<>> /\ visits' = 0
  /\ at' = Wrap /\ listed' = {}
  /\ steady' = {p \in Below(Wrap) : comm[p] = "agent"}
  /\ UNCHANGED table

\* The next number, and a listing of /proc for it.  (A wrong form: one number more.)
Visit_OneMore ==
  /\ phase = "visit" /\ stack # <<>> /\ visits <= Guard
  /\ visits' = visits + 1
  /\ at' = Last(stack)
  /\ listed' = InUse \ {Last(stack)}
  /\ stack' = Front(stack)
  /\ phase' = "read"
  /\ UNCHANGED <<table, out, steady>>
Visit ==
  /\ phase = "visit" /\ stack # <<>> /\ visits < Guard
  /\ visits' = visits + 1
  /\ at' = Last(stack)
  /\ listed' = InUse \ {Last(stack)}
  /\ stack' = Front(stack)
  /\ phase' = "read"
  /\ UNCHANGED <<table, out, steady>>

\* /proc/<pid>/stat, in the order of the listing; one that is gone is skipped.
\* (Wrong forms: only the first child is followed; one that is gone makes it list
\* /proc again.)
ReadStat_FirstChild ==
  /\ phase = "read"
  /\ \E p \in listed :
       /\ \A q \in listed : p <= q
       /\ listed' = IF parent[p] = at THEN {} ELSE listed \ {p}
       /\ IF parent[p] = at
            THEN out' = Append(out, p) /\ stack' = Append(stack, p)
            ELSE UNCHANGED <<out, stack>>
  /\ UNCHANGED <<table, phase, visits, at, steady>>
ReadStat_Again ==
  /\ phase = "read"
  /\ \E p \in listed :
       /\ \A q \in listed : p <= q
       /\ listed' = IF p \in InUse THEN listed \ {p} ELSE InUse \ {at}
       /\ IF parent[p] = at
            THEN out' = Append(out, p) /\ stack' = Append(stack, p)
            ELSE UNCHANGED <<out, stack>>
  /\ UNCHANGED <<table, phase, visits, at, steady>>
ReadStat ==
  /\ phase = "read"
  /\ \E p \in listed :
       /\ \A q \in listed : p <= q
       /\ listed' = listed \ {p}
       /\ IF parent[p] = at
            THEN out' = Append(out, p) /\ stack' = Append(stack, p)
            ELSE UNCHANGED <<out, stack>>
  /\ UNCHANGED <<table, phase, visits, at, steady>>

Visited ==
  /\ phase = "read" /\ listed = {}
  /\ phase' = "visit"
  /\ at' = Wrap
  /\ UNCHANGED <<table, stack, out, visits, listed, steady>>

\* Nothing is left to visit, or too much.
Collected ==
  /\ phase = "visit"
  /\ stack = <<>> \/ visits = Guard
  /\ phase' = "names"
  /\ UNCHANGED <<table, stack, out, visits, at, listed, steady>>

\* /proc/<pid>/comm: any name but a helper's is an agent, and so is no name.
ReadComm ==
  /\ phase = "names" /\ out # <<>>
  /\ IF Head(out) \notin InUse \/ comm[Head(out)] = "agent"
       THEN phase' = "yes" /\ out' = <<>> /\ stack' = <<>>
       ELSE out' = Tail(out) /\ UNCHANGED <<phase, stack>>
  /\ UNCHANGED <<table, visits, at, listed, steady>>

NoneLeft ==
  /\ phase = "names" /\ out = <<>>
  /\ phase' = "no"
  /\ UNCHANGED <<table, stack, out, visits, at, listed, steady>>

----------------------------------------------------------------------------

ScanInit ==
  /\ parent = [p \in Pids |-> IF p = Wrap THEN Reaper ELSE Free]
  /\ comm = [p \in Pids |-> "helper"]
  /\ phase = "idle"
  /\ stack = <<>> /\ out = <<>> /\ visits = 0
  /\ at = Wrap /\ listed = {}
  /\ steady = {}

Walk == Visit \/ ReadStat \/ Visited \/ Collected \/ ReadComm \/ NoneLeft

ScanNext == Begin \/ Walk \/ Fork \/ Exec \/ Exit

ScanSpec == ScanInit /\ [][ScanNext]_scanVars

\* actime is scheduled; what the processes do is up to them.
FairScanSpec == ScanSpec /\ WF_scanVars(Walk)

----------------------------------------------------------------------------
(* Properties. *)

\* Every variable holds a value the walk can give it: a child is read at most once
\* in a visit.
ScanTypeOK ==
  /\ parent \in [Pids -> Pids \cup {Free, Reaper}]
  /\ comm \in [Pids -> {"helper", "agent"}]
  /\ phase \in {"idle", "visit", "read", "names", "yes", "no"}
  /\ {stack, out} \subseteq Seq(Pids)
  /\ Len(stack) <= Len(out) + 1 \/ phase \in {"names", "yes", "no"}
  /\ visits \in 0 .. Guard
  /\ at \in Pids /\ listed \subseteq Pids /\ steady \subseteq InUse

\* An agent that is there from the beginning of a walk to its end is seen, whatever
\* other processes do meanwhile, if the walk got to its end: a run is not taken for
\* idle while its agent stays where it is.
StableAgentIsSeen ==
  phase = "no" /\ stack = <<>> => steady = {}

\* A walk ends, although processes may come faster than it reads them.
WalkEnds == phase = "visit" ~> phase \in {"yes", "no"}
=============================================================================
