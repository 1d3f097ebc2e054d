----------------------------- MODULE Observing -----------------------------
(***************************************************************************)
(* How what agentsight sees gets into the counts of a record and of its    *)
(* reports: ObservabilityPlane (crates/actime-cli/src/planes.rs),          *)
(* Observations::collect (crates/actime-core/src/observations.rs), finish  *)
(* (crates/actime-cli/src/run.rs) and `actime report`.                     *)
(*                                                                         *)
(* agentsight commits rows to the log of its SQLite store, which it moves  *)
(* to the main file from time to time and when it closes the store.        *)
(* Actime opens the store as immutable, and so reads the main file only.   *)
(* The policy engine's violations.jsonl, which Harvest is about, is here   *)
(* because a collection that cannot read it counts nothing at all.         *)
(***************************************************************************)
EXTENDS Integers, FiniteSets

CONSTANTS
  Facts          \* what agentsight may see, each at most once: [kind, object, id]

ASSUME ConstantsAssumption ==
  /\ IsFiniteSet(Facts)
  /\ \A f \in Facts : f.kind \in {"exec", "exit", "write", "connect", "llm"}

VARIABLES
  schema,        \* of the store: "0.2", "kind" (an older one) or "unknown"
  events,        \* events.jsonl of the run: "none", "records" or "broken"
  survives,      \* whether the policy engine survives its SIGKILL
  violations,    \* violations.jsonl: "text" or "broken"
  observer,      \* agentsight: "none", "running", "exited", "dead" or a "survivor"
  log,           \* facts in the log of the store
  main,          \* facts in its main file
  plane,         \* the observability plane
  pc,            \* control point of actime
  recorded,      \* the closed record: [plane, counts], or Nothing
  shown,         \* the latest report, or Nothing
  witness        \* history: the observer and what it had seen as the record was closed

input == <<schema, events, survives>>
store == <<log, main>>
vars  == <<input, violations, observer, store, plane, pc, recorded, shown, witness>>

Nothing == [plane |-> "not started", counts |-> <<>>]

Alive == {"running", "survivor"}

----------------------------------------------------------------------------
(* The engines and the user. *)

See ==
  /\ observer \in Alive
  /\ \E f \in Facts \ (log \cup main) : log' = log \cup {f}
  /\ UNCHANGED <<input, violations, observer, main, plane, pc, recorded, shown, witness>>

\* By agentsight, or by anyone who opens the store when agentsight is gone.
Checkpoint ==
  /\ observer # "none" /\ log # {}
  /\ main' = main \cup log /\ log' = {}
  /\ UNCHANGED <<input, violations, observer, plane, pc, recorded, shown, witness>>

ObserverCloses ==
  /\ observer \in Alive
  /\ observer' = "exited"
  /\ main' = main \cup log /\ log' = {}
  /\ UNCHANGED <<input, violations, plane, pc, recorded, shown, witness>>

ObserverCrashes ==
  /\ observer \in Alive
  /\ observer' = "dead"
  /\ UNCHANGED <<input, violations, store, plane, pc, recorded, shown, witness>>

\* Until it is stopped, or for ever, the policy engine adds to violations.jsonl,
\* whose end may for a while, or for good, be no text.
PolicyWrites ==
  /\ pc # "closed" \/ survives
  /\ violations' = IF violations = "text" THEN "broken" ELSE "text"
  /\ UNCHANGED <<input, observer, store, plane, pc, recorded, shown, witness>>

----------------------------------------------------------------------------
(* The plane. *)

\* Nothing is started when the plane is off, agentsight is not there or not allowed.
NotStarted ==
  /\ pc = "start"
  /\ plane' = "Disabled"
  /\ pc' = "run"
  /\ UNCHANGED <<input, violations, observer, store, recorded, shown, witness>>

Start ==
  /\ pc = "start"
  /\ observer' = "running"
  /\ pc' = "settle"
  /\ UNCHANGED <<input, violations, store, plane, recorded, shown, witness>>

\* settle_engine: alive after a short while is Active.
Settle ==
  /\ pc = "settle"
  /\ plane' = IF observer = "running" THEN "Active" ELSE "Disabled"
  /\ pc' = "run"
  /\ UNCHANGED <<input, violations, observer, store, recorded, shown, witness>>

\* stop_child: SIGTERM, on which agentsight closes its store within the grace or is
\* killed; SIGKILL may hit sudo alone, or not be taken.  Then the run is finished,
\* or aborted, when a policy that has to be enforced turns out not to be.
Stop ==
  /\ pc = "run"
  /\ \E end \in {"exited", "dead", "survivor"} :
       IF observer = "running"
         THEN /\ observer' = end
              /\ main' = IF end = "exited" THEN main \cup log ELSE main
              /\ log' = IF end = "exited" THEN {} ELSE log
         ELSE UNCHANGED <<observer, store>>
  /\ pc' \in {"finish", "abort"}
  /\ UNCHANGED <<input, violations, plane, recorded, shown, witness>>

----------------------------------------------------------------------------
(* Collection. *)

CountKinds == {"processes", "files_written", "endpoints", "llm_calls"}
NoCounts == [kind \in CountKinds |-> 0]

RowsOf(kinds) == Cardinality({f \in main : f.kind \in kinds})

\* collect_from_sqlite.  Of the 0.2 schema the tables of processes and of targets
\* count before the audit rows; of the older one only the kind of an audit row is
\* known, and a row counts once for every pattern it matches.  (A wrong form: the
\* targets are counted beside the audit rows of the network.)
FromStore_Added ==
  CASE schema = "0.2" ->
         [processes |-> IF RowsOf({"exec"}) > 0 THEN RowsOf({"exec"}) ELSE RowsOf({"exit"}),
          files_written |-> RowsOf({"write"}),
          endpoints |-> RowsOf({"connect"}) +
                        Cardinality({f.object : f \in {g \in main : g.kind = "connect"}}),
          llm_calls |-> RowsOf({"llm"})]
    [] OTHER -> NoCounts
FromStore ==
  CASE schema = "0.2" ->
         [processes |-> IF RowsOf({"exec"}) > 0 THEN RowsOf({"exec"}) ELSE RowsOf({"exit"}),
          files_written |-> RowsOf({"write"}),
          endpoints |-> Cardinality({f.object : f \in {g \in main : g.kind = "connect"}}),
          llm_calls |-> RowsOf({"llm"})]
    [] schema = "kind" ->
         [processes |-> 2 * RowsOf({"exec"}) + RowsOf({"exit"}),
          files_written |-> 2 * RowsOf({"write"}),
          endpoints |-> RowsOf({"connect"}),
          llm_calls |-> 0]
    [] OTHER -> NoCounts

\* The store is read without a lock: of one that is written meanwhile a query may
\* fail, and its count is zero.
Failed == IF observer \in Alive THEN SUBSET CountKinds ELSE {{}}

\* Observations::collect, and the default of one that fails: no text in one of the
\* files is an error, anything about the store is not.  A record of events.jsonl
\* counts on top of the store.  (A wrong form: on top of the record.)
Collected_Seeded(failed) ==
  IF violations = "broken" \/ events = "broken" THEN NoCounts
  ELSE LET base == IF recorded = Nothing THEN NoCounts ELSE recorded.counts
       IN  [kind \in CountKinds |->
              (IF FromStore[kind] > 0 THEN FromStore[kind] ELSE base[kind]) +
              (IF kind = "processes" /\ events = "records" THEN 1 ELSE 0)]
Collected(failed) ==
  IF violations = "broken" \/ events = "broken" THEN NoCounts
  ELSE [kind \in CountKinds |->
          (IF kind \in failed THEN 0 ELSE FromStore[kind]) +
          (IF kind = "processes" /\ events = "records" THEN 1 ELSE 0)]

\* has_observational_signal.
Signal(counts) == \E kind \in CountKinds : counts[kind] > 0

\* The plane of a finished run.  (A wrong form: whatever it was.)
PlaneAfter_AnyPlane(counts) == IF ~Signal(counts) THEN "Degraded" ELSE plane
PlaneAfter(counts) ==
  IF plane = "Active" /\ ~Signal(counts) THEN "Degraded" ELSE plane

Witness(finished) ==
  [finished |-> finished, observer |-> observer, saw |-> log \cup main,
   readable |-> violations = "text" /\ events # "broken"]

Finish ==
  /\ pc = "finish"
  /\ \E failed \in Failed :
       recorded' = [plane |-> PlaneAfter(Collected(failed)), counts |-> Collected(failed)]
  /\ witness' = Witness(TRUE)
  /\ pc' = "closed"
  /\ UNCHANGED <<input, violations, observer, store, plane, shown>>

\* finalize_aborted closes the record with the plane as it is and counts nothing in it.
Abort ==
  /\ pc = "abort"
  /\ recorded' = [plane |-> plane, counts |-> NoCounts]
  /\ witness' = Witness(FALSE)
  /\ pc' = "closed"
  /\ UNCHANGED <<input, violations, observer, store, plane, shown>>

\* `actime report` collects anew.
Report ==
  /\ pc = "closed"
  /\ \E failed \in Failed :
       shown' = [plane |-> recorded.plane, counts |-> Collected(failed)]
  /\ UNCHANGED <<input, violations, observer, store, plane, pc, recorded, witness>>

----------------------------------------------------------------------------

Init ==
  /\ schema \in {"0.2", "kind", "unknown"}
  /\ events \in {"none", "records", "broken"}
  /\ survives \in BOOLEAN
  /\ violations = "text"
  /\ observer = "none"
  /\ log = {} /\ main = {}
  /\ plane = "Disabled"
  /\ pc = "start"
  /\ recorded = Nothing
  /\ shown = Nothing
  /\ witness = Witness(FALSE)

Next ==
  \/ See \/ Checkpoint \/ ObserverCloses \/ ObserverCrashes \/ PolicyWrites
  \/ NotStarted \/ Start \/ Settle \/ Stop \/ Finish \/ Abort \/ Report

Spec == Init /\ [][Next]_vars

----------------------------------------------------------------------------
(* Properties. *)

Reports == [plane : {"Disabled", "Active", "Degraded"}, counts : [CountKinds -> Nat]]

\* Every variable holds a value the program can give it; only an active plane can
\* have been degraded.
TypeOK ==
  /\ schema \in {"0.2", "kind", "unknown"}
  /\ events \in {"none", "records", "broken"}
  /\ survives \in BOOLEAN /\ violations \in {"text", "broken"}
  /\ observer \in {"none", "running", "exited", "dead", "survivor"}
  /\ log \subseteq Facts /\ main \subseteq Facts \ log
  /\ plane \in {"Disabled", "Active"}
  /\ pc \in {"start", "settle", "run", "finish", "abort", "closed"}
  /\ {recorded, shown} \subseteq Reports \cup {Nothing}
  /\ recorded.plane = "Degraded" => plane = "Active"

\* Of a finished run whose observer had closed its store and whose other files could
\* be read, the record counts what the observer saw, and the plane is Active if and
\* only if it had settled and there was something to see.
CleanStopIsCounted ==
  recorded # Nothing /\ witness.finished /\ witness.readable /\
  witness.observer = "exited" /\ schema = "0.2" /\ events = "none" =>
    LET saw(kinds) == {f \in witness.saw : f.kind \in kinds}
    IN  /\ recorded.counts.files_written = Cardinality(saw({"write"}))
        /\ recorded.counts.llm_calls = Cardinality(saw({"llm"}))
        /\ recorded.counts.endpoints \in 0 .. Cardinality(saw({"connect"}))
        /\ Signal(recorded.counts) <=> witness.saw # {}
        /\ plane = "Active" => (recorded.plane = "Active" <=> witness.saw # {})

\* A report repeats the counts of a finished run if no engine survived it and nothing
\* was left in the log of the store; with something left there, or an observer that
\* went on for a while, it still shows some of every kind of thing the record counts.
ReportKeepsRecord ==
  [][shown' # shown /\ witness.finished /\ ~survives /\ observer \notin Alive =>
       /\ \A kind \in CountKinds : recorded.counts[kind] > 0 => shown'.counts[kind] > 0
       /\ witness.observer \in {"none", "exited"} => shown' = recorded]_vars

----------------------------------------------------------------------------
(* What the documents say and the code does not do. *)

\* "If your counters are zero but observability.db has rows", the schema is to blame:
\* not when rows are in its log, or when violations.jsonl cannot be read.
ZeroMeansUnknownSchema ==
  recorded # Nothing /\ witness.finished /\ events = "none" /\
  ~Signal(recorded.counts) /\ witness.saw # {} => schema = "unknown"
=============================================================================
