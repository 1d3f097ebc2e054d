------------------------------ MODULE Harvest ------------------------------
(***************************************************************************)
(* How the violations of a run get from the policy engine into             *)
(* violations.jsonl, into the counts of the record and into the exit       *)
(* status: harvest_actplane_events and finish                              *)
(* (crates/actime-cli/src/run.rs), Observations::collect                   *)
(* (crates/actime-core/src/observations.rs).                               *)
(*                                                                         *)
(* The engine buffers its events and appends them to a file, events.jsonl  *)
(* of its own run tree or violations.jsonl itself; it leaves traces of a   *)
(* block or a kill in feedback.txt and in its log.  When it is stopped it  *)
(* may flush, die in the middle of a line, or survive and go on writing.   *)
(* Of a file only its lines, and how it ends, matter here.                 *)
(***************************************************************************)
EXTENDS Integers

CONSTANTS
  Violations,    \* what the policy may report, each at most once
  Layouts,       \* "scoped": events.jsonl in a run tree, as `actplane run` does it;
                 \* "direct": violations.jsonl, the file that policy.yaml names
  Polls,         \* further looks at an empty run tree (20 in the code)
  Foreign        \* a line of the log that reads as a kill and is none of the policy's

ASSUME ConstantsAssumption ==
  /\ Layouts \subseteq {"scoped", "direct"}
  /\ Polls \in Nat
  /\ Foreign \notin Violations

VARIABLES
  effect,        \* effect of each violation
  failOn,        \* --fail-on-violation, of `actime run` only
  layout,        \* where the engine writes its events
  eventsRead,    \* the run's own events.jsonl, which collect reads too, is text or absent
  engine,        \* "running", "flushed" or "cut short" when it has exited, or "stuck"
  happened,      \* violations that happened
  buffer,        \* those the engine has not written yet
  hasTree,       \* actplane/runs is a directory
  tree,          \* events.jsonl in it
  file,          \* violations.jsonl
  feedback,      \* the violation that feedback.txt ends with, or None
  banner,        \* the kill that the engine log ends with, Foreign, or None
  pc,            \* control point of the main thread
  looks,         \* further looks taken
  collected,     \* what the harvest will append
  existing,      \* violations.jsonl as the harvest read it
  counted,       \* lines per violation that collect counted
  result         \* exit status of actime, for an agent that exited with 0

main   == <<pc, looks, collected, existing, counted, result>>
traces == <<feedback, banner>>
config == <<effect, failOn, layout, eventsRead>>
vars == <<config, engine, happened, buffer, hasTree, tree, file, traces, main>>

None == "none"
Lines == Violations \cup {Foreign}

\* How a file ends: after a line, within one, or within a character of one.
Ends == {"whole", "torn", "broken"}

\* How many lines of a file are about each violation.
NoLines == [line \in Lines |-> 0]
Empty   == [lines |-> NoLines, end |-> "whole"]
Append(f, set) ==
  [lines |-> [line \in Lines |-> f.lines[line] + IF line \in set THEN 1 ELSE 0],
   end |-> "whole"]

Stops(v) == effect[v] \in {"block", "kill"}

\* read_to_string succeeds.
Readable(f) == f.end # "broken"
Blank(f)    == f.lines = NoLines /\ f.end = "whole"

----------------------------------------------------------------------------
(* The engine and the agent. *)

MakeTree ==
  /\ engine = "running" /\ layout = "scoped"
  /\ ~hasTree
  /\ hasTree' = TRUE
  /\ UNCHANGED <<config, engine, happened, buffer, tree, file, traces, main>>

\* A violation.  A block or a kill is told to the agent, when feedback is on, and
\* a kill is shown in the log.
Violate ==
  /\ engine = "running" /\ pc = "run"
  /\ layout = "scoped" => hasTree
  /\ \E v \in Violations \ happened :
       /\ happened' = happened \cup {v}
       /\ buffer' = buffer \cup {v}
       /\ feedback' \in {feedback} \cup (IF Stops(v) THEN {v} ELSE {})
       /\ banner' \in {banner} \cup (IF effect[v] = "kill" THEN {v} ELSE {})
  /\ UNCHANGED <<config, engine, hasTree, tree, file, main>>

\* The agent shares the engine's stderr: a shell in it reports a process that died
\* of SIGKILL for a reason of its own.
AgentPrintsKilled ==
  /\ engine = "running" /\ pc = "run"
  /\ banner' = Foreign
  /\ UNCHANGED <<config, engine, happened, buffer, hasTree, tree, file, feedback, main>>

Writes(set) ==
  IF layout = "scoped" THEN tree' = Append(tree, set) /\ UNCHANGED file
                       ELSE file' = Append(file, set) /\ UNCHANGED tree

Flush ==
  /\ engine \in {"running", "stuck"}
  /\ \E v \in buffer : Writes({v}) /\ buffer' = buffer \ {v}
  /\ UNCHANGED <<config, engine, happened, hasTree, traces, main>>

ExitFlushed ==
  /\ engine = "running"
  /\ engine' = "flushed"
  /\ Writes(buffer)
  /\ buffer' = {}
  /\ UNCHANGED <<config, happened, hasTree, traces, main>>

\* Its buffer is lost, save for the beginning of a line.
ExitCutShort ==
  /\ engine \in {"running", "stuck"}
  /\ engine' = "cut short"
  /\ \E end \in (IF buffer = {} THEN {"whole"} ELSE Ends) :
       IF layout = "scoped" THEN tree' = [tree EXCEPT !.end = end] /\ UNCHANGED file
                            ELSE file' = [file EXCEPT !.end = end] /\ UNCHANGED tree
  /\ buffer' = {}
  /\ UNCHANGED <<config, happened, hasTree, traces, main>>

----------------------------------------------------------------------------
(* The main thread. *)

\* The engine is stopped: it is gone, or it has survived SIGKILL and goes on.
StopEngine ==
  /\ pc = "run"
  /\ engine' = IF engine = "running" THEN "stuck" ELSE engine
  /\ pc' = "look"
  /\ UNCHANGED <<config, happened, buffer, hasTree, tree, file, traces, looks, collected,
                 existing, counted, result>>

Unread == Blank(tree) \/ ~Readable(tree)

LinesOf(f) == {line \in Lines : f.lines[line] > 0}

\* append_events_from_run_tree finds text: it is all that will be appended.
LookFinds ==
  /\ pc = "look"
  /\ ~Unread
  /\ collected' = LinesOf(tree)
  /\ pc' = "read"
  /\ UNCHANGED <<config, engine, happened, buffer, hasTree, tree, file, traces, looks,
                 existing, counted, result>>

\* It finds none and there is a tree to look at again.  (A wrong form: once too
\* often.)
LookAgain_OneMore ==
  /\ pc = "look"
  /\ Unread
  /\ hasTree /\ looks <= Polls
  /\ looks' = looks + 1
  /\ UNCHANGED <<config, engine, happened, buffer, hasTree, tree, file, traces, pc,
                 collected, existing, counted, result>>
LookAgain ==
  /\ pc = "look"
  /\ Unread
  /\ hasTree /\ looks < Polls
  /\ looks' = looks + 1
  /\ UNCHANGED <<config, engine, happened, buffer, hasTree, tree, file, traces, pc,
                 collected, existing, counted, result>>

\* The trace that stands for the lost events: feedback first, then the log.
\* (A wrong form: only the log.)
Synthesized_LogOnly == {banner} \ {None}
Synthesized == IF feedback # None THEN {feedback} ELSE {banner} \ {None}

FallBack ==
  /\ pc = "look"
  /\ Unread
  /\ ~(hasTree /\ looks < Polls)
  /\ collected' = Synthesized
  /\ pc' = IF Synthesized = {} THEN "collect" ELSE "read"
  /\ UNCHANGED <<config, engine, happened, buffer, hasTree, tree, file, traces, looks,
                 existing, counted, result>>

\* write_violations: the file is read, and written back with what was collected
\* after it, on a line of its own.  A file that is no text is taken for empty.
\* (A wrong form: any file is.)
ReadExisting_Dropped ==
  /\ pc = "read"
  /\ existing' = Empty
  /\ pc' = "write"
  /\ UNCHANGED <<config, engine, happened, buffer, hasTree, tree, file, traces, looks,
                 collected, counted, result>>
ReadExisting ==
  /\ pc = "read"
  /\ existing' = IF Readable(file) THEN file ELSE Empty
  /\ pc' = "write"
  /\ UNCHANGED <<config, engine, happened, buffer, hasTree, tree, file, traces, looks,
                 collected, counted, result>>

WriteBack ==
  /\ pc = "write"
  /\ file' = Append(existing, collected)
  /\ pc' = "collect"
  /\ UNCHANGED <<config, engine, happened, buffer, hasTree, tree, traces, looks, collected,
                 existing, counted, result>>

\* A line of violations.jsonl that does not parse is skipped.  One that is no text, in
\* it or in events.jsonl, fails the collection, which then counts nothing.
Counts(f) == IF Readable(f) /\ eventsRead THEN f.lines ELSE NoLines

\* A synthesized kill that is none of the policy's is a kill like any other.
EffectOf(line) == IF line = Foreign THEN "kill" ELSE effect[line]

\* finish: exit status 3 for a block or a kill.
Forces(line) == EffectOf(line) \in {"block", "kill"}

Collect ==
  /\ pc = "collect"
  /\ counted' = Counts(file)
  /\ result' = IF failOn /\ \E line \in Lines : counted'[line] > 0 /\ Forces(line)
                 THEN 3 ELSE 0
  /\ pc' = "done"
  /\ UNCHANGED <<config, engine, happened, buffer, hasTree, tree, file, traces, looks,
                 collected, existing>>

----------------------------------------------------------------------------

Init ==
  /\ effect \in [Violations -> {"notify", "block", "kill"}]
  /\ layout \in Layouts
  /\ failOn \in (IF layout = "scoped" THEN BOOLEAN ELSE {FALSE})
  /\ eventsRead \in BOOLEAN
  /\ engine = "running"
  /\ happened = {}
  /\ buffer = {}
  /\ hasTree = FALSE
  /\ tree = Empty
  /\ file = Empty
  /\ feedback = None
  /\ banner = None
  /\ pc = "run"
  /\ looks = 0
  /\ collected = {}
  /\ existing = Empty
  /\ counted = NoLines
  /\ result = 0

Harvesting == LookFinds \/ LookAgain \/ FallBack \/ ReadExisting \/ WriteBack \/ Collect

Next ==
  \/ MakeTree \/ Violate \/ AgentPrintsKilled \/ Flush \/ ExitFlushed \/ ExitCutShort
  \/ StopEngine \/ Harvesting

Spec == Init /\ [][Next]_vars

----------------------------------------------------------------------------
(* Properties. *)

\* Every variable holds a value the program can give it: no violation has more
\* than an engine's line and a harvested one.
TypeOK ==
  LET Text == [lines : [Lines -> 0 .. 2], end : Ends]
  IN  /\ effect \in [Violations -> {"notify", "block", "kill"}]
      /\ failOn \in BOOLEAN /\ layout \in Layouts
      /\ eventsRead \in BOOLEAN /\ hasTree \in BOOLEAN
      /\ engine \in {"running", "flushed", "cut short", "stuck"}
      /\ buffer \subseteq happened /\ happened \subseteq Violations
      /\ {tree, file, existing} \subseteq Text
      /\ feedback \in Violations \cup {None}
      /\ banner \in Lines \cup {None}
      /\ pc \in {"run", "look", "read", "write", "collect", "done"}
      /\ looks \in 0 .. Polls
      /\ collected \subseteq Lines
      /\ counted \in [Lines -> 0 .. 2]
      /\ result \in {0, 3}

\* After an engine that flushed, every violation is counted and none that did not
\* happen; and where the engine writes to a tree of its own, each is counted once.
\* Not so when events.jsonl, which has nothing to do with it, cannot be read.
FlushedIsComplete ==
  pc = "done" /\ engine = "flushed" /\ eventsRead =>
    \A v \in Violations :
      /\ counted[v] > 0 <=> v \in happened
      /\ layout = "scoped" => counted[v] <= 1

\* When no event reached the disk, a block or a kill that the agent was told of
\* still makes the exit status 3, unless events.jsonl cannot be read.
FeedbackStandsIn ==
  pc = "done" /\ failOn /\ feedback # None /\ Blank(tree) /\ eventsRead => result = 3
=============================================================================
