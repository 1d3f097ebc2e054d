--------------------------- MODULE Harvest_proofs ---------------------------
(***************************************************************************)
(* Theorems about Harvest, for any set of violations and any number of     *)
(* looks at the run tree.                                                  *)
(*                                                                         *)
(* Until the harvest writes, a file holds one line for each violation that *)
(* the engine has flushed, and none for another (OneEach, Logged).  What   *)
(* the harvest collects is compared with that (CollectsAll), or, when      *)
(* nothing was flushed, with the trace the agent was left (StandsIn).      *)
(***************************************************************************)
EXTENDS Harvest, TLAPS

----------------------------------------------------------------------------
(* The inductive invariant. *)

Text == [lines : [Lines -> 0 .. 2], end : Ends]

\* The main thread has not written yet.
BeforeWrite == pc \in {"run", "look", "read", "write"}

\* The engine has written this line.
Flushed == happened \ buffer

\* An engine's file: a line for each violation that it has flushed, at most or exactly.
HasNoOther(f) == \A line \in Lines : f.lines[line] <= IF line \in Flushed THEN 1 ELSE 0
HasEach(f)    == /\ \A line \in Lines : f.lines[line] = IF line \in Flushed THEN 1 ELSE 0
                 /\ f.end = "whole"

\* No violation is written twice by the engine, even by one that outlives its stop, and
\* none is written after it by the harvest more than once.
OneEach ==
  /\ HasNoOther(tree) /\ HasNoOther(existing)
  /\ BeforeWrite => HasNoOther(file)
  /\ \A line \in buffer : file.lines[line] <= 1

\* The engine writes in one place; the other stays empty.
OnePlace ==
  /\ layout = "direct" => tree = Empty
  /\ layout = "scoped" => existing = Empty /\ (BeforeWrite => file = Empty)
  /\ failOn => layout = "scoped"

\* Unless its exit was cut short, what the engine has flushed is all there.
Logged ==
  engine # "cut short" =>
    IF layout = "scoped" THEN HasEach(tree) ELSE BeforeWrite => HasEach(file)

\* An engine runs until it is stopped, and leaves nothing when it exits in good order.
Stopped ==
  /\ pc # "run" => engine # "running"
  /\ engine = "flushed" => buffer = {}

\* The traces are of violations that happened, or foreign.
TracesHappened ==
  /\ feedback # None => feedback \in happened /\ Stops(feedback)
  /\ banner \in happened \cup {Foreign, None}

\* After an engine that flushed, what is collected and written is what happened.
CollectsAll ==
  engine = "flushed" =>
    /\ pc \in {"read", "write"} =>
         /\ collected \cap Violations \subseteq happened
         /\ layout = "scoped" => happened \subseteq collected
    /\ pc = "write" /\ layout = "direct" => HasEach(existing)
    /\ pc = "collect" =>
         /\ file.end = "whole"
         /\ \A v \in Violations : /\ file.lines[v] > 0 <=> v \in happened
                                  /\ layout = "scoped" => file.lines[v] <= 1

\* When nothing was flushed, what the agent was told of is collected and written.
StandsIn ==
  layout = "scoped" /\ feedback # None /\ Blank(tree) =>
    /\ pc \in {"read", "write"} => collected = {feedback}
    /\ pc = "collect" => Readable(file) /\ file.lines[feedback] > 0

IInv ==
  /\ TypeOK
  /\ OneEach
  /\ OnePlace
  /\ Logged
  /\ Stopped
  /\ TracesHappened
  /\ CollectsAll
  /\ StandsIn
  /\ FlushedIsComplete
  /\ FeedbackStandsIn

----------------------------------------------------------------------------
(* Types. *)

\* What an engine appends and what the harvest writes back is a text.
LEMMA AppendText ==
  ASSUME NEW f \in Text, NEW set,
         \A line \in Lines : line \in set => f.lines[line] <= 1
  PROVE  /\ Append(f, set) \in Text
         /\ Append(f, set).end = "whole"
         /\ \A line \in Lines :
              Append(f, set).lines[line] = f.lines[line] + IF line \in set THEN 1 ELSE 0
<1> DEFINE g == [line \in Lines |-> f.lines[line] + IF line \in set THEN 1 ELSE 0]
<1>1. \A line \in Lines : f.lines[line] \in 0 .. 2
  BY DEF Text
<1>2. g \in [Lines -> 0 .. 2]
  BY <1>1
<1>3. Append(f, set) = [lines |-> g, end |-> "whole"]
  BY DEF Append
<1> QED
  BY <1>2, <1>3 DEF Text, Ends

\* The empty text.
LEMMA EmptyText ==
  /\ Empty \in Text /\ Empty.end = "whole" /\ Readable(Empty)
  /\ \A line \in Lines : Empty.lines[line] = 0
  /\ NoLines \in [Lines -> 0 .. 2]
BY DEF Empty, NoLines, Text, Ends, Readable

\* A count below its bound may be incremented.
LEMMA CountOn ==
  ASSUME NEW bound \in Nat, NEW n \in 0 .. bound, n < bound
  PROVE  n + 1 \in 0 .. bound
OBVIOUS

\* TypeOK, with a name for a text.
LEMMA TypeParts ==
  TypeOK <=> /\ effect \in [Violations -> {"notify", "block", "kill"}]
             /\ failOn \in BOOLEAN /\ layout \in Layouts
             /\ eventsRead \in BOOLEAN /\ hasTree \in BOOLEAN
             /\ engine \in {"running", "flushed", "cut short", "stuck"}
             /\ buffer \subseteq happened /\ happened \subseteq Violations
             /\ tree \in Text /\ file \in Text /\ existing \in Text
             /\ feedback \in Violations \cup {None}
             /\ banner \in Lines \cup {None}
             /\ pc \in {"run", "look", "read", "write", "collect", "done"}
             /\ looks \in 0 .. Polls
             /\ collected \subseteq Lines
             /\ counted \in [Lines -> 0 .. 2]
             /\ result \in {0, 3}
BY DEF TypeOK, Text

\* What is known of the lines of a file before the engine appends to it.
LEMMA BufferIsUnwritten ==
  ASSUME TypeOK, OneEach
  PROVE  /\ \A line \in buffer :
              line \in Lines /\ tree.lines[line] <= 1 /\ file.lines[line] <= 1
         /\ \A line \in Lines : existing.lines[line] <= 1
<1>1. buffer \subseteq Lines
  BY TypeParts DEF Lines
<1>2. \A line \in Lines : tree.lines[line] \in 0 .. 2 /\ existing.lines[line] \in 0 .. 2
  BY TypeParts DEF Text
<1>3. \A line \in Lines : tree.lines[line] <= 1 /\ existing.lines[line] <= 1
  BY <1>2 DEF OneEach, HasNoOther
<1> QED
  BY <1>1, <1>3 DEF OneEach

\* Every step leaves every variable in its type.
LEMMA TypeStep == TypeOK /\ OneEach /\ TracesHappened /\ [Next]_vars => TypeOK'
<1> SUFFICES ASSUME TypeOK, OneEach, TracesHappened, [Next]_vars PROVE TypeOK'
  OBVIOUS
<1> DEFINE Typed ==
      /\ effect' \in [Violations -> {"notify", "block", "kill"}]
      /\ failOn' \in BOOLEAN /\ layout' \in Layouts
      /\ eventsRead' \in BOOLEAN /\ hasTree' \in BOOLEAN
      /\ engine' \in {"running", "flushed", "cut short", "stuck"}
      /\ buffer' \subseteq happened' /\ happened' \subseteq Violations
      /\ tree' \in Text /\ file' \in Text /\ existing' \in Text
      /\ feedback' \in Violations \cup {None}
      /\ banner' \in Lines \cup {None}
      /\ pc' \in {"run", "look", "read", "write", "collect", "done"}
      /\ looks' \in 0 .. Polls
      /\ collected' \subseteq Lines
      /\ counted' \in [Lines -> 0 .. 2]
      /\ result' \in {0, 3}
<1>0. SUFFICES Typed
  BY DEF TypeOK, Text
<1> USE TypeParts
<1>1. CASE MakeTree
  BY <1>1 DEF MakeTree, config, traces, main
<1>2. CASE Violate
  <2>1. PICK v \in Violations \ happened :
          /\ happened' = happened \cup {v}
          /\ buffer' = buffer \cup {v}
          /\ feedback' \in {feedback, v}
          /\ banner' \in {banner, v}
    BY <1>2 DEF Violate
  <2>2. v \in Lines
    BY DEF Lines
  <2> QED
    BY <1>2, <2>1, <2>2 DEF Violate, config, main
<1>3. CASE AgentPrintsKilled
  BY <1>3 DEF AgentPrintsKilled, Lines, config, main
<1>4. CASE Flush
  <2>1. PICK v \in buffer :
          /\ buffer' = buffer \ {v}
          /\ tree' \in {tree, Append(tree, {v})} /\ file' \in {file, Append(file, {v})}
    BY <1>4 DEF Flush, Writes
  <2>2. Append(tree, {v}) \in Text /\ Append(file, {v}) \in Text
    BY BufferIsUnwritten, AppendText
  <2> QED
    BY <1>4, <2>1, <2>2 DEF Flush, config, traces, main
<1>5. CASE ExitFlushed
  <2>1. tree' \in {tree, Append(tree, buffer)} /\ file' \in {file, Append(file, buffer)}
    BY <1>5 DEF ExitFlushed, Writes
  <2>2. Append(tree, buffer) \in Text /\ Append(file, buffer) \in Text
    BY BufferIsUnwritten, AppendText
  <2> QED
    BY <1>5, <2>1, <2>2 DEF ExitFlushed, config, traces, main
<1>6. CASE ExitCutShort
  <2>1. PICK end \in Ends :
          /\ tree' \in {tree, [tree EXCEPT !.end = end]}
          /\ file' \in {file, [file EXCEPT !.end = end]}
    BY <1>6 DEF ExitCutShort, Ends
  <2>2. tree' \in Text /\ file' \in Text
    BY <2>1 DEF Text
  <2> QED
    BY <1>6, <2>2 DEF ExitCutShort, config, traces, main
<1>7. CASE StopEngine
  BY <1>7 DEF StopEngine, config, traces, main
<1>8. CASE LookFinds
  <2>1. LinesOf(tree) \subseteq Lines
    BY DEF LinesOf
  <2> QED
    BY <1>8, <2>1 DEF LookFinds, config, traces
<1>9. CASE LookAgain
  <2>1. looks \in 0 .. Polls /\ looks' = looks + 1 /\ looks < Polls
    BY <1>9 DEF LookAgain
  <2>2. Polls \in Nat
    BY ConstantsAssumption
  <2>3. looks' \in 0 .. Polls
    BY <2>1, <2>2, CountOn
  <2> QED
    BY <1>9, <2>3 DEF LookAgain, config, traces
<1>10. CASE FallBack
  <2>1. Synthesized \subseteq Lines
    BY DEF Synthesized, Lines
  <2> QED
    BY <1>10, <2>1 DEF FallBack, config, traces
<1>11. CASE ReadExisting
  <2>1. existing' \in Text
    BY <1>11, EmptyText DEF ReadExisting
  <2> QED
    BY <1>11, <2>1 DEF ReadExisting, config, traces
<1>12. CASE WriteBack
  <2>1. file' \in Text
    BY <1>12, BufferIsUnwritten, AppendText DEF WriteBack
  <2> QED
    BY <1>12, <2>1 DEF WriteBack, config, traces
<1>13. CASE Collect
  <2>1. counted' \in [Lines -> 0 .. 2]
    BY <1>13, EmptyText DEF Collect, Counts, Text
  <2> QED
    BY <1>13, <2>1 DEF Collect, config, traces
<1>14. CASE UNCHANGED vars
  BY <1>14 DEF vars, config, traces, main
<1> QED
  BY <1>1, <1>2, <1>3, <1>4, <1>5, <1>6, <1>7, <1>8, <1>9, <1>10, <1>11, <1>12,
     <1>13, <1>14 DEF Next, Harvesting

----------------------------------------------------------------------------
(* What the engine writes. *)

\* The initial states satisfy every part.
LEMMA InitInv == Init => IInv
<1> SUFFICES ASSUME Init PROVE IInv
  OBVIOUS
<1> USE EmptyText DEF Init
<1>0. failOn \in BOOLEAN /\ (failOn => layout = "scoped")
  OBVIOUS
<1>1. TypeOK
  <2>1. Polls \in Nat
    BY ConstantsAssumption
  <2>2. looks \in 0 .. Polls /\ failOn \in BOOLEAN /\ eventsRead \in BOOLEAN
    BY <1>0, <2>1
  <2>3. tree \in Text /\ file \in Text /\ existing \in Text /\ counted \in [Lines -> 0 .. 2]
    OBVIOUS
  <2>4. effect \in [Violations -> {"notify", "block", "kill"}] /\ layout \in Layouts
    OBVIOUS
  <2> QED
    BY <2>2, <2>3, <2>4, TypeParts
<1>2. OneEach /\ OnePlace
  BY <1>0 DEF OneEach, OnePlace, HasNoOther, Flushed
<1>3. Logged /\ Stopped /\ TracesHappened
  BY DEF Logged, Stopped, TracesHappened, HasEach, Flushed
<1>4. CollectsAll /\ StandsIn /\ FlushedIsComplete /\ FeedbackStandsIn
  BY DEF CollectsAll, StandsIn, FlushedIsComplete, FeedbackStandsIn
<1> QED
  BY <1>1, <1>2, <1>3, <1>4 DEF IInv

\* A violation that happens is not written yet, and so leaves the files as they are.
LEMMA ViolateStep ==
  ASSUME TypeOK, Violate
  PROVE  /\ pc = "run" /\ pc' = "run" /\ engine = "running" /\ engine' = "running"
         /\ UNCHANGED <<tree, file, existing, layout, failOn, effect>>
         /\ \E v \in Violations \ happened :
              happened' = happened \cup {v} /\ buffer' = buffer \cup {v}
         /\ Flushed' = Flushed
<1>1. buffer \subseteq happened
  BY TypeParts
<1> QED
  BY <1>1 DEF Violate, Flushed, config, main

\* A line that the engine writes: flushed now and not before, in one place.
LEMMA FlushStep ==
  ASSUME TypeOK, OneEach, Flush
  PROVE  \E v \in buffer :
           /\ v \in Lines /\ v \in happened
           /\ buffer' = buffer \ {v} /\ Flushed' = Flushed \cup {v} /\ v \notin Flushed
           /\ IF layout = "scoped"
                THEN tree' = Append(tree, {v}) /\ file' = file
                ELSE file' = Append(file, {v}) /\ tree' = tree
           /\ engine \in {"running", "stuck"}
           /\ UNCHANGED <<config, engine, happened, traces, main>>
<1>1. buffer \subseteq happened
  BY TypeParts
<1>2. PICK v \in buffer : Writes({v}) /\ buffer' = buffer \ {v}
  BY DEF Flush
<1>3. happened' = happened
  BY DEF Flush
<1>4. Flushed' = Flushed \cup {v}
  BY <1>1, <1>2, <1>3 DEF Flushed
<1>5. v \in Lines /\ v \notin Flushed /\ v \in happened
  BY <1>1, <1>2, BufferIsUnwritten DEF Flushed
<1>6. IF layout = "scoped" THEN tree' = Append(tree, {v}) /\ file' = file
                           ELSE file' = Append(file, {v}) /\ tree' = tree
  BY <1>2 DEF Writes
<1> QED
  BY <1>2, <1>4, <1>5, <1>6 DEF Flush

\* The lines that the engine writes when it exits in good order.
LEMMA ExitStep ==
  ASSUME TypeOK, OneEach, ExitFlushed
  PROVE  /\ buffer' = {} /\ Flushed' = Flushed \cup buffer /\ Flushed \cap buffer = {}
         /\ Flushed' = happened
         /\ IF layout = "scoped"
              THEN tree' = Append(tree, buffer) /\ file' = file
              ELSE file' = Append(file, buffer) /\ tree' = tree
         /\ engine = "running" /\ engine' = "flushed"
         /\ UNCHANGED <<config, happened, traces, main>>
<1>1. buffer \subseteq happened
  BY TypeParts
<1> QED
  BY <1>1 DEF ExitFlushed, Writes, Flushed

\* The lines of a file that the engine appends to, and what that leaves of it.
LEMMA AppendKeeps ==
  ASSUME TypeOK, OneEach, NEW set \in SUBSET buffer, Flushed' = Flushed \cup set,
         NEW f \in {tree, file}
  PROVE  /\ Append(f, set) \in Text /\ Append(f, set).end = "whole"
         /\ HasNoOther(f) =>
              \A line \in Lines :
                Append(f, set).lines[line] <= IF line \in Flushed' THEN 1 ELSE 0
         /\ HasEach(f) =>
              \A line \in Lines :
                Append(f, set).lines[line] = IF line \in Flushed' THEN 1 ELSE 0
<1>1. f \in Text /\ \A line \in Lines : line \in set => f.lines[line] <= 1
  BY TypeParts, BufferIsUnwritten
<1>2. \A line \in Lines : f.lines[line] \in 0 .. 2
  BY <1>1 DEF Text
<1>3. set \cap Flushed = {}
  BY DEF Flushed
<1>4. \A line \in Lines :
        Append(f, set).lines[line] = f.lines[line] + IF line \in set THEN 1 ELSE 0
  BY <1>1, AppendText
<1>5. Append(f, set) \in Text /\ Append(f, set).end = "whole"
  BY <1>1, AppendText
<1>6. ASSUME HasNoOther(f), NEW line \in Lines
      PROVE  Append(f, set).lines[line] <= IF line \in Flushed' THEN 1 ELSE 0
  BY <1>2, <1>3, <1>4, <1>6 DEF HasNoOther
<1>7. ASSUME HasEach(f), NEW line \in Lines
      PROVE  Append(f, set).lines[line] = IF line \in Flushed' THEN 1 ELSE 0
  BY <1>2, <1>3, <1>4, <1>7 DEF HasEach
<1> QED
  BY <1>5, <1>6, <1>7

\* No line is written once too often.
LEMMA OneEachStep == TypeOK /\ OneEach /\ [Next]_vars => OneEach'
<1> SUFFICES ASSUME TypeOK, OneEach, [Next]_vars PROVE OneEach'
  OBVIOUS
<1>a. /\ buffer \subseteq happened /\ buffer \subseteq Lines
      /\ existing \in Text /\ file \in Text
  BY TypeParts DEF Lines
<1>b. /\ HasNoOther(tree) /\ HasNoOther(existing) /\ (BeforeWrite => HasNoOther(file))
      /\ \A line \in buffer : file.lines[line] <= 1
  BY DEF OneEach
<1>1. CASE MakeTree
  BY <1>1, <1>b DEF MakeTree, config, traces, main, OneEach, HasNoOther, Flushed,
     BeforeWrite
<1>2. CASE Violate
  <2>1. PICK v \in Violations \ happened :
          happened' = happened \cup {v} /\ buffer' = buffer \cup {v}
    BY <1>2, ViolateStep
  <2>2. /\ pc = "run" /\ pc' = "run"
        /\ UNCHANGED <<tree, file, existing>> /\ Flushed' = Flushed
    BY <1>2, ViolateStep
  <2>3. v \in Lines /\ v \notin Flushed
    BY DEF Lines, Flushed
  <2>4. file.lines[v] <= 0 /\ file.lines[v] \in 0 .. 2
    BY <1>a, <1>b, <2>2, <2>3 DEF HasNoOther, BeforeWrite, Text
  <2> QED
    BY <1>b, <2>1, <2>2, <2>4 DEF OneEach, HasNoOther, BeforeWrite
<1>3. CASE AgentPrintsKilled
  BY <1>3, <1>b DEF AgentPrintsKilled, config, traces, main, OneEach, HasNoOther,
     Flushed, BeforeWrite
<1>4. CASE Flush
  <2>1. PICK v \in buffer :
          /\ v \in Lines
          /\ buffer' = buffer \ {v} /\ Flushed' = Flushed \cup {v}
          /\ IF layout = "scoped" THEN tree' = Append(tree, {v}) /\ file' = file
                                  ELSE file' = Append(file, {v}) /\ tree' = tree
    BY <1>4, FlushStep
  <2>2. existing' = existing /\ pc' = pc
    BY <1>4 DEF Flush, main
  <2>3. /\ HasNoOther(tree) => \A line \in Lines :
             Append(tree, {v}).lines[line] <= IF line \in Flushed' THEN 1 ELSE 0
        /\ HasNoOther(file) => \A line \in Lines :
             Append(file, {v}).lines[line] <= IF line \in Flushed' THEN 1 ELSE 0
    BY <2>1, AppendKeeps
  <2>4. \A f \in Text : HasNoOther(f) =>
          \A line \in Lines : f.lines[line] <= IF line \in Flushed' THEN 1 ELSE 0
    <3>1. \A f \in Text, line \in Lines : f.lines[line] \in 0 .. 2
      BY DEF Text
    <3> QED
      BY <2>1, <3>1 DEF HasNoOther
  <2>5. HasNoOther(tree)' /\ HasNoOther(existing)' /\ (BeforeWrite => HasNoOther(file)')
    BY <1>a, <1>b, <2>1, <2>2, <2>3, <2>4, TypeParts DEF HasNoOther
  <2>6. \A line \in buffer' : file'.lines[line] <= 1
    <3>1. \A line \in buffer' : line \in Lines /\ line \in buffer /\ line \notin {v}
      BY <1>a, <2>1
    <3>2. \A line \in buffer' : file.lines[line] \in 0 .. 2 /\ file.lines[line] <= 1
      BY <1>a, <1>b, <3>1 DEF Text
    <3>3. \A line \in buffer' : Append(file, {v}).lines[line] = file.lines[line] + 0
      BY <1>a, <1>b, <3>1, <2>1, AppendText, BufferIsUnwritten
    <3> QED
      BY <2>1, <3>2, <3>3
  <2> QED
    BY <2>2, <2>5, <2>6 DEF OneEach, BeforeWrite
<1>5. CASE ExitFlushed
  <2>1. /\ buffer' = {} /\ Flushed' = Flushed \cup buffer
        /\ IF layout = "scoped" THEN tree' = Append(tree, buffer) /\ file' = file
                                ELSE file' = Append(file, buffer) /\ tree' = tree
        /\ existing' = existing /\ pc' = pc
    BY <1>5, ExitStep DEF main
  <2>3. /\ HasNoOther(tree) => \A line \in Lines :
             Append(tree, buffer).lines[line] <= IF line \in Flushed' THEN 1 ELSE 0
        /\ HasNoOther(file) => \A line \in Lines :
             Append(file, buffer).lines[line] <= IF line \in Flushed' THEN 1 ELSE 0
    BY <2>1, AppendKeeps
  <2>4. \A f \in Text : HasNoOther(f) =>
          \A line \in Lines : f.lines[line] <= IF line \in Flushed' THEN 1 ELSE 0
    <3>1. \A f \in Text, line \in Lines : f.lines[line] \in 0 .. 2
      BY DEF Text
    <3> QED
      BY <2>1, <3>1 DEF HasNoOther
  <2>5. HasNoOther(tree)' /\ HasNoOther(existing)' /\ (BeforeWrite => HasNoOther(file)')
    BY <1>a, <1>b, <2>1, <2>3, <2>4, TypeParts DEF HasNoOther
  <2> QED
    BY <2>1, <2>5 DEF OneEach, BeforeWrite
<1>6. CASE ExitCutShort
  <2>1. /\ buffer' = {} /\ existing' = existing /\ pc' = pc
        /\ tree'.lines = tree.lines /\ file'.lines = file.lines
        /\ Flushed \subseteq Flushed'
    BY <1>6, TypeParts DEF ExitCutShort, main, Flushed, Text
  <2>2. \A line \in Lines :
          (IF line \in Flushed THEN 1 ELSE 0) <= (IF line \in Flushed' THEN 1 ELSE 0)
    BY <2>1
  <2>3. \A f \in {tree, file, existing}, line \in Lines : f.lines[line] \in 0 .. 2
    BY TypeParts DEF Text
  <2>4. HasNoOther(tree)' /\ HasNoOther(existing)' /\ (BeforeWrite => HasNoOther(file)')
    BY <1>b, <2>1, <2>2, <2>3 DEF HasNoOther
  <2> QED
    BY <2>1, <2>4 DEF OneEach, BeforeWrite
<1>7. CASE StopEngine
  BY <1>7, <1>b DEF StopEngine, config, traces, main, OneEach, HasNoOther, Flushed,
     BeforeWrite
<1>8. CASE LookFinds
  BY <1>8, <1>b DEF LookFinds, config, traces, main, OneEach, HasNoOther, Flushed,
     BeforeWrite
<1>9. CASE LookAgain
  BY <1>9, <1>b DEF LookAgain, config, traces, main, OneEach, HasNoOther, Flushed,
     BeforeWrite
<1>10. CASE FallBack
  BY <1>10, <1>b DEF FallBack, config, traces, main, OneEach, HasNoOther, Flushed,
     BeforeWrite
<1>11. CASE ReadExisting
  <2>1. /\ pc = "read" /\ pc' = "write" /\ existing' \in {file, Empty}
        /\ UNCHANGED <<happened, buffer, tree, file>>
    BY <1>11 DEF ReadExisting
  <2>2. HasNoOther(file) /\ HasNoOther(Empty)
    BY <1>b, <2>1, EmptyText DEF BeforeWrite, HasNoOther
  <2>3. HasNoOther(tree)' /\ HasNoOther(existing)' /\ HasNoOther(file)'
    BY <1>b, <2>1, <2>2 DEF HasNoOther, Flushed
  <2> QED
    BY <1>b, <2>1, <2>3 DEF OneEach
<1>12. CASE WriteBack
  <2>1. /\ pc' = "collect" /\ file' = Append(existing, collected)
        /\ UNCHANGED <<happened, buffer, tree, existing>>
    BY <1>12 DEF WriteBack
  <2>2. \A line \in Lines :
          file'.lines[line] = existing.lines[line] + IF line \in collected THEN 1 ELSE 0
    BY <1>a, <2>1, AppendText, BufferIsUnwritten
  <2>3. \A line \in buffer : existing.lines[line] <= 0 /\ existing.lines[line] \in 0 .. 2
    BY <1>a, <1>b DEF HasNoOther, Flushed, Text
  <2>4. \A line \in buffer : file'.lines[line] <= 1
    BY <1>a, <2>2, <2>3
  <2> QED
    BY <1>b, <2>1, <2>4 DEF OneEach, HasNoOther, Flushed, BeforeWrite
<1>13. CASE Collect
  BY <1>13, <1>b DEF Collect, config, traces, main, OneEach, HasNoOther, Flushed,
     BeforeWrite
<1>14. CASE UNCHANGED vars
  BY <1>14, <1>b DEF vars, config, traces, main, OneEach, HasNoOther, Flushed, BeforeWrite
<1> QED
  BY <1>1, <1>2, <1>3, <1>4, <1>5, <1>6, <1>7, <1>8, <1>9, <1>10, <1>11, <1>12,
     <1>13, <1>14 DEF Next, Harvesting

\* Each layout has its place.
LEMMA OnePlaceStep == TypeOK /\ OnePlace /\ [Next]_vars => OnePlace'
<1> SUFFICES ASSUME TypeOK, OnePlace, [Next]_vars PROVE OnePlace'
  OBVIOUS
<1>a. layout = "scoped" \/ layout = "direct"
  BY TypeParts, ConstantsAssumption
<1> USE DEF OnePlace, BeforeWrite
<1>1. CASE MakeTree
  BY <1>1, <1>a DEF MakeTree, config, traces, main
<1>2. CASE Violate
  BY <1>2, <1>a DEF Violate, config, traces, main
<1>3. CASE AgentPrintsKilled
  BY <1>3, <1>a DEF AgentPrintsKilled, config, traces, main
<1>4. CASE Flush
  BY <1>4, <1>a DEF Flush, Writes, config, traces, main
<1>5. CASE ExitFlushed
  BY <1>5, <1>a DEF ExitFlushed, Writes, config, traces, main
<1>6. CASE ExitCutShort
  <2>1. layout = "scoped" => file' = file
    BY <1>6 DEF ExitCutShort
  <2>2. layout = "direct" => tree' = tree
    BY <1>6 DEF ExitCutShort
  <2>3. UNCHANGED <<failOn, layout, pc, existing>>
    BY <1>6 DEF ExitCutShort, config, main
  <2> QED
    BY <2>1, <2>2, <2>3
<1>7. CASE StopEngine
  BY <1>7, <1>a DEF StopEngine, config, traces, main
<1>8. CASE LookFinds
  BY <1>8, <1>a DEF LookFinds, config, traces, main
<1>9. CASE LookAgain
  BY <1>9, <1>a DEF LookAgain, config, traces, main
<1>10. CASE FallBack
  BY <1>10, <1>a DEF FallBack, config, traces, main
<1>11. CASE ReadExisting
  BY <1>11, <1>a DEF ReadExisting, config, traces, main
<1>12. CASE WriteBack
  BY <1>12, <1>a DEF WriteBack, config, traces, main
<1>13. CASE Collect
  BY <1>13, <1>a DEF Collect, config, traces, main
<1>14. CASE UNCHANGED vars
  BY <1>14, <1>a DEF vars, config, traces, main
<1> QED
  BY <1>1, <1>2, <1>3, <1>4, <1>5, <1>6, <1>7, <1>8, <1>9, <1>10, <1>11, <1>12,
     <1>13, <1>14 DEF Next, Harvesting

\* An engine runs no longer than until its stop.
LEMMA StoppedStep == Stopped /\ [Next]_vars => Stopped'
<1> SUFFICES ASSUME Stopped, [Next]_vars PROVE Stopped'
  OBVIOUS
<1> USE DEF Stopped
<1>1. CASE MakeTree
  BY <1>1 DEF MakeTree, config, traces, main
<1>2. CASE Violate
  BY <1>2 DEF Violate, config, traces, main
<1>3. CASE AgentPrintsKilled
  BY <1>3 DEF AgentPrintsKilled, config, traces, main
<1>4. CASE Flush
  BY <1>4 DEF Flush, config, traces, main
<1>5. CASE ExitFlushed
  BY <1>5 DEF ExitFlushed, config, traces, main
<1>6. CASE ExitCutShort
  BY <1>6 DEF ExitCutShort, config, traces, main
<1>7. CASE StopEngine
  BY <1>7 DEF StopEngine, config, traces, main
<1>8. CASE LookFinds
  BY <1>8 DEF LookFinds, config, traces, main
<1>9. CASE LookAgain
  BY <1>9 DEF LookAgain, config, traces, main
<1>10. CASE FallBack
  BY <1>10 DEF FallBack, config, traces, main
<1>11. CASE ReadExisting
  BY <1>11 DEF ReadExisting, config, traces, main
<1>12. CASE WriteBack
  BY <1>12 DEF WriteBack, config, traces, main
<1>13. CASE Collect
  BY <1>13 DEF Collect, config, traces, main
<1>14. CASE UNCHANGED vars
  BY <1>14 DEF vars, config, traces, main
<1> QED
  BY <1>1, <1>2, <1>3, <1>4, <1>5, <1>6, <1>7, <1>8, <1>9, <1>10, <1>11, <1>12,
     <1>13, <1>14 DEF Next, Harvesting

\* A trace is left by a violation that happens, or by the agent.
LEMMA TracesStep == TypeOK /\ TracesHappened /\ [Next]_vars => TracesHappened'
<1> SUFFICES ASSUME TypeOK, TracesHappened, [Next]_vars PROVE TracesHappened'
  OBVIOUS
<1> USE DEF TracesHappened, Stops
<1>1. CASE MakeTree
  BY <1>1 DEF MakeTree, config, traces, main
<1>2. CASE Violate
  <2>1. PICK v \in Violations \ happened :
          /\ happened' = happened \cup {v}
          /\ feedback' \in {feedback} \cup (IF Stops(v) THEN {v} ELSE {})
          /\ banner' \in {banner, v}
    BY <1>2 DEF Violate
  <2>2. effect' = effect
    BY <1>2 DEF Violate, config
  <2> QED
    BY <2>1, <2>2
<1>3. CASE AgentPrintsKilled
  BY <1>3 DEF AgentPrintsKilled, config, traces, main
<1>4. CASE Flush
  BY <1>4 DEF Flush, config, traces, main
<1>5. CASE ExitFlushed
  BY <1>5 DEF ExitFlushed, config, traces, main
<1>6. CASE ExitCutShort
  BY <1>6 DEF ExitCutShort, config, traces, main
<1>7. CASE StopEngine
  BY <1>7 DEF StopEngine, config, traces, main
<1>8. CASE LookFinds
  BY <1>8 DEF LookFinds, config, traces, main
<1>9. CASE LookAgain
  BY <1>9 DEF LookAgain, config, traces, main
<1>10. CASE FallBack
  BY <1>10 DEF FallBack, config, traces, main
<1>11. CASE ReadExisting
  BY <1>11 DEF ReadExisting, config, traces, main
<1>12. CASE WriteBack
  BY <1>12 DEF WriteBack, config, traces, main
<1>13. CASE Collect
  BY <1>13 DEF Collect, config, traces, main
<1>14. CASE UNCHANGED vars
  BY <1>14 DEF vars, config, traces, main
<1> QED
  BY <1>1, <1>2, <1>3, <1>4, <1>5, <1>6, <1>7, <1>8, <1>9, <1>10, <1>11, <1>12,
     <1>13, <1>14 DEF Next, Harvesting

\* What the engine has flushed is all there.
LEMMA LoggedStep ==
  TypeOK /\ OneEach /\ OnePlace /\ Stopped /\ Logged /\ [Next]_vars => Logged'
<1> SUFFICES ASSUME TypeOK, OneEach, OnePlace, Stopped, Logged, [Next]_vars PROVE Logged'
  OBVIOUS
<1> USE DEF Logged, HasEach, BeforeWrite
<1>1. CASE MakeTree
  BY <1>1 DEF MakeTree, config, traces, main, Flushed
<1>2. CASE Violate
  <2>1. /\ pc' = pc /\ engine' = engine /\ UNCHANGED <<tree, file, layout>>
        /\ Flushed' = Flushed
    BY <1>2, ViolateStep
  <2> QED
    BY <2>1
<1>3. CASE AgentPrintsKilled
  BY <1>3 DEF AgentPrintsKilled, config, traces, main, Flushed
<1>4. CASE Flush
  <2>1. PICK v \in buffer :
          /\ buffer' = buffer \ {v} /\ Flushed' = Flushed \cup {v}
          /\ IF layout = "scoped" THEN tree' = Append(tree, {v}) /\ file' = file
                                  ELSE file' = Append(file, {v}) /\ tree' = tree
          /\ engine \in {"running", "stuck"}
    BY <1>4, FlushStep
  <2>2. layout' = layout /\ engine' = engine /\ pc' = pc
    BY <1>4 DEF Flush, config, main
  <2>3. \A f \in {tree, file} : HasEach(f) =>
          /\ Append(f, {v}).end = "whole"
          /\ \A line \in Lines :
               Append(f, {v}).lines[line] = IF line \in Flushed' THEN 1 ELSE 0
    BY <2>1, AppendKeeps
  <2>4. CASE layout = "scoped"
    BY <2>1, <2>2, <2>3, <2>4
  <2>5. CASE layout # "scoped"
    BY <2>1, <2>2, <2>3, <2>5
  <2> QED
    BY <2>4, <2>5
<1>5. CASE ExitFlushed
  <2>1. /\ buffer' = {} /\ Flushed' = Flushed \cup buffer
        /\ IF layout = "scoped" THEN tree' = Append(tree, buffer) /\ file' = file
                                ELSE file' = Append(file, buffer) /\ tree' = tree
        /\ engine = "running" /\ layout' = layout /\ pc' = pc
    BY <1>5, ExitStep DEF main, config
  <2>3. \A f \in {tree, file} : HasEach(f) =>
          /\ Append(f, buffer).end = "whole"
          /\ \A line \in Lines :
               Append(f, buffer).lines[line] = IF line \in Flushed' THEN 1 ELSE 0
    BY <2>1, AppendKeeps
  <2>4. CASE layout = "scoped"
    BY <2>1, <2>3, <2>4
  <2>5. CASE layout # "scoped"
    BY <2>1, <2>3, <2>5
  <2> QED
    BY <2>4, <2>5
<1>6. CASE ExitCutShort
  BY <1>6 DEF ExitCutShort
<1>7. CASE StopEngine
  BY <1>7 DEF StopEngine, config, traces, main, Flushed
<1>8. CASE LookFinds
  BY <1>8 DEF LookFinds, config, traces, main, Flushed
<1>9. CASE LookAgain
  BY <1>9 DEF LookAgain, config, traces, main, Flushed
<1>10. CASE FallBack
  BY <1>10 DEF FallBack, config, traces, main, Flushed
<1>11. CASE ReadExisting
  BY <1>11 DEF ReadExisting, config, traces, main, Flushed
<1>12. CASE WriteBack
  BY <1>12 DEF WriteBack, config, traces, main, Flushed
<1>13. CASE Collect
  BY <1>13 DEF Collect, config, traces, main, Flushed
<1>14. CASE UNCHANGED vars
  BY <1>14 DEF vars, config, traces, main, Flushed
<1> QED
  BY <1>1, <1>2, <1>3, <1>4, <1>5, <1>6, <1>7, <1>8, <1>9, <1>10, <1>11, <1>12,
     <1>13, <1>14 DEF Next, Harvesting

----------------------------------------------------------------------------
(* What the harvest makes of it. *)

\* After an engine that flushed, nothing of its own is left to change.
LEMMA NothingAfterFlush ==
  ASSUME Stopped, [Next]_vars, engine' = "flushed", pc # "run"
  PROVE  /\ engine = "flushed"
         /\ UNCHANGED <<layout, happened, buffer, tree>>
         /\ \/ LookFinds \/ FallBack \/ ReadExisting \/ WriteBack \/ Collect
            \/ UNCHANGED <<pc, file, existing, collected, counted>>
<1> USE DEF Stopped
<1>1. /\ ~Violate /\ ~AgentPrintsKilled /\ ~Flush
      /\ ~ExitFlushed /\ ~ExitCutShort /\ ~StopEngine
  BY DEF Violate, AgentPrintsKilled, Flush, ExitFlushed, ExitCutShort, StopEngine
<1>2. CASE MakeTree
  BY <1>2 DEF MakeTree, main, config
<1>3. CASE LookFinds \/ FallBack \/ ReadExisting \/ WriteBack \/ Collect
  BY <1>3 DEF LookFinds, FallBack, ReadExisting, WriteBack, Collect, config
<1>4. CASE LookAgain
  BY <1>4 DEF LookAgain, config
<1>5. CASE UNCHANGED vars
  BY <1>5 DEF vars, main, config
<1> QED
  BY <1>1, <1>2, <1>3, <1>4, <1>5 DEF Next, Harvesting

\* What is collected is what happened, whether the tree was read or was empty.
LEMMA CollectsAllStep ==
  ASSUME TypeOK, OneEach, OnePlace, Logged, Stopped, TracesHappened, CollectsAll,
         [Next]_vars
  PROVE  CollectsAll'
<1> SUFFICES ASSUME engine' = "flushed" PROVE CollectsAll'
  BY DEF CollectsAll
<1>a. /\ layout \in {"scoped", "direct"}
      /\ happened \subseteq Violations /\ buffer \subseteq happened
      /\ tree \in Text /\ file \in Text /\ existing \in Text
      /\ Violations \subseteq Lines /\ Foreign \notin Violations
  BY TypeParts, ConstantsAssumption DEF Lines
<1>b. \A line \in Lines : /\ tree.lines[line] \in 0 .. 2 /\ file.lines[line] \in 0 .. 2
                          /\ existing.lines[line] \in 0 .. 2
  BY <1>a DEF Text
<1>1. CASE pc = "run"
  <2>1. pc' \in {"run", "look"}
    BY <1>1 DEF Next, Harvesting, MakeTree, Violate, AgentPrintsKilled, Flush,
       ExitFlushed,
       ExitCutShort, StopEngine, LookFinds, LookAgain, FallBack, ReadExisting, WriteBack,
       Collect, vars, main
  <2> QED
    BY <2>1 DEF CollectsAll
<1>2. CASE pc # "run"
  <2>1. /\ engine = "flushed" /\ buffer = {} /\ Flushed = happened
        /\ UNCHANGED <<layout, happened, buffer, tree>>
    BY <1>2, NothingAfterFlush DEF Stopped, Flushed
  <2>2. /\ layout = "scoped" => HasEach(tree)
        /\ layout = "direct" /\ BeforeWrite => HasEach(file)
    BY <2>1 DEF Logged
  <2>3. CASE LookFinds
    <3>1. pc' = "read" /\ collected' = LinesOf(tree) /\ file' = file /\ ~Unread
      BY <2>3 DEF LookFinds
    <3>2. layout = "scoped"
      BY <1>a, <3>1 DEF OnePlace, Unread, Blank, Empty
    <3>3. \A line \in Lines : line \in collected' <=> line \in happened
      BY <2>1, <2>2, <3>1, <3>2 DEF HasEach, LinesOf
    <3> QED
      BY <1>a, <2>1, <3>1, <3>3 DEF CollectsAll
  <2>4. CASE FallBack
    <3>1. /\ collected' = Synthesized /\ file' = file /\ Unread /\ pc = "look"
          /\ pc' = IF Synthesized = {} THEN "collect" ELSE "read"
      BY <2>4 DEF FallBack
    <3>2. Synthesized \cap Violations \subseteq happened
      BY <1>a DEF Synthesized, TracesHappened
    <3>3. layout = "scoped" => happened = {}
      <4> SUFFICES ASSUME layout = "scoped" PROVE happened = {}
        OBVIOUS
      <4>1. tree.lines = NoLines
        BY <2>2, <3>1 DEF Unread, Blank, Readable, HasEach
      <4>2. \A line \in Lines : line \notin happened
        BY <2>1, <2>2, <4>1 DEF HasEach, NoLines
      <4> QED
        BY <1>a, <4>2
    <3>4. /\ file.end = "whole"
          /\ \A v \in Violations : /\ file.lines[v] > 0 <=> v \in happened
                                   /\ file.lines[v] <= 1
      <4>1. CASE layout = "scoped"
        BY <1>a, <3>1, <3>3, <4>1, EmptyText DEF OnePlace, BeforeWrite
      <4>2. CASE layout = "direct"
        BY <1>a, <2>1, <2>2, <3>1, <4>2 DEF HasEach, BeforeWrite
      <4> QED
        BY <1>a, <4>1, <4>2
    <3> QED
      BY <2>1, <3>1, <3>2, <3>3, <3>4 DEF CollectsAll
  <2>5. CASE ReadExisting
    <3>1. /\ pc = "read" /\ pc' = "write" /\ collected' = collected
          /\ existing' = IF Readable(file) THEN file ELSE Empty
      BY <2>5 DEF ReadExisting
    <3>2. layout = "direct" => existing' = file /\ HasEach(file)
      BY <2>2, <3>1 DEF BeforeWrite, HasEach, Readable
    <3>3. layout = "direct" => HasEach(existing)'
      BY <2>1, <3>2 DEF HasEach, Flushed
    <3> QED
      BY <2>1, <3>1, <3>3 DEF CollectsAll
  <2>6. CASE WriteBack
    <3>1. pc = "write" /\ pc' = "collect" /\ file' = Append(existing, collected)
      BY <2>6 DEF WriteBack
    <3>2. /\ file'.end = "whole"
          /\ \A line \in Lines :
               file'.lines[line] =
                 existing.lines[line] + IF line \in collected THEN 1 ELSE 0
      BY <1>a, <3>1, AppendText, BufferIsUnwritten
    <3>3. /\ collected \cap Violations \subseteq happened
          /\ layout = "scoped" => happened \subseteq collected
          /\ layout = "direct" => HasEach(existing)
      BY <2>1, <3>1 DEF CollectsAll
    <3>4. CASE layout = "scoped"
      <4>1. \A v \in Violations :
              existing.lines[v] = 0 /\ (v \in collected <=> v \in happened)
        BY <1>a, <3>3, <3>4, EmptyText DEF OnePlace
      <4> QED
        BY <1>a, <2>1, <3>1, <3>2, <4>1 DEF CollectsAll
    <3>5. CASE layout = "direct"
      <4>1. \A v \in Violations : /\ existing.lines[v] = IF v \in happened THEN 1 ELSE 0
                                  /\ v \in collected => v \in happened
        BY <1>a, <2>1, <3>3, <3>5 DEF HasEach
      <4> QED
        BY <1>a, <2>1, <3>1, <3>2, <3>5, <4>1 DEF CollectsAll
    <3> QED
      BY <1>a, <3>4, <3>5
  <2>7. CASE Collect
    BY <2>7 DEF Collect, CollectsAll
  <2>8. CASE UNCHANGED <<pc, file, existing, collected, counted>>
    BY <2>1, <2>8 DEF CollectsAll, HasEach, Flushed
  <2> QED
    BY <1>2, <2>3, <2>4, <2>5, <2>6, <2>7, <2>8, NothingAfterFlush
<1> QED
  BY <1>1, <1>2

\* Whether events.jsonl can be read does not depend on the engine.
LEMMA EventsStep == [Next]_vars => UNCHANGED eventsRead
BY DEF Next, Harvesting, MakeTree, Violate, AgentPrintsKilled, Flush, ExitFlushed,
   ExitCutShort, StopEngine, LookFinds, LookAgain, FallBack, ReadExisting, WriteBack,
   Collect, vars, config

\* What is counted is what was written.
LEMMA FlushedIsCompleteStep ==
  ASSUME TypeOK, Stopped, CollectsAll, FlushedIsComplete, [Next]_vars
  PROVE  FlushedIsComplete'
<1> SUFFICES ASSUME pc' = "done", engine' = "flushed", eventsRead
             PROVE  FlushedIsComplete'
  BY EventsStep DEF FlushedIsComplete
<1>1. pc # "run"
  BY DEF Next, Harvesting, MakeTree, Violate, AgentPrintsKilled, Flush, ExitFlushed,
     ExitCutShort, StopEngine, LookFinds, LookAgain, FallBack, ReadExisting, WriteBack,
     Collect, vars, main
<1>2. engine = "flushed" /\ UNCHANGED <<layout, happened>>
  BY <1>1, NothingAfterFlush
<1>3. CASE Collect
  <2>1. pc = "collect" /\ counted' = Counts(file)
    BY <1>3 DEF Collect
  <2>2. counted' = file.lines
    BY <1>2, <2>1 DEF CollectsAll, Counts, Readable
  <2> QED
    BY <1>2, <2>1, <2>2 DEF CollectsAll, FlushedIsComplete
<1>4. CASE ~Collect
  <2>1. UNCHANGED <<pc, counted>>
    BY <1>1, <1>4, NothingAfterFlush DEF LookFinds, FallBack, ReadExisting, WriteBack
  <2> QED
    BY <1>2, <2>1 DEF FlushedIsComplete
<1> QED
  BY <1>3, <1>4

\* A tree that is empty after a step was empty before it, and no trace is left once the
\* main thread has stopped the engine.
LEMMA BlankBefore ==
  ASSUME TypeOK, OneEach, OnePlace, Logged, Stopped, [Next]_vars,
         layout' = "scoped", Blank(tree'), pc' # "run", pc # "run"
  PROVE  /\ layout = "scoped" /\ Blank(tree)
         /\ UNCHANGED <<failOn, effect, feedback>>
         /\ \/ LookFinds \/ FallBack \/ ReadExisting \/ WriteBack \/ Collect
            \/ UNCHANGED <<pc, file, existing, collected, counted, result>>
<1> USE DEF Stopped
<1>1. ~Violate /\ ~AgentPrintsKilled /\ ~ExitFlushed /\ ~StopEngine
  BY DEF Violate, AgentPrintsKilled, ExitFlushed, StopEngine
<1>2. CASE MakeTree
  BY <1>2 DEF MakeTree, main, config, traces
<1>3. CASE LookFinds \/ FallBack \/ ReadExisting \/ WriteBack \/ Collect
  BY <1>3 DEF LookFinds, FallBack, ReadExisting, WriteBack, Collect, config, traces
<1>4. CASE LookAgain
  BY <1>4 DEF LookAgain, config, traces
<1>5. CASE UNCHANGED vars
  BY <1>5 DEF vars, main, config, traces
<1>6. CASE Flush
  <2>1. PICK v \in buffer : v \in Lines /\ (layout = "scoped" => tree' = Append(tree, {v}))
    BY <1>6, FlushStep
  <2>2. layout = "scoped"
    BY <1>6 DEF Flush, config
  <2>3. tree'.lines[v] = tree.lines[v] + 1 /\ tree.lines[v] \in 0 .. 2
    <3>1. tree \in Text /\ \A line \in Lines : line \in {v} => tree.lines[line] <= 1
      BY <2>1, TypeParts, BufferIsUnwritten
    <3>2. tree.lines[v] \in 0 .. 2
      BY <2>1, <3>1 DEF Text
    <3>3. Append(tree, {v}).lines[v] = tree.lines[v] + 1
      BY <2>1, <3>1, AppendText
    <3> QED
      BY <2>1, <2>2, <3>2, <3>3
  <2>4. tree'.lines[v] = 0
    BY <2>1 DEF Blank, NoLines
  <2> QED
    BY <2>3, <2>4
<1>7. CASE ExitCutShort
  <2>1. PICK end \in Ends :
          layout = "scoped" => tree' = [tree EXCEPT !.end = end] /\ file' = file
    BY <1>7 DEF ExitCutShort, Ends
  <2>2. layout = "scoped" /\ engine # "cut short"
    BY <1>7 DEF ExitCutShort, config
  <2>3. tree.end = "whole" /\ tree'.lines = tree.lines
    BY <2>1, <2>2, TypeParts DEF Logged, HasEach, Text
  <2> QED
    BY <1>7, <2>1, <2>2, <2>3 DEF ExitCutShort, config, main, traces, Blank
<1> QED
  BY <1>1, <1>2, <1>3, <1>4, <1>5, <1>6, <1>7 DEF Next, Harvesting

\* What the agent was told of is collected and written when the tree is empty.
LEMMA StandsInStep ==
  ASSUME TypeOK, OneEach, OnePlace, Logged, Stopped, TracesHappened, StandsIn, [Next]_vars
  PROVE  StandsIn'
<1> SUFFICES ASSUME layout' = "scoped", feedback' # None, Blank(tree'),
                    pc' \in {"read", "write", "collect"}
             PROVE  StandsIn'
  BY DEF StandsIn, Blank
<1>1. pc # "run"
  BY DEF Next, Harvesting, MakeTree, Violate, AgentPrintsKilled, Flush, ExitFlushed,
     ExitCutShort, StopEngine, LookFinds, LookAgain, FallBack, ReadExisting, WriteBack,
     Collect, vars, main
<1>2. layout = "scoped" /\ Blank(tree) /\ feedback' = feedback /\ feedback # None
  BY <1>1, BlankBefore
<1>3. existing = Empty /\ feedback \in Lines
  BY <1>2, TypeParts DEF OnePlace, Lines
<1>4. ~LookFinds
  BY <1>2 DEF LookFinds, Unread
<1>5. CASE FallBack
  <2>1. collected' = Synthesized /\ pc' = IF Synthesized = {} THEN "collect" ELSE "read"
    BY <1>5 DEF FallBack
  <2>2. Synthesized = {feedback}
    BY <1>2 DEF Synthesized
  <2> QED
    BY <1>2, <2>1, <2>2 DEF StandsIn
<1>6. CASE ReadExisting
  BY <1>2, <1>6 DEF ReadExisting, StandsIn
<1>7. CASE WriteBack
  <2>1. pc = "write" /\ pc' = "collect" /\ file' = Append(Empty, {feedback})
    BY <1>2, <1>3, <1>7 DEF WriteBack, StandsIn
  <2>2. file'.end = "whole" /\ file'.lines[feedback] = 1
    BY <1>3, <2>1, EmptyText, AppendText
  <2> QED
    BY <1>2, <2>1, <2>2 DEF StandsIn, Readable
<1>8. CASE UNCHANGED <<pc, file, existing, collected, counted, result>>
  BY <1>2, <1>8 DEF StandsIn, Readable
<1>9. ~Collect
  BY DEF Collect
<1> QED
  BY <1>1, <1>4, <1>5, <1>6, <1>7, <1>8, <1>9, BlankBefore

\* It forces the exit status.
LEMMA FeedbackStandsInStep ==
  ASSUME TypeOK, OneEach, OnePlace, Logged, Stopped, TracesHappened, StandsIn,
         FeedbackStandsIn, [Next]_vars
  PROVE  FeedbackStandsIn'
<1> SUFFICES ASSUME pc' = "done", failOn', feedback' # None, Blank(tree'), eventsRead
             PROVE  result' = 3
  BY EventsStep DEF FeedbackStandsIn, Blank
<1>1. pc # "run"
  BY DEF Next, Harvesting, MakeTree, Violate, AgentPrintsKilled, Flush, ExitFlushed,
     ExitCutShort, StopEngine, LookFinds, LookAgain, FallBack, ReadExisting, WriteBack,
     Collect, vars, main
<1>2. layout' = "scoped"
  BY OnePlaceStep DEF OnePlace
<1>3. layout = "scoped" /\ failOn /\ Blank(tree) /\ feedback' = feedback /\ feedback # None
  BY <1>1, <1>2, BlankBefore
<1>4. CASE Collect
  <2>1. /\ pc = "collect" /\ counted' = Counts(file)
        /\ result' = IF failOn /\ \E line \in Lines : counted'[line] > 0 /\ Forces(line)
                       THEN 3 ELSE 0
    BY <1>4 DEF Collect
  <2>2. counted'[feedback] > 0
    BY <1>3, <2>1 DEF StandsIn, Counts
  <2>3. feedback \in Lines /\ Forces(feedback)
    BY <1>3, TypeParts, ConstantsAssumption
    DEF TracesHappened, Stops, Forces, EffectOf, Lines
  <2> QED
    BY <1>3, <2>1, <2>2, <2>3
<1>5. CASE ~Collect
  <2>1. UNCHANGED <<pc, result>>
    BY <1>1, <1>2, <1>5, BlankBefore DEF LookFinds, FallBack, ReadExisting, WriteBack
  <2> QED
    BY <1>3, <2>1 DEF FeedbackStandsIn
<1> QED
  BY <1>4, <1>5

----------------------------------------------------------------------------
(* The theorems. *)

\* Every step preserves the inductive invariant.
LEMMA InvStep == IInv /\ [Next]_vars => IInv'
<1> SUFFICES ASSUME IInv, [Next]_vars PROVE IInv'
  OBVIOUS
<1>1. TypeOK' /\ OneEach' /\ OnePlace' /\ Logged' /\ Stopped' /\ TracesHappened'
  BY TypeStep, OneEachStep, OnePlaceStep, LoggedStep, StoppedStep, TracesStep DEF IInv
<1>2. CollectsAll' /\ StandsIn' /\ FlushedIsComplete' /\ FeedbackStandsIn'
  BY CollectsAllStep, StandsInStep, FlushedIsCompleteStep, FeedbackStandsInStep DEF IInv
<1> QED
  BY <1>1, <1>2 DEF IInv

\* Every variable always holds a value of its type: in particular no file ever holds
\* more than an engine's line and a harvested one about the same violation.
THEOREM TypeCorrect == Spec => []TypeOK
<1>1. IInv => TypeOK
  BY DEF IInv
<1> QED
  BY <1>1, InitInv, InvStep, PTL DEF Spec

\* With files that can be read, the harvest counts every violation that happened and
\* none that did not, whenever the engine exits in good order, in either layout and however often its run tree is
\* looked at; and in the layout of `actime run` it counts each of them once.
THEOREM HarvestComplete == Spec => []FlushedIsComplete
<1>1. IInv => FlushedIsComplete
  BY DEF IInv
<1> QED
  BY <1>1, InitInv, InvStep, PTL DEF Spec

\* With --fail-on-violation the exit status is 3 when the agent was told of a block or a
\* kill and nothing of it reached the disk, whatever became of the engine, provided
\* that collect does not fail on events.jsonl.
THEOREM FeedbackIsEnough == Spec => []FeedbackStandsIn
<1>1. IInv => FeedbackStandsIn
  BY DEF IInv
<1> QED
  BY <1>1, InitInv, InvStep, PTL DEF Spec
=============================================================================
