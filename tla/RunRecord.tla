----------------------------- MODULE RunRecord -----------------------------
(***************************************************************************)
(* What `actime run` promises about one run record, with no engine, thread *)
(* or file format in sight.  A record is opened, is rewritten while the    *)
(* run goes on, and is closed once.  The agent is launched at most once,   *)
(* only under an open record, and only in a way the policy mode permits.   *)
(* A write that fails half way leaves a record no reader can parse.        *)
(***************************************************************************)
EXTENDS Integers

CONSTANTS Rules,      \* rules of the composed policy
          Statuses    \* exit codes a record can carry

VARIABLES mode,       \* policy mode of the run
          gap,        \* rules this host's engine cannot install
          status,     \* "absent" | "open" | "unreadable" | "final"
          launched,   \* "no" | "wrap" | "plain"
          exit        \* exit code of a final record

vars == <<mode, gap, status, launched, exit>>

NoExit == -1

Init ==
  /\ mode \in {"off", "observe", "enforce"}
  /\ gap \in SUBSET Rules
  /\ status = "absent"
  /\ launched = "no"
  /\ exit = NoExit

\* A write of a record that is not closed yet: it may succeed or tear the file.
Write ==
  /\ status # "final"
  /\ status' \in {"open", "unreadable"}
  /\ UNCHANGED <<mode, gap, launched, exit>>

\* The agent starts under the engine: only with a policy the engine can install
\* in full.
LaunchWrapped ==
  /\ status \in {"open", "unreadable"}
  /\ launched = "no"
  /\ mode # "off"
  /\ gap = {}
  /\ launched' = "wrap"
  /\ UNCHANGED <<mode, gap, status, exit>>

\* The agent starts with no engine around it: never in enforce mode.
LaunchPlain ==
  /\ status \in {"open", "unreadable"}
  /\ launched = "no"
  /\ mode # "enforce"
  /\ launched' = "plain"
  /\ UNCHANGED <<mode, gap, status, exit>>

\* The record is closed; a run that launched nothing closes with exit code 1.
Close ==
  /\ status \in {"open", "unreadable"}
  /\ status' = "final"
  /\ exit' \in Statuses
  /\ launched = "no" => exit' = 1
  /\ UNCHANGED <<mode, gap, launched>>

Next == Write \/ LaunchWrapped \/ LaunchPlain \/ Close

Spec == Init /\ [][Next]_vars
=============================================================================
