------------------------------ MODULE RunFile ------------------------------
(***************************************************************************)
(* The record of one run or attach, as the process that makes it has it:   *)
(* the manifest in memory, the file manifest.json it is saved to, and      *)
(* report.md (crates/actime-core/src/run.rs, and finalize_aborted in       *)
(* crates/actime-cli/src/run.rs).                                          *)
(***************************************************************************)
EXTENDS Integers

CONSTANTS
  Rules,            \* rules of the composed policy
  SaveOutcomes      \* how a write of manifest.json may end

ASSUME SaveAssumption ==
  SaveOutcomes \subseteq {"ok", "refused", "torn"} /\ "ok" \in SaveOutcomes

VARIABLES
  mem,          \* run.manifest
  file,         \* manifest.json: "absent" | "whole" | "torn"
  disk,         \* the manifest last written whole
  report        \* report.md exists

recordVars == <<mem, file, disk, report>>

NoExit == -1
Statuses == 0..255

\* Disabled("not started") and Disabled("not started: run refused before agent
\* launch") are told apart because finalize_aborted does.
PlaneState == {"Active", "Degraded", "Disabled", "NotStarted", "Refused"}

Manifest == [policy : PlaneState, observability : PlaneState, backup : PlaneState,
             commit : BOOLEAN, gap : SUBSET Rules, refusedNote : BOOLEAN,
             exit : Statuses \cup {NoExit}, ended : BOOLEAN]

FreshManifest ==
  [policy |-> "NotStarted", observability |-> "NotStarted", backup |-> "NotStarted",
   commit |-> FALSE, gap |-> {}, refusedNote |-> FALSE, exit |-> NoExit, ended |-> FALSE]

----------------------------------------------------------------------------
(* Saving. *)

\* save_manifest: File::create truncates, then the text is written.  It can be
\* refused before it touches the file, or stop after it truncated it.
SaveManifest(outcome, m) ==
  /\ file' = CASE outcome = "ok" -> "whole"
               [] outcome = "torn" -> "torn"
               [] OTHER -> file
  /\ disk' = IF outcome = "ok" THEN m ELSE disk

\* `let _ = run.save_manifest()`: the outcome is ignored.
SaveIgnoringErrors(m) ==
  /\ mem' = m
  /\ \E outcome \in SaveOutcomes : SaveManifest(outcome, m)

\* report.md is written with its error ignored too.
ReportOutcomes == IF SaveOutcomes = {"ok"} THEN {TRUE} ELSE BOOLEAN

----------------------------------------------------------------------------
(* A refusal. *)

\* A wrong form: a plane that was never started is left unexplained.
RefusedPlane_Kept(state) == state
RefusedPlane(state) == IF state = "NotStarted" THEN "Refused" ELSE state

\* What finalize_aborted makes of the record.
Aborted(m) == [m EXCEPT !.exit = 1, !.ended = TRUE, !.refusedNote = TRUE,
                        !.policy = RefusedPlane(@),
                        !.observability = RefusedPlane(@),
                        !.backup = RefusedPlane(@)]

----------------------------------------------------------------------------
(* The record as a reader finds it. *)

Status == CASE file = "absent" -> "absent"
            [] file = "torn"   -> "unreadable"
            [] OTHER           -> IF disk.ended THEN "final" ELSE "open"

Closed == Status = "final"
=============================================================================
