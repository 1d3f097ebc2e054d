---------------------------- MODULE MCActimeRun ----------------------------
(***************************************************************************)
(* ActimeRun for TLC: the rules are interchangeable.                       *)
(***************************************************************************)
EXTENDS ActimeRun, TLC

RuleSymmetry == Permutations(Rules)
=============================================================================
