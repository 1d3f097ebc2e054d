----------------------------- MODULE MCRunStore -----------------------------
(***************************************************************************)
(* RunStore for TLC: who draws which suffixes.                             *)
(***************************************************************************)
EXTENDS RunStore, TLC

CONSTANTS p1, p2

\* Both may draw the suffix of the old run; p2 may draw another.
OverlappingDraws == (p1 :> {0}) @@ (p2 :> {0, 1})
=============================================================================
