----------------------------- MODULE MCWrapWait -----------------------------
(***************************************************************************)
(* WrapWait for TLC: limits that expire in each of the windows.            *)
(***************************************************************************)
EXTENDS WrapWait

EveryLimit == {Never} \cup 0 .. StartGrace + WrapIdle + Natural
=============================================================================
