---------------------------- MODULE MCObserving ----------------------------
(***************************************************************************)
(* Observing for TLC: a fact of every kind but a model call, which counts  *)
(* as a write does, and two connections to the same host, one endpoint.    *)
(***************************************************************************)
EXTENDS Observing

Fact(kind, id) == [kind |-> kind, object |-> "host", id |-> id]

MCFacts == {Fact("exec", 1), Fact("exit", 1), Fact("write", 1), Fact("connect", 1),
            Fact("connect", 2)}
=============================================================================
