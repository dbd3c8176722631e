---------------------------- MODULE MCTraceIndex ----------------------------
(* Instances of TraceIndex for TLC.                                        *)
EXTENDS TraceIndex, TLC

CONSTANTS t1, b1, b2, e1, w1, w2, k1, k2, k3

(* Chains and handlers are interchangeable.                                *)
Alike == {p @@ q : p \in Permutations({k1, k2, k3}), q \in Permutations({w1, w2})}
=============================================================================
