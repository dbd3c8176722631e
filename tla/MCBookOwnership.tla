-------------------------- MODULE MCBookOwnership --------------------------
(* Instances of BookOwnership for TLC. *)
EXTENDS BookOwnership, TLC

CONSTANTS ann, bea, cid, b1, t1

(* The two who may ask for deletion are alike. *)
Alike == Permutations(Departing)
=============================================================================
