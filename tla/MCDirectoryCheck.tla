------------------------- MODULE MCDirectoryCheck ---------------------------
(* Instances of DirectoryCheck for TLC. *)
EXTENDS DirectoryCheck, TLC

CONSTANTS ann, bea, t1, t2

TaskSymmetry == Permutations(Tasks)
=============================================================================
