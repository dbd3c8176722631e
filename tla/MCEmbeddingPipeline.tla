------------------------ MODULE MCEmbeddingPipeline ------------------------
(* Instances of EmbeddingPipeline for TLC: which row has which model and   *)
(* which content.                                                          *)
EXTENDS EmbeddingPipeline, TLC

CONSTANTS r1, r2, read, target, h1, h2, s1, s2, s3

(* Both rows of the rebuild target, or one of each model.                  *)
Rebuilt == r1 :> target @@ r2 :> target
TwoModels == r1 :> read @@ r2 :> target
OwnHash == r1 :> h1 @@ r2 :> h2
SameHash == r1 :> h1 @@ r2 :> h1

OneRow == r1 :> read
OneHash == r1 :> h1

(* Slots are interchangeable.                                              *)
Slots2 == Permutations({s1, s2})
=============================================================================
