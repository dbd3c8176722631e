--------------------------- MODULE EmbeddingRows ----------------------------
(***************************************************************************)
(* What the embedding pipeline promises to those who read                  *)
(* claimnet.embedding_vectors: search, which reads complete rows of one    *)
(* model, and the admin pages, which count waiting, complete and failed    *)
(* rows.  Jobs, leases, batches, the cache and the provider do not appear. *)
(* EmbeddingPipeline implements this specification.                        *)
(***************************************************************************)
CONSTANTS
  Row,      \* ids of embedding_vectors rows
  Model,    \* embedding model ids
  ModelOf,  \* [Row -> Model]: the row's model_id
  None      \* the model of a row that has no vector

VARIABLES
  state,    \* what a reader can tell of the row's status
  model     \* the model whose vector the row holds

vars == <<state, model>>

Live == {"waiting", "complete", "failed"}
State == Live \cup {"absent", "deleted"}

TypeOK ==
  /\ state \in [Row -> State]
  /\ model \in [Row -> Model \cup {None}]

Init ==
  /\ state = [r \in Row |-> "absent"]
  /\ model = [r \in Row |-> None]

From(r, states) == state[r] \in states
KeepsVector(r) == model'[r] = model[r]

Stays(r) == state'[r] = state[r] /\ KeepsVector(r)

Adds(r) == From(r, {"absent"}) /\ state'[r] = "waiting" /\ KeepsVector(r)

(* A vector of the row's own model, also over an earlier one. *)
Stores(r) ==
  From(r, Live \cup {"absent"}) /\ state'[r] = "complete" /\ model'[r] = ModelOf[r]

Fails(r) == From(r, Live) /\ state'[r] = "failed" /\ KeepsVector(r)

(* Only a row that failed is put back in the queue, never a complete one. *)
Requeues(r) == From(r, {"failed"}) /\ state'[r] = "waiting" /\ KeepsVector(r)

Removes(r) == From(r, Live) /\ state'[r] = "deleted" /\ KeepsVector(r)

(* One statement of the pipeline may move several rows, each in its way. *)
Next ==
  /\ TypeOK'
  /\ \A r \in Row : Stays(r) \/ Adds(r) \/ Stores(r) \/ Fails(r) \/ Requeues(r) \/ Removes(r)

Spec == Init /\ [][Next]_vars

(* A row search reads holds a vector of its own model. *)
CompleteHasItsVector == \A r \in Row : state[r] = "complete" => model[r] = ModelOf[r]

=============================================================================
