------------------------- MODULE EmbeddingPipeline -------------------------
(***************************************************************************)
(* The embedding worker: four tiers of pg-boss jobs that move rows of      *)
(* claimnet.embedding_vectors from `pending` to `complete` or `failed`,    *)
(* beside the requests that create, complete, retry and delete those rows. *)
(*                                                                         *)
(*   tier 1  strategy-sweep   stale recovery, then one job per strategy    *)
(*   tier 2  strategy-check   claims pending rows and sends them on        *)
(*   tier 3  vector-check     answers what vector_cache can answer         *)
(*   tier 4  vector-api-call  calls the provider for the rest              *)
(*                                                                         *)
(* Each action is one autocommitted statement of a handler, or a run of    *)
(* statements with no reader of the state between them.  Jobs are          *)
(* delivered at least once: a handler can be killed between any two of its *)
(* statements, outlive its lease and run beside its own retry, or be run   *)
(* again after it finished because another job of its pg-boss batch threw. *)
(***************************************************************************)
EXTENDS Naturals, FiniteSets

CONSTANTS
  Row,          \* ids of claimnet.embedding_vectors rows
  Model,        \* embedding model ids this deployment runs
  Hash,         \* chunk hashes (embedding_chunks.chunk_hash)
  ModelOf,      \* [Row -> Model]: the row's model_id
  HashOf,       \* [Row -> Hash]: the hash of the row's chunk
  Image,        \* rows of multimodal sources
  ReadModel,    \* the model search reads; any other is a rebuild target
  Slot,         \* places for live pg-boss jobs (bound)
  Batch,        \* VECTOR_BATCH_SIZE
  RetryLimit,   \* AUTO_RETRY_LIMIT: stale recoveries before a row fails
  MaxRetries,   \* bound on retry_count, which manual retries never cap
  MaxTries,     \* pg-boss retryLimit of a job
  MaxChecks,    \* bound on strategy-check jobs alive at once
  MaxFaults,    \* bound on crashes, lease expiries, pushbacks, lost writes
  None          \* the model of a row that has no vector

ASSUME PipelineAssumption ==
  /\ ModelOf \in [Row -> Model]
  /\ HashOf \in [Row -> Hash]
  /\ Image \subseteq Row
  /\ ReadModel \in Model
  /\ None \notin Model
  /\ Batch \in Nat \ {0}
  /\ RetryLimit \in Nat
  /\ MaxRetries \in Nat
  /\ RetryLimit <= MaxRetries
  /\ MaxTries \in Nat \ {0}
  /\ MaxChecks \in Nat
  /\ MaxFaults \in Nat

VARIABLES
  status,     \* embedding_vectors.status; "absent" before, "deleted" after
  vector,     \* what the row's vector column holds; kept when it is deleted
  retries,    \* embedding_vectors.retry_count
  stale,      \* processing for longer than STALE_PROCESSING_MINUTES
  cache,      \* claimnet.vector_cache
  cooling,    \* models whose cooldown has not ended
  after,      \* the request's own call for an image row of a rebuild target
  job,        \* live pg-boss jobs and the handlers running them
  faults,     \* faults spent so far
  calm        \* nothing yet made two jobs answer for one row

rowVars == <<status, vector, retries, stale>>
vars == <<status, vector, retries, stale, cache, cooling, after, job, faults, calm>>

(***************************************************************************)
(* What a vector is a vector of.  "exact": the content its chunk hash was  *)
(* taken from.  "skewed": an image whose bytes, once the region cue was    *)
(* drawn again, are not the hashed ones.  "text": the chunk's text alone,  *)
(* standing in for an image whose bytes are not here.  `label` is the      *)
(* vector_source column.                                                   *)
(***************************************************************************)
Content == {"exact", "skewed", "text"}
Label == {"server", "text_fallback"}
Vector == [model : Model \cup {None}, of : Content \cup {"nothing"}, label : Label]
NoVector == [model |-> None, of |-> "nothing", label |-> "server"]
CacheEntry == [hash : Hash, model : Model, of : Content]

EntryOfAnyModel(r) == {c \in cache : c.hash = HashOf[r]}  \* slip: model_id ignored
EntryFor(r) == {c \in cache : c.hash = HashOf[r] /\ c.model = ModelOf[r]}
Entry(r, m, of) == [hash |-> HashOf[r], model |-> m, of |-> of]

Live == {"pending", "processing", "complete", "failed"}
alive == {r \in Row : status[r] \in Live}

(* A job: its payload (items), what its running phase still has to handle  *)
(* (todo), what an earlier phase set aside (held), and the cache row it    *)
(* writes next (put).                                                      *)
Kind == {"none", "strategy", "check", "api"}
Phase == {"free", "queued", "claim", "lookup", "image", "text", "fallback",
          "writeText", "writeFallback", "split", "done"}
JobRec == [kind : Kind, phase : Phase, items : SUBSET Row, todo : SUBSET Row,
           held : SUBSET Row, put : SUBSET CacheEntry, tries : 0..MaxTries]

(* A job as pg-boss stores it; the same job at a point of its handler.     *)
Stored(kind, rows, tries) ==
  [kind |-> kind, phase |-> "queued", items |-> rows, todo |-> {}, held |-> {},
   put |-> {}, tries |-> tries]
At(b, phase, todo, held, put) ==
  [kind |-> b.kind, phase |-> phase, items |-> b.items, todo |-> todo, held |-> held,
   put |-> put, tries |-> b.tries]

NewJob(kind, rows) == Stored(kind, rows, 0)
Again(b) == Stored(b.kind, b.items, b.tries + 1)  \* run again, same payload
Done(b) == At(b, "done", {}, {}, {})
FreeSlot == At(NewJob("none", {}), "free", {}, {}, {})

Is(j, kind, phase) == job[j].kind = kind /\ job[j].phase = phase
IsFree(k) == job[k].phase = "free"
Running(j) == job[j].phase \notin {"free", "queued"}

OfModel(rows, m) == {r \in rows : ModelOf[r] = m}
ModelsOf(rows) == {ModelOf[r] : r \in rows}
Least(a, b) == IF a <= b THEN a ELSE b

TypeOK ==
  /\ status \in [Row -> Live \cup {"absent", "deleted"}]
  /\ vector \in [Row -> Vector]
  /\ retries \in [Row -> 0..MaxRetries]
  /\ stale \in [Row -> BOOLEAN]
  /\ cache \subseteq CacheEntry
  /\ cooling \subseteq Model
  /\ after \in [Row -> {"none", "due", "put"}]
  /\ job \in [Slot -> JobRec]
  /\ faults \in 0..MaxFaults
  /\ calm \in BOOLEAN

Init ==
  /\ status = [r \in Row |-> "absent"]
  /\ vector = [r \in Row |-> NoVector]
  /\ retries = [r \in Row |-> 0]
  /\ stale = [r \in Row |-> FALSE]
  /\ cache = {}
  /\ cooling = {}
  /\ after = [r \in Row |-> "none"]
  /\ job = [k \in Slot |-> FreeSlot]
  /\ faults = 0
  /\ calm = TRUE

Fault == faults < MaxFaults /\ faults' = faults + 1

---------------------------------------------------------------------------
(* Statements several handlers share.                                      *)

(* status = 'pending' for a set of rows, and the row is not stale there.   *)
SetStatus(rows, s) ==
  /\ status' = [r \in Row |-> IF r \in rows THEN s ELSE status[r]]
  /\ stale' = [r \in Row |-> IF r \in rows THEN FALSE ELSE stale[r]]

releaseToPending(items) ==
  SetStatus({r \in items \cap alive : status[r] # "complete"}, "pending")

markFailed(rows) == SetStatus(rows \cap alive, "failed")

(* The row takes the vector model m made of `of`, and becomes complete.    *)
Complete(r, m, of, label) ==
  /\ SetStatus({r}, "complete")
  /\ vector' = [vector EXCEPT ![r] = [model |-> m, of |-> of, label |-> label]]

(* UPDATE ... WHERE id AND model_id RETURNING id: finds the row or not.    *)
Writable(r, m) == r \in alive /\ ModelOf[r] = m

(* INSERT ... ON CONFLICT (content_hash, model_id, task_type) DO NOTHING.  *)
writeCache(c) ==
  cache' = IF \E e \in cache : e.hash = c.hash /\ e.model = c.model
           THEN cache ELSE cache \cup {c}

---------------------------------------------------------------------------
(* Requests and operators.                                                 *)

(* A row is created pending: deferred evidence, a chunk the provider could *)
(* not serve, or a row a rebuild adds.  For an image under a rebuild       *)
(* target the request itself embeds it after its commit.                   *)
StubRow(r) ==
  /\ status[r] = "absent"
  /\ status' = [status EXCEPT ![r] = "pending"]
  /\ after' = [after EXCEPT ![r] =
                 IF r \in Image /\ ModelOf[r] # ReadModel THEN "due" ELSE "none"]
  /\ UNCHANGED <<vector, retries, stale, cache, cooling, job, faults, calm>>

(* A request embeds the content: a deposit, a check that is then refused,  *)
(* or a search for the same words.  The vector goes to the cache.          *)
SyncEmbed(r) ==
  /\ ModelOf[r] = ReadModel /\ EntryFor(r) = {}
  /\ writeCache(Entry(r, ReadModel, "exact"))
  /\ UNCHANGED <<rowVars, cooling, after, job, faults, calm>>

(* The deposit inserts the row with the vector it embedded or found.       *)
SyncRow(r) ==
  /\ status[r] = "absent"
  /\ ModelOf[r] = ReadModel
  /\ \E c \in EntryFor(r) : Complete(r, c.model, c.of, "server")
  /\ UNCHANGED <<retries, cache, cooling, after, job, faults, calm>>

(* After the commit: embed the image under the target, or take it from the *)
(* cache, and write it, unless the row has by now a vector that is not a   *)
(* text fallback.                                                          *)
AfterCommitWrite(r) ==
  LET wanted == /\ r \in alive
                /\ \/ status[r] \in {"pending", "processing"}
                   \/ vector[r].label = "text_fallback"
  IN  /\ after[r] = "due"
      /\ \/ /\ wanted
            /\ \/ /\ Complete(r, ModelOf[r], "exact", "server")
                  /\ after' = [after EXCEPT ![r] = "put"]
               \/ /\ \E c \in EntryFor(r) : Complete(r, c.model, c.of, "server")
                  /\ after' = [after EXCEPT ![r] = "none"]
         \/ /\ ~wanted
            /\ after' = [after EXCEPT ![r] = "none"]
            /\ UNCHANGED <<status, stale, vector>>
      /\ UNCHANGED <<retries, cache, cooling, job, faults, calm>>

AfterCommitCache(r) ==
  /\ after[r] = "put"
  /\ writeCache(Entry(r, ModelOf[r], "exact"))
  /\ after' = [after EXCEPT ![r] = "none"]
  /\ UNCHANGED <<rowVars, cooling, job, faults, calm>>

(* The request's call fails, or its process stops: nobody repeats it.      *)
AfterCommitLost(r) ==
  /\ after[r] # "none"
  /\ after' = [after EXCEPT ![r] = "none"]
  /\ UNCHANGED <<rowVars, cache, cooling, job, faults, calm>>

(* A live check meets the provider's pushback and records it.              *)
SyncPushback(m) ==
  /\ Fault
  /\ cooling' = cooling \cup {m}
  /\ UNCHANGED <<rowVars, cache, after, job, calm>>

(* deleteTraceCascade reaches the row.                                     *)
DeleteRow(r) ==
  /\ r \in alive
  /\ status' = [status EXCEPT ![r] = "deleted"]
  /\ UNCHANGED <<vector, retries, stale, cache, cooling, after, job, faults, calm>>

(* The admin's retry, one row, a strategy, or a model at a time.           *)
RetryFailed(rows) ==
  /\ rows # {}
  /\ \A r \in rows : status[r] = "failed" /\ retries[r] < MaxRetries
  /\ SetStatus(rows, "pending")
  /\ retries' = [r \in Row |-> IF r \in rows THEN retries[r] + 1 ELSE retries[r]]
  /\ calm' = FALSE
  /\ UNCHANGED <<vector, cache, cooling, after, job, faults>>

(* repair-image-fallbacks --apply.                                         *)
Restorable == {r \in alive : /\ status[r] = "complete"
                             /\ vector[r].label = "text_fallback"
                             /\ EntryFor(r) # {}}

RepairImageFallbacks ==
  /\ Restorable # {}
  /\ vector' = [r \in Row |-> IF r \in Restorable
       THEN [model |-> ModelOf[r], of |-> (CHOOSE c \in EntryFor(r) : TRUE).of, label |-> "server"]
       ELSE vector[r]]
  /\ UNCHANGED <<status, retries, stale, cache, cooling, after, job, faults, calm>>

---------------------------------------------------------------------------
(* Time.                                                                   *)

Age(r) ==
  /\ status[r] = "processing" /\ ~stale[r]
  /\ stale' = [stale EXCEPT ![r] = TRUE]
  /\ UNCHANGED <<status, vector, retries, cache, cooling, after, job, faults, calm>>

CooldownEnds(m) ==
  /\ m \in cooling
  /\ cooling' = cooling \ {m}
  /\ UNCHANGED <<rowVars, cache, after, job, faults, calm>>

---------------------------------------------------------------------------
(* Tier 1: the sweep, once a minute.                                       *)

StuckBelowLimit ==  \* slip: rows at the limit are never looked at
  {r \in Row : status[r] = "processing" /\ stale[r] /\ retries[r] < RetryLimit}
Stuck == {r \in Row : status[r] = "processing" /\ stale[r]}

AtLimitOffByOne(r) == retries[r] > RetryLimit  \* slip: one recovery too many
AtLimit(r) == retries[r] >= RetryLimit

SweepRecover ==
  LET over == {r \in Stuck : AtLimit(r)}
      again == Stuck \ over
  IN  /\ Stuck # {}
      /\ status' = [r \in Row |-> CASE r \in over -> "failed"
                                    [] r \in again -> "pending"
                                    [] OTHER -> status[r]]
      /\ stale' = [r \in Row |-> IF r \in Stuck THEN FALSE ELSE stale[r]]
      /\ retries' = [r \in Row |-> IF r \in again THEN retries[r] + 1 ELSE retries[r]]
      /\ calm' = FALSE
      /\ UNCHANGED <<vector, cache, cooling, after, job, faults>>

(* Discovery.  singletonKey alone does not keep a second check away.       *)
SweepDiscover(k) ==
  /\ \E r \in Row : status[r] = "pending"
  /\ IsFree(k)
  /\ Cardinality({s \in Slot : job[s].kind = "strategy"}) < MaxChecks
  /\ job' = [job EXCEPT ![k] = NewJob("strategy", {})]
  /\ UNCHANGED <<rowVars, cache, cooling, after, faults, calm>>

---------------------------------------------------------------------------
(* Tier 2: strategy-check, step 2 (step 1 is StrategyBackfill's).          *)

Dispatchable == {r \in Row : status[r] = "pending" /\ ModelOf[r] \notin cooling}

StrategyList(j) ==
  /\ Is(j, "strategy", "queued")
  /\ job' = [job EXCEPT ![j] = IF Dispatchable = {} THEN Done(job[j])
                               ELSE At(job[j], "claim", Dispatchable, {}, {})]
  /\ UNCHANGED <<rowVars, cache, cooling, after, faults, calm>>

ClaimableUnchecked(rows) == rows  \* slip: AND status = 'pending' dropped
Claimable(rows) == {r \in rows : status[r] = "pending"}

(* One batch of one model: of the rows listed, those still pending.        *)
StrategyClaim(j, rows) ==
  /\ Is(j, "strategy", "claim") /\ job[j].held = {}
  /\ rows # {} /\ rows \subseteq job[j].todo
  /\ \E m \in Model : LET mine == OfModel(job[j].todo, m)
                      IN  rows \subseteq mine /\ Cardinality(rows) = Least(Batch, Cardinality(mine))
  /\ LET claimed == Claimable(rows)
     IN  /\ SetStatus(claimed, "processing")
         /\ job' = [job EXCEPT ![j] = At(job[j], "claim", job[j].todo \ rows, claimed, {})]
  /\ UNCHANGED <<vector, retries, cache, cooling, after, faults, calm>>

StrategySend(j, k) ==
  /\ Is(j, "strategy", "claim") /\ job[j].held # {}
  /\ IsFree(k)
  /\ job' = [job EXCEPT ![k] = NewJob("check", job[j].held),
                        ![j] = At(job[j], "claim", job[j].todo, {}, {})]
  /\ UNCHANGED <<rowVars, cache, cooling, after, faults, calm>>

StrategyEnd(j) ==
  /\ Is(j, "strategy", "claim") /\ job[j].held = {} /\ job[j].todo = {}
  /\ job' = [job EXCEPT ![j] = Done(job[j])]
  /\ UNCHANGED <<rowVars, cache, cooling, after, faults, calm>>

---------------------------------------------------------------------------
(* Tier 3: vector-check.                                                   *)

(* loadVectorItems, then claim what a release put back.                    *)
CheckLoad(j) ==
  /\ Is(j, "check", "queued")
  /\ LET loaded == job[j].items \cap alive
     IN  /\ SetStatus({r \in loaded : status[r] = "pending"}, "processing")
         /\ job' = [job EXCEPT ![j] =
              LET b == Stored("check", loaded, job[j].tries)
              IN  IF loaded = {} THEN Done(b) ELSE At(b, "lookup", loaded, {}, {})]
  /\ UNCHANGED <<vector, retries, cache, cooling, after, faults, calm>>

MissesAndHits(b, r) == b.held \cup {r}  \* slip: hits are forwarded as well
Misses(b, r) == IF EntryFor(r) = {} THEN b.held \cup {r} ELSE b.held

CheckLookup(j, r) ==
  /\ Is(j, "check", "lookup") /\ r \in job[j].todo
  /\ job' = [job EXCEPT ![j] =
       At(job[j], "lookup", job[j].todo \ {r}, Misses(job[j], r), {})]
  /\ IF EntryFor(r) # {} /\ Writable(r, ModelOf[r])
     THEN \E c \in EntryFor(r) : Complete(r, c.model, c.of, vector[r].label)
     ELSE UNCHANGED <<status, stale, vector>>
  /\ UNCHANGED <<retries, cache, cooling, after, faults, calm>>

(* One API job per model.                                                  *)
CheckForward(j, k, m) ==
  LET group == OfModel(job[j].held, m) IN
  /\ Is(j, "check", "lookup") /\ job[j].todo = {}
  /\ group # {}
  /\ IsFree(k)
  /\ job' = [job EXCEPT ![k] = NewJob("api", group),
                        ![j] = At(job[j], "lookup", {}, job[j].held \ group, {})]
  /\ UNCHANGED <<rowVars, cache, cooling, after, faults, calm>>

CheckEnd(j) ==
  /\ Is(j, "check", "lookup") /\ job[j].todo = {} /\ job[j].held = {}
  /\ job' = [job EXCEPT ![j] = Done(job[j])]
  /\ UNCHANGED <<rowVars, cache, cooling, after, faults, calm>>

---------------------------------------------------------------------------
(* Tier 4: vector-api-call.                                                *)

CallModel(j) == CHOOSE m \in Model : m \in ModelsOf(job[j].items)

ApiLoad(j) ==
  /\ Is(j, "api", "queued")
  /\ LET loaded == job[j].items \cap alive
         cold == ModelsOf(loaded) \cap cooling # {}
         b == Stored("api", loaded, job[j].tries)
     IN  /\ job' = [job EXCEPT ![j] =
              IF loaded = {} \/ cold THEN Done(b)
              ELSE At(b, "image", loaded \cap Image, {}, {})]
         /\ IF cold THEN releaseToPending(loaded) ELSE UNCHANGED <<status, stale>>
  /\ UNCHANGED <<vector, retries, cache, cooling, after, faults, calm>>

(* The phases that call the provider, once the writes before are through.  *)
Calling(j) == /\ job[j].kind = "api" /\ job[j].put = {}
              /\ \/ job[j].phase = "image"
                 \/ job[j].phase \in {"text", "fallback"} /\ job[j].todo # {}

(* 429, 5xx, timeout, bad key: the model cools down, the rows go back.     *)
ApiPushback(j) ==
  /\ Calling(j) /\ (job[j].phase = "image" => job[j].todo # {})
  /\ Fault
  /\ \E m \in ModelsOf(job[j].items) : cooling' = cooling \cup {m}
  /\ releaseToPending(job[j].items)
  /\ job' = [job EXCEPT ![j] = Done(job[j])]
  /\ UNCHANGED <<vector, retries, cache, after, calm>>

RowRefusedReleasing(j) ==  \* slip: rows released although pg-boss runs the job again
  releaseToPending(job[j].items) /\ job' = [job EXCEPT ![j] = Again(job[j])]

(* The catch branch for a failure that is not the provider's: fail a       *)
(* single row, split a batch on its second run, else let pg-boss retry.    *)
RowRefused(j) ==
  LET b == job[j] IN
  IF Cardinality(b.items) = 1
  THEN markFailed(b.items) /\ job' = [job EXCEPT ![j] = Done(job[j])]
  ELSE /\ UNCHANGED <<status, stale>>
       /\ job' = [job EXCEPT ![j] =
            IF b.tries >= 1 THEN At(b, "split", b.items, {}, {}) ELSE Again(b)]

ApiRefused(j) ==
  /\ Calling(j) /\ job[j].phase # "image"
  /\ RowRefused(j)
  /\ UNCHANGED <<vector, retries, cache, cooling, after, faults, calm>>

(* A write fails in the database: the same catch branch.                   *)
ApiWriteError(j) ==
  /\ job[j].kind = "api"
  /\ job[j].phase \in {"writeText", "writeFallback"} \/ job[j].put # {}
  /\ Fault
  /\ RowRefused(j)
  /\ calm' = FALSE
  /\ UNCHANGED <<vector, retries, cache, cooling, after>>

(* What writeCache is told after a write: nothing unless the row was still *)
(* there, and unless the content is what the chunk hash was taken from.    *)
ToCacheIfGone(r, m, of) ==  \* slip: RETURNING id not looked at
  IF of = "exact" THEN {Entry(r, m, of)} ELSE {}
ToCacheAny(r, m, of) ==  \* slip: the hash of the content not compared
  IF Writable(r, m) THEN {Entry(r, m, of)} ELSE {}
ToCache(r, m, of) == IF of = "exact" /\ Writable(r, m) THEN {Entry(r, m, of)} ELSE {}

(* embedRealImage: no bytes here or an image the provider refuses leaves   *)
(* the row to the fallback; otherwise it is written.                       *)
Fallback(b, r, of) == IF of = "text" THEN b.held \cup {r} ELSE b.held

ApiImage(j, r, of) ==
  LET b == job[j]
      m == CallModel(j)
  IN  /\ Is(j, "api", "image") /\ b.put = {} /\ r \in b.todo
      /\ IF of # "text" /\ Writable(r, m)
         THEN Complete(r, m, of, "server")
         ELSE UNCHANGED <<status, stale, vector>>
      /\ job' = [job EXCEPT ![j] =
           At(b, "image", b.todo \ {r}, Fallback(b, r, of), ToCache(r, m, of))]
      /\ UNCHANGED <<retries, cache, cooling, after, faults, calm>>

(* No image left: on to the text batch, and from there to the fallbacks.   *)
ApiNext(j) ==
  LET b == job[j] IN
  /\ b.kind = "api" /\ b.todo = {} /\ b.put = {}
  /\ \/ /\ b.phase = "image"
        /\ job' = [job EXCEPT ![j] = At(b, "text", b.items \ Image, b.held, {})]
     \/ /\ b.phase \in {"text", "writeText"}
        /\ job' = [job EXCEPT ![j] = At(b, "fallback", b.held, b.held, {})]
     \/ /\ b.phase \in {"fallback", "writeFallback"}
        /\ job' = [job EXCEPT ![j] = Done(b)]
  /\ UNCHANGED <<rowVars, cache, cooling, after, faults, calm>>

(* batchEmbed answers.                                                     *)
ApiAnswered(j) ==
  LET b == job[j] IN
  /\ Calling(j) /\ b.phase # "image"
  /\ job' = [job EXCEPT ![j] =
       At(b, IF b.phase = "text" THEN "writeText" ELSE "writeFallback", b.todo, b.held, {})]
  /\ UNCHANGED <<rowVars, cache, cooling, after, faults, calm>>

Writing(j, r) == /\ job[j].kind = "api" /\ job[j].phase \in {"writeText", "writeFallback"}
                 /\ job[j].put = {} /\ r \in job[j].todo

(* One row of the answer.  Only a text row's vector goes to the cache, and *)
(* only if its row was still there to take it.                             *)
ApiWrite(j, r) ==
  LET b == job[j]
      m == CallModel(j)
      text == b.phase = "writeText"
      of == IF text THEN "exact" ELSE "text"
  IN  /\ Writing(j, r)
      /\ IF Writable(r, m)
         THEN Complete(r, m, of, IF text THEN "server" ELSE "text_fallback")
         ELSE UNCHANGED <<status, stale, vector>>
      /\ job' = [job EXCEPT ![j] = At(b, b.phase, b.todo \ {r}, b.held, ToCache(r, m, of))]
      /\ UNCHANGED <<retries, cache, cooling, after, faults, calm>>

(* "No embedding returned for this index".                                 *)
ApiMissing(j, r) ==
  LET b == job[j] IN
  /\ Writing(j, r)
  /\ markFailed({r})
  /\ job' = [job EXCEPT ![j] = At(b, b.phase, b.todo \ {r}, b.held, {})]
  /\ UNCHANGED <<vector, retries, cache, cooling, after, faults, calm>>

ApiCache(j) ==
  LET b == job[j] IN
  /\ b.kind = "api"
  /\ \E c \in b.put : writeCache(c)
  /\ job' = [job EXCEPT ![j] = At(b, b.phase, b.todo, b.held, {})]
  /\ UNCHANGED <<rowVars, cooling, after, faults, calm>>

(* The halves of a refused batch, one send at a time: ceil(n/2), the rest. *)
ApiSplit(j, k, rows) ==
  LET b == job[j]
      half == (Cardinality(b.items) + 1) \div 2
  IN  /\ Is(j, "api", "split") /\ IsFree(k)
      /\ rows # {} /\ rows \subseteq b.todo
      /\ IF b.todo = b.items THEN Cardinality(rows) = half ELSE rows = b.todo
      /\ job' = [job EXCEPT ![k] = NewJob("api", rows),
                              ![j] = At(b, "split", b.todo \ rows, {}, {})]
      /\ UNCHANGED <<rowVars, cache, cooling, after, faults, calm>>

ApiSplitEndEarly(j) ==  \* slip: the right half is not sent
  /\ Is(j, "api", "split")
  /\ job' = [job EXCEPT ![j] = Done(job[j])]
  /\ UNCHANGED <<rowVars, cache, cooling, after, faults, calm>>

ApiSplitEnd(j) ==
  /\ Is(j, "api", "split") /\ job[j].todo = {}
  /\ job' = [job EXCEPT ![j] = Done(job[j])]
  /\ UNCHANGED <<rowVars, cache, cooling, after, faults, calm>>

---------------------------------------------------------------------------
(* pg-boss: acknowledgement, and the ways a job is run again.              *)

Ack(j) ==
  /\ job[j].phase = "done"
  /\ job' = [job EXCEPT ![j] = FreeSlot]
  /\ UNCHANGED <<rowVars, cache, cooling, after, faults, calm>>

(* The process stops under a running handler, or another job of the batch  *)
(* throws after this one finished.                                         *)
Crash(j) ==
  /\ Running(j)
  /\ Fault
  /\ job' = [job EXCEPT ![j] = IF job[j].tries < MaxTries THEN Again(job[j]) ELSE FreeSlot]
  /\ calm' = FALSE
  /\ UNCHANGED <<rowVars, cache, cooling, after>>

(* The lease runs out and the handler does not know: both carry on.        *)
Expire(j, k) ==
  /\ Running(j) /\ IsFree(k)
  /\ job[j].tries < MaxTries
  /\ Fault
  /\ job' = [job EXCEPT ![k] = Again(job[j])]
  /\ calm' = FALSE
  /\ UNCHANGED <<rowVars, cache, cooling, after>>

---------------------------------------------------------------------------
StrategyStep(j) ==
  \/ StrategyList(j)
  \/ \E rows \in SUBSET Row : StrategyClaim(j, rows)
  \/ \E k \in Slot : StrategySend(j, k)
  \/ StrategyEnd(j)

CheckStep(j) ==
  \/ CheckLoad(j)
  \/ \E r \in Row : CheckLookup(j, r)
  \/ \E k \in Slot, m \in Model : CheckForward(j, k, m)
  \/ CheckEnd(j)

ApiStep(j) ==
  \/ ApiLoad(j)
  \/ \E r \in Row, of \in Content : ApiImage(j, r, of)
  \/ ApiNext(j)
  \/ ApiAnswered(j)
  \/ ApiRefused(j)
  \/ \E r \in Row : ApiWrite(j, r)
  \/ \E r \in Row : ApiMissing(j, r)
  \/ ApiCache(j)
  \/ \E k \in Slot, rows \in SUBSET Row : ApiSplit(j, k, rows)
  \/ ApiSplitEnd(j)

HandlerStep(j) == StrategyStep(j) \/ CheckStep(j) \/ ApiStep(j) \/ Ack(j)

FaultStep(j) ==
  \/ ApiPushback(j)
  \/ ApiWriteError(j)
  \/ Crash(j)
  \/ \E k \in Slot : Expire(j, k)

RequestStep(r) ==
  \/ StubRow(r)
  \/ SyncEmbed(r)
  \/ SyncRow(r)
  \/ AfterCommitWrite(r)
  \/ AfterCommitCache(r)
  \/ AfterCommitLost(r)
  \/ DeleteRow(r)

OperatorStep ==
  \/ \E rows \in SUBSET Row : RetryFailed(rows)
  \/ RepairImageFallbacks

Next ==
  \/ \E r \in Row : RequestStep(r) \/ Age(r)
  \/ OperatorStep
  \/ \E m \in Model : CooldownEnds(m) \/ SyncPushback(m)
  \/ SweepRecover
  \/ \E k \in Slot : SweepDiscover(k)
  \/ \E j \in Slot : HandlerStep(j) \/ FaultStep(j)

Spec == Init /\ [][Next]_vars

(* The worker keeps taking jobs, the sweep is a cron schedule, and both    *)
(* clocks run.  Requests, operators and faults owe nothing.                *)
FairSpec ==
  /\ Spec
  /\ \A j \in Slot : WF_vars(HandlerStep(j))
  /\ WF_vars(SweepRecover)
  /\ WF_vars(\E k \in Slot : SweepDiscover(k))
  /\ \A r \in Row : WF_vars(Age(r))
  /\ \A m \in Model : WF_vars(CooldownEnds(m))

---------------------------------------------------------------------------
(* Properties.                                                             *)

(* Rows a job may still put before the provider, now or when pg-boss runs  *)
(* its payload again after an ordinary refusal.                            *)
InHand(b) == {r \in Row :
  /\ b.phase \notin {"free", "done"}
  /\ \/ b.kind = "strategy" /\ r \in b.held
     \/ b.kind # "strategy" /\ b.phase = "lookup" /\ r \in b.todo \cup b.held
     \/ b.kind # "strategy" /\ b.phase = "split" /\ r \in b.todo
     \/ b.kind # "strategy" /\ b.phase \notin {"lookup", "split"} /\ r \in b.items}
Owned(j) == InHand(job[j])
Unclaimed == {r \in Row : status[r] \in {"absent", "pending"}}

(* A vector is stored under the model that computed it, and a complete row *)
(* always has one: search compares vectors within one model_id, so a row   *)
(* labelled with another's would be ranked by noise.                       *)
VectorsOfOwnModel ==
  \A r \in Row :
    /\ vector[r].model \in {ModelOf[r], None}
    /\ status[r] = "complete" => vector[r].model = ModelOf[r]

(* vector_cache never answers a hash with a vector of something else: not  *)
(* an image's hash with its text, nor with re-cued bytes (ADR-0019).       *)
CacheHoldsWhatItHashes == \A c \in cache : c.of = "exact"

(* A recipe deleted during the call leaves no cache row: what the worker is*)
(* about to cache, some row of that content has taken.                     *)
CachedOnlyIfWritten ==
  \A j \in Slot : \A c \in job[j].put :
    \E r \in Row : HashOf[r] = c.hash /\ ModelOf[r] = c.model /\ vector[r] # NoVector

(* Until a job is killed, outlives its lease or is taken for dead, claiming*)
(* before sending gives every row to one job, and a release puts a row back*)
(* only when its job is done with it: none is sent, and paid for, twice.   *)
OneJobPerRow ==
  calm => /\ \A j, k \in Slot : j # k => Owned(j) \cap Owned(k) = {}
          /\ \A j \in Slot : Owned(j) \cap Unclaimed = {}

(* Short of a crash nothing is left for the ten-minute recovery: a claimed *)
(* row stays in the hands of a job until it is complete, failed, put back  *)
(* or deleted, through every forward, refusal and split.                   *)
NoRowStranded ==
  calm => \A r \in Row : status[r] = "processing" => \E j \in Slot : r \in Owned(j)

(* Without images and in calm, nothing takes a complete row out of search  *)
(* but its deletion.                                                       *)
CompleteIsFinalForText ==
  [][\A r \in Row : calm' /\ Image = {} /\ status[r] = "complete"
       => status'[r] \in {"complete", "deleted"}]_vars

(* Every row gets an answer: once created, it ends complete, failed for an *)
(* admin to look at, or deleted, whatever crashed or was pushed back.      *)
EveryRowSettles ==
  \A r \in Row : status[r] \in {"pending", "processing"}
                  ~> status[r] \in {"complete", "failed", "deleted"}

(* What search and the admin pages see of the rows.                        *)
Visible(s) == IF s \in {"pending", "processing"} THEN "waiting" ELSE s
Rows == INSTANCE EmbeddingRows WITH
          state <- [r \in Row |-> Visible(status[r])],
          model <- [r \in Row |-> vector[r].model]

(* The pipeline implements EmbeddingRows: whatever stale jobs, retries and *)
(* repairs do, a complete row never waits again, what is deleted stays     *)
(* deleted, and only a vector of its own model makes a row complete.       *)
ImplementsRows == Rows!Spec

(* docs/architecture/admin-dashboards.md, state diagram: complete --> [*]. *)
CompleteIsFinal ==
  [][\A r \in Row : status[r] = "complete" => status'[r] \in {"complete", "deleted"}]_vars

=============================================================================
