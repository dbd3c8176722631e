----------------------- MODULE EmbeddingVectorProofs -----------------------
(* What rows and the cache hold, for every set of rows, models, hashes and *)
(* job slots.  Whatever a step does to jobs, it moves each row the way     *)
(* EmbeddingRows allows: so the pipeline implements that specification,    *)
(* and a row's vector is its own model's.  What the cache holds needs the  *)
(* jobs as well.                                                           *)
EXTENDS EmbeddingPipelineProofs

---------------------------------------------------------------------------
(* What one step does to one row, in the pipeline's own terms.             *)
Waiting == {"pending", "processing"}

StatusMoves(r) ==
  \/ status'[r] = status[r]
  \/ status[r] = "absent" /\ status'[r] = "pending"
  \/ status[r] \in Waiting /\ status'[r] \in Waiting
  \/ status[r] \in Live /\ status'[r] \in {"failed", "deleted"}
  \/ status[r] = "failed" /\ status'[r] = "pending"

Kept(r) == vector'[r] = vector[r] /\ StatusMoves(r)

Taken(r) ==
  /\ status[r] \in Live \cup {"absent"}
  /\ status'[r] = "complete"
  /\ vector'[r].model = ModelOf[r]

EveryRowMoves == \A r \in Row : Kept(r) \/ Taken(r)

RowMoves(r) ==
  \/ Rows!Stays(r) \/ Rows!Adds(r) \/ Rows!Stores(r)
  \/ Rows!Fails(r) \/ Rows!Requeues(r) \/ Rows!Removes(r)

LEMMA KeptMoves == ASSUME NEW r \in Row, Kept(r) PROVE RowMoves(r)
<1>1. vector'[r].model = vector[r].model BY DEF Kept
<1>2. CASE status'[r] = status[r]
  BY <1>1, <1>2 DEF RowMoves, Rows!Stays, Rows!KeepsVector
<1>3. CASE status[r] = "absent" /\ status'[r] = "pending"
  BY <1>1, <1>3 DEF RowMoves, Rows!Adds, Rows!From, Rows!KeepsVector, Visible
<1>4. CASE status[r] \in Waiting /\ status'[r] \in Waiting
  BY <1>1, <1>4 DEF RowMoves, Rows!Stays, Rows!KeepsVector, Visible, Waiting
<1>5. CASE status[r] \in Live /\ status'[r] = "failed"
  BY <1>1, <1>5
     DEF RowMoves, Rows!Fails, Rows!From, Rows!Live, Rows!KeepsVector, Visible, Live
<1>6. CASE status[r] \in Live /\ status'[r] = "deleted"
  BY <1>1, <1>6
     DEF RowMoves, Rows!Removes, Rows!From, Rows!Live, Rows!KeepsVector, Visible, Live
<1>7. CASE status[r] = "failed" /\ status'[r] = "pending"
  BY <1>1, <1>7 DEF RowMoves, Rows!Requeues, Rows!From, Rows!KeepsVector, Visible
<1>8. QED BY <1>2, <1>3, <1>4, <1>5, <1>6, <1>7 DEF Kept, StatusMoves

LEMMA TakenMoves == ASSUME NEW r \in Row, Taken(r) PROVE RowMoves(r)
BY DEF Taken, RowMoves, Rows!Stores, Rows!From, Rows!Live, Visible, Live

(* EveryRowMoves is all the abstract step asks for.                             *)
LEMMA MoveImplements == ASSUME TypeOK', EveryRowMoves PROVE Rows!Next
<1>1. Rows!TypeOK' BY DEF TypeOK, Vector, Live, Visible, Rows!TypeOK, Rows!State, Rows!Live
<1>2. \A r \in Row : RowMoves(r) BY KeptMoves, TakenMoves DEF EveryRowMoves
<1>3. QED BY <1>1, <1>2 DEF Rows!Next, RowMoves

---------------------------------------------------------------------------
(* The statements the handlers share.                                      *)
LEMMA NothingMoves == ASSUME UNCHANGED <<status, vector>> PROVE EveryRowMoves
BY DEF EveryRowMoves, Kept, StatusMoves

LEMMA SettingMoves ==
  ASSUME TypeOK, NEW rows, NEW s, SetStatus(rows, s), vector' = vector,
         \A r \in Row \cap rows :
           \/ status[r] \in Waiting /\ s \in Waiting
           \/ status[r] \in Live /\ s = "failed"
           \/ status[r] = "failed" /\ s = "pending"
  PROVE  EveryRowMoves
<1> SUFFICES ASSUME NEW r \in Row PROVE Kept(r) BY DEF EveryRowMoves
<1>1. status'[r] = IF r \in rows THEN s ELSE status[r] BY DEF SetStatus
<1>2. QED BY <1>1 DEF Kept, StatusMoves

LEMMA ReleasingMoves ==
  ASSUME TypeOK, NEW rows \in SUBSET Row, releaseToPending(rows), vector' = vector
  PROVE  EveryRowMoves
<1> DEFINE back == {r \in rows \cap alive : status[r] # "complete"}
<1>1. SetStatus(back, "pending") BY DEF releaseToPending
<1>2. \A r \in back : status[r] \in Waiting \/ status[r] = "failed" BY DEF alive, Live, Waiting
<1> HIDE DEF back
<1>3. QED BY <1>1, <1>2, SettingMoves DEF Waiting

LEMMA FailingMoves ==
  ASSUME TypeOK, NEW rows \in SUBSET Row, markFailed(rows), vector' = vector
  PROVE  EveryRowMoves
<1>1. SetStatus(rows \cap alive, "failed") BY DEF markFailed
<1>2. \A r \in rows \cap alive : status[r] \in Live BY DEF alive
<1>3. QED BY <1>1, <1>2, SettingMoves

LEMMA CompletingMoves ==
  ASSUME TypeOK, NEW r \in Row, status[r] \in Live \cup {"absent"},
         NEW of, NEW label, Complete(r, ModelOf[r], of, label)
  PROVE  EveryRowMoves
<1>1. Taken(r) BY DEF Taken, Complete, SetStatus, TypeOK
<1>2. ASSUME NEW s \in Row, s # r PROVE Kept(s)
  BY <1>2 DEF Kept, StatusMoves, Complete, SetStatus, TypeOK
<1>3. QED BY <1>1, <1>2 DEF EveryRowMoves

(* The cache is read under the row's own model.                            *)
LEMMA CachedMoves ==
  ASSUME TypeOK, NEW r \in Row, status[r] \in Live \cup {"absent"}, NEW label,
         \E c \in EntryFor(r) : Complete(r, c.model, c.of, label)
  PROVE  EveryRowMoves
<1>1. PICK c \in EntryFor(r) : Complete(r, c.model, c.of, label) OBVIOUS
<1>2. c.model = ModelOf[r] BY DEF EntryFor
<1>3. QED BY <1>1, <1>2, CompletingMoves

LEMMA WritingMoves ==
  ASSUME TypeOK, NEW r \in Row, NEW m, Writable(r, m), NEW of, NEW label,
         Complete(r, m, of, label)
  PROVE  EveryRowMoves
<1>1. m = ModelOf[r] /\ status[r] \in Live BY DEF Writable, alive
<1>2. QED BY <1>1, CompletingMoves

---------------------------------------------------------------------------
(* The steps.                                                              *)
LEMMA RequestMoves ==
  ASSUME TypeOK, NEW r \in Row, RequestStep(r) \/ Age(r) PROVE EveryRowMoves
<1>1. CASE StubRow(r) BY <1>1 DEF StubRow, TypeOK, EveryRowMoves, Kept, StatusMoves
<1>2. CASE SyncEmbed(r) \/ AfterCommitCache(r) \/ AfterCommitLost(r) \/ Age(r)
  BY <1>2, NothingMoves DEF SyncEmbed, AfterCommitCache, AfterCommitLost, Age, rowVars
<1>3. CASE SyncRow(r) BY <1>3, CachedMoves DEF SyncRow
<1>4. CASE AfterCommitWrite(r)
  <2>1. CASE r \in alive /\ Complete(r, ModelOf[r], "exact", "server")
    BY <2>1, CompletingMoves DEF alive
  <2>2. CASE r \in alive /\ \E c \in EntryFor(r) : Complete(r, c.model, c.of, "server")
    BY <2>2, CachedMoves DEF alive
  <2>3. CASE UNCHANGED <<status, stale, vector>> BY <2>3, NothingMoves
  <2>4. QED BY <1>4, <2>1, <2>2, <2>3 DEF AfterCommitWrite
<1>5. CASE DeleteRow(r)
  BY <1>5 DEF DeleteRow, TypeOK, alive, EveryRowMoves, Kept, StatusMoves
<1>6. QED BY <1>1, <1>2, <1>3, <1>4, <1>5 DEF RequestStep

LEMMA OperatorMoves ==
  ASSUME TypeOK, OperatorStep \/ SweepRecover PROVE EveryRowMoves
<1>1. ASSUME NEW rows \in SUBSET Row, RetryFailed(rows) PROVE EveryRowMoves
  BY <1>1, SettingMoves DEF RetryFailed
<1>2. CASE RepairImageFallbacks
  <2> SUFFICES ASSUME NEW r \in Row PROVE Kept(r) \/ Taken(r) BY DEF EveryRowMoves
  <2>1. CASE r \in Restorable
    <3>1. vector'[r].model = ModelOf[r] BY <1>2, <2>1 DEF RepairImageFallbacks
    <3>2. status[r] = "complete" /\ status'[r] = "complete"
      BY <1>2, <2>1 DEF RepairImageFallbacks, Restorable
    <3>3. QED BY <3>1, <3>2 DEF Taken, Live
  <2>2. CASE r \notin Restorable
    BY <1>2, <2>2 DEF RepairImageFallbacks, Kept, StatusMoves
  <2>3. QED BY <2>1, <2>2
<1>3. CASE SweepRecover
  <2> SUFFICES ASSUME NEW r \in Row PROVE Kept(r) BY DEF EveryRowMoves
  <2>1. status'[r] = status[r] \/ (r \in Stuck /\ status'[r] \in {"failed", "pending"})
    BY <1>3 DEF SweepRecover
  <2>2. r \in Stuck => status[r] = "processing" BY DEF Stuck
  <2>3. vector' = vector BY <1>3 DEF SweepRecover
  <2>4. QED BY <2>1, <2>2, <2>3 DEF Kept, StatusMoves, Waiting, Live
<1>4. QED BY <1>1, <1>2, <1>3 DEF OperatorStep

LEMMA HandlerMoves ==
  ASSUME TypeOK, NEW j \in Slot, StrategyStep(j) \/ CheckStep(j) \/ Ack(j) PROVE EveryRowMoves
<1>1. CASE StrategyList(j) \/ StrategyEnd(j) \/ CheckEnd(j) \/ Ack(j)
  BY <1>1, NothingMoves DEF StrategyList, StrategyEnd, CheckEnd, Ack, rowVars
<1>2. CASE \/ \E k \in Slot : StrategySend(j, k)
           \/ \E k \in Slot, m \in Model : CheckForward(j, k, m)
  BY <1>2, NothingMoves DEF StrategySend, CheckForward, rowVars
<1>3. ASSUME NEW rows \in SUBSET Row, StrategyClaim(j, rows) PROVE EveryRowMoves
  <2>1. SetStatus(Claimable(rows), "processing") /\ vector' = vector BY <1>3 DEF StrategyClaim
  <2>2. \A r \in Claimable(rows) : status[r] = "pending" BY DEF Claimable
  <2>3. QED BY <2>1, <2>2, SettingMoves DEF Waiting
<1>4. CASE CheckLoad(j)
  <2> DEFINE claimed == {r \in job[j].items \cap alive : status[r] = "pending"}
  <2>1. SetStatus(claimed, "processing") /\ vector' = vector BY <1>4 DEF CheckLoad
  <2>2. \A r \in claimed : status[r] = "pending" OBVIOUS
  <2> HIDE DEF claimed
  <2>3. QED BY <2>1, <2>2, SettingMoves DEF Waiting
<1>5. ASSUME NEW r \in Row, CheckLookup(j, r) PROVE EveryRowMoves
  <2>1. CASE /\ r \in alive
             /\ \E c \in EntryFor(r) : Complete(r, c.model, c.of, vector[r].label)
    BY <2>1, CachedMoves DEF alive
  <2>2. CASE UNCHANGED <<status, stale, vector>> BY <2>2, NothingMoves
  <2>3. QED BY <1>5, <2>1, <2>2 DEF CheckLookup, Writable
<1>6. QED BY <1>1, <1>2, <1>3, <1>4, <1>5 DEF StrategyStep, CheckStep

LEMMA RefusalMoves ==
  ASSUME TypeOK, NEW j \in Slot, RowRefused(j), vector' = vector PROVE EveryRowMoves
<1>1. job[j].items \in SUBSET Row BY JobType DEF JobRec
<1>2. CASE markFailed(job[j].items) BY <1>1, <1>2, FailingMoves
<1>3. CASE UNCHANGED <<status, stale>> BY <1>3, NothingMoves
<1>4. QED BY <1>2, <1>3 DEF RowRefused

LEMMA ApiMoves ==
  ASSUME TypeOK, NEW j \in Slot, ApiStep(j) \/ FaultStep(j) PROVE EveryRowMoves
<1>0. job[j].items \in SUBSET Row BY JobType DEF JobRec
<1>1. CASE ApiNext(j) \/ ApiAnswered(j) \/ ApiCache(j) \/ ApiSplitEnd(j) \/ Crash(j)
  BY <1>1, NothingMoves DEF ApiNext, ApiAnswered, ApiCache, ApiSplitEnd, Crash, rowVars
<1>2. CASE (\E k \in Slot, rows \in SUBSET Row : ApiSplit(j, k, rows)) \/ (\E k \in Slot : Expire(j, k))
  BY <1>2, NothingMoves DEF ApiSplit, Expire, rowVars
<1>3. CASE ApiLoad(j) \/ ApiPushback(j)
  <2>1. vector' = vector BY <1>3 DEF ApiLoad, ApiPushback
  <2>2. CASE \E rows \in SUBSET Row : releaseToPending(rows) BY <2>1, <2>2, ReleasingMoves
  <2>3. CASE UNCHANGED <<status, stale>> BY <2>1, <2>3, NothingMoves
  <2>4. job[j].items \cap alive \in SUBSET Row BY <1>0
  <2>5. CASE ApiPushback(j) BY <1>0, <2>2, <2>5 DEF ApiPushback
  <2>6. CASE ApiLoad(j) BY <2>2, <2>3, <2>4, <2>6 DEF ApiLoad
  <2>7. QED BY <1>3, <2>5, <2>6
<1>4. CASE ApiRefused(j) \/ ApiWriteError(j)
  BY <1>4, RefusalMoves DEF ApiRefused, ApiWriteError
<1>5. ASSUME NEW r \in Row, NEW of \in Content, ApiImage(j, r, of) PROVE EveryRowMoves
  <2>1. CASE of # "text" /\ Writable(r, CallModel(j))
    <3>1. Complete(r, CallModel(j), of, "server") BY <1>5, <2>1 DEF ApiImage
    <3>2. QED BY <2>1, <3>1, WritingMoves
  <2>2. CASE ~(of # "text" /\ Writable(r, CallModel(j)))
    BY <1>5, <2>2, NothingMoves DEF ApiImage
  <2>3. QED BY <2>1, <2>2
<1>6. ASSUME NEW r \in Row, ApiWrite(j, r) PROVE EveryRowMoves
  <2> DEFINE of == IF job[j].phase = "writeText" THEN "exact" ELSE "text"
             label == IF job[j].phase = "writeText" THEN "server" ELSE "text_fallback"
  <2>1. CASE Writable(r, CallModel(j))
    <3>1. Complete(r, CallModel(j), of, label) BY <1>6, <2>1 DEF ApiWrite
    <3> HIDE DEF of, label
    <3>2. QED BY <2>1, <3>1, WritingMoves
  <2>2. CASE ~Writable(r, CallModel(j)) BY <1>6, <2>2, NothingMoves DEF ApiWrite
  <2>3. QED BY <2>1, <2>2
<1>7. ASSUME NEW r \in Row, ApiMissing(j, r) PROVE EveryRowMoves
  BY <1>7, FailingMoves DEF ApiMissing
<1>8. QED BY <1>1, <1>2, <1>3, <1>4, <1>5, <1>6, <1>7 DEF ApiStep, FaultStep

LEMMA StepMoves == ASSUME TypeOK, Next PROVE EveryRowMoves
<1>1. CASE \E r \in Row : RequestStep(r) \/ Age(r) BY <1>1, RequestMoves
<1>2. CASE OperatorStep \/ SweepRecover BY <1>2, OperatorMoves
<1>3. CASE (\E m \in Model : CooldownEnds(m) \/ SyncPushback(m)) \/ (\E k \in Slot : SweepDiscover(k))
  BY <1>3, NothingMoves DEF CooldownEnds, SyncPushback, SweepDiscover, rowVars
<1>4. CASE \E j \in Slot : HandlerStep(j) \/ FaultStep(j)
  BY <1>4, HandlerMoves, ApiMoves DEF HandlerStep
<1>5. QED BY <1>1, <1>2, <1>3, <1>4 DEF Next

---------------------------------------------------------------------------
(* The pipeline implements EmbeddingRows.  Readers of embedding_vectors    *)
(* need to know only that specification: a complete row never waits again, *)
(* a deleted one stays deleted, and a row becomes complete only with a     *)
(* vector of its own model.                                                *)
THEOREM RefinesRows == Spec => ImplementsRows
<1>1. Init => Rows!Init
  BY DEF Init, NoVector, Visible, Rows!Init
<1>2. TypeOK /\ TypeOK' /\ [Next]_vars => [Rows!Next]_(Rows!vars)
  <2> SUFFICES ASSUME TypeOK, TypeOK', [Next]_vars PROVE [Rows!Next]_(Rows!vars)
    OBVIOUS
  <2>1. CASE Next BY <2>1, StepMoves, MoveImplements
  <2>2. CASE UNCHANGED vars BY <2>2 DEF vars, Rows!vars, Visible
  <2>3. QED BY <2>1, <2>2
<1>3. QED BY <1>1, <1>2, TypeCorrect, PTL DEF Spec, ImplementsRows, Rows!Spec

---------------------------------------------------------------------------
(* No row ever holds another model's vector, and none is complete without  *)
(* one: search can compare what one model_id selects.                      *)
THEOREM OwnModel == Spec => []VectorsOfOwnModel
<1>1. Init => VectorsOfOwnModel BY DEF Init, VectorsOfOwnModel, NoVector
<1>2. ASSUME VectorsOfOwnModel, EveryRowMoves PROVE VectorsOfOwnModel'
  <2> SUFFICES ASSUME NEW r \in Row
               PROVE  /\ vector'[r].model \in {ModelOf[r], None}
                      /\ status'[r] = "complete" => vector'[r].model = ModelOf[r]
    BY DEF VectorsOfOwnModel
  <2>1. CASE Kept(r)
    <3>1. status'[r] = "complete" => status[r] = "complete"
      BY <2>1 DEF Kept, StatusMoves, Waiting
    <3>2. QED BY <1>2, <2>1, <3>1 DEF Kept, VectorsOfOwnModel
  <2>2. CASE Taken(r) BY <2>2 DEF Taken
  <2>3. QED BY <1>2, <2>1, <2>2 DEF EveryRowMoves
<1>3. TypeOK /\ VectorsOfOwnModel /\ [Next]_vars => VectorsOfOwnModel'
  BY <1>2, StepMoves, NothingMoves DEF vars
<1>4. QED BY <1>1, <1>3, TypeCorrect, PTL DEF Spec

---------------------------------------------------------------------------
(* The cache.  An entry reaches it from a request, which embeds the hashed *)
(* content, or from a job that set it aside after writing it to a row; so  *)
(* the entries jobs have set aside are part of the invariant.  A row that  *)
(* has a vector is never without one again, deleted or not.                *)
Written(c) ==
  /\ c.of = "exact"
  /\ \E r \in Row : HashOf[r] = c.hash /\ ModelOf[r] = c.model /\ vector[r] # NoVector

CacheSafe ==
  /\ CacheHoldsWhatItHashes
  /\ \A j \in Slot : \A c \in job[j].put : Written(c)

LEMMA VectorsStay ==
  ASSUME TypeOK, EveryRowMoves, NEW r \in Row, vector[r] # NoVector
  PROVE  vector'[r] # NoVector
<1>1. ModelOf[r] \in Model /\ ModelOf[r] # None BY PipelineAssumption
<1>2. NoVector.model = None BY DEF NoVector
<1>3. QED BY <1>1, <1>2 DEF EveryRowMoves, Kept, Taken

LEMMA WrittenStays ==
  ASSUME TypeOK, EveryRowMoves, NEW c, Written(c)
  PROVE  Written(c)'
<1>1. PICK r \in Row : HashOf[r] = c.hash /\ ModelOf[r] = c.model /\ vector[r] # NoVector
  BY DEF Written
<1>2. vector'[r] # NoVector BY <1>1, VectorsStay
<1>3. QED BY <1>1, <1>2 DEF Written

LEMMA WritingExact ==
  ASSUME CacheHoldsWhatItHashes, NEW c, c.of = "exact", writeCache(c)
  PROVE  CacheHoldsWhatItHashes'
BY DEF CacheHoldsWhatItHashes, writeCache

LEMMA PutKept ==
  ASSUME TypeOK, CacheSafe, EveryRowMoves, NEW j \in Slot, NEW b, job' = [job EXCEPT ![j] = b],
         \A c \in b.put : Written(c)'
  PROVE  \A k \in Slot : \A c \in job'[k].put : Written(c)'
<1>1. \A k \in Slot : \A c \in job'[k].put : c \in b.put \/ c \in job[k].put BY DEF TypeOK
<1>2. \A k \in Slot : \A c \in job[k].put : Written(c) BY DEF CacheSafe
<1>3. QED BY <1>1, <1>2, WrittenStays

LEMMA PutSent ==
  ASSUME TypeOK, CacheSafe, EveryRowMoves, NEW j \in Slot, NEW k \in Slot, NEW b, NEW d,
         job' = [job EXCEPT ![k] = d, ![j] = b], b.put = {}, d.put = {}
  PROVE  \A i \in Slot : \A c \in job'[i].put : Written(c)'
<1>1. \A i \in Slot : \A c \in job'[i].put : c \in job[i].put BY DEF TypeOK
<1>2. \A i \in Slot : \A c \in job[i].put : Written(c) BY DEF CacheSafe
<1>3. QED BY <1>1, <1>2, WrittenStays

LEMMA PutOf ==
  /\ \A b, phase, todo, held, put : At(b, phase, todo, held, put).put = put
  /\ \A b : Done(b).put = {}
  /\ \A b : Again(b).put = {}
  /\ \A kind, rows, tries : Stored(kind, rows, tries).put = {}
  /\ \A kind, rows : NewJob(kind, rows).put = {}
  /\ FreeSlot.put = {}
BY DEF At, Done, Again, Stored, NewJob, FreeSlot

LEMMA ToCacheWritten ==
  ASSUME TypeOK, NEW r \in Row, NEW m, NEW of, NEW label,
         Writable(r, m) => Complete(r, m, of, label) \/ of # "exact",
         NEW c \in ToCache(r, m, of)
  PROVE  Written(c)'
<1>1. of = "exact" /\ ModelOf[r] = m /\ Complete(r, m, of, label)
      /\ c.hash = HashOf[r] /\ c.model = m /\ c.of = of
  BY DEF ToCache, Writable, Entry
<1>2. vector'[r].model = m BY <1>1 DEF Complete, TypeOK
<1>3. m # None BY <1>1, PipelineAssumption
<1>4. vector'[r] # NoVector BY <1>2, <1>3 DEF NoVector
<1>5. QED BY <1>1, <1>4 DEF Written

(* A handler's step changes the cache and the set-aside entries in one of  *)
(* four ways: neither; its job's entries dropped; one job sent; or the     *)
(* content just written set aside.                                         *)
LEMMA SetAside ==
  ASSUME TypeOK, CacheSafe, EveryRowMoves, NEW j \in Slot, NEW d, job' = [job EXCEPT ![j] = d],
         cache' = cache, \A c \in d.put : Written(c)'
  PROVE  CacheSafe'
<1>1. \A k \in Slot : \A c \in job'[k].put : Written(c)' BY PutKept
<1>2. CacheHoldsWhatItHashes' BY DEF CacheSafe, CacheHoldsWhatItHashes
<1>3. QED BY <1>1, <1>2 DEF CacheSafe, Written

LEMMA PutDropped ==
  ASSUME TypeOK, CacheSafe, EveryRowMoves, NEW j \in Slot, NEW d, job' = [job EXCEPT ![j] = d],
         cache' = cache, d.put = {}
  PROVE  CacheSafe'
BY SetAside

LEMMA JobSent ==
  ASSUME TypeOK, CacheSafe, EveryRowMoves, NEW j \in Slot, NEW k \in Slot, NEW c, NEW d,
         job' = [job EXCEPT ![k] = d, ![j] = c], cache' = cache, c.put = {}, d.put = {}
  PROVE  CacheSafe'
<1>1. \A i \in Slot : \A e \in job'[i].put : Written(e)' BY PutSent
<1>2. CacheHoldsWhatItHashes' BY DEF CacheSafe, CacheHoldsWhatItHashes
<1>3. QED BY <1>1, <1>2 DEF CacheSafe, Written

LEMMA RefusalPut ==
  ASSUME TypeOK, CacheSafe, EveryRowMoves, NEW j \in Slot, RowRefused(j), cache' = cache
  PROVE  CacheSafe'
<1> DEFINE d == IF Cardinality(job[j].items) = 1 THEN Done(job[j])
                ELSE IF job[j].tries >= 1 THEN At(job[j], "split", job[j].items, {}, {})
                ELSE Again(job[j])
<1>1. job' = [job EXCEPT ![j] = d] BY DEF RowRefused
<1>2. d.put = {} BY PutOf
<1> HIDE DEF d
<1>3. QED BY <1>1, <1>2, PutDropped

LEMMA StrategyPut ==
  ASSUME TypeOK, CacheSafe, EveryRowMoves, NEW j \in Slot, StrategyStep(j)
  PROVE  CacheSafe'
<1>1. CASE StrategyList(j)
  <2> DEFINE d == IF Dispatchable = {} THEN Done(job[j])
                  ELSE At(job[j], "claim", Dispatchable, {}, {})
  <2>1. job' = [job EXCEPT ![j] = d] /\ cache' = cache BY <1>1 DEF StrategyList
  <2>2. d.put = {} BY PutOf
  <2> HIDE DEF d
  <2>3. QED BY <2>1, <2>2, PutDropped
<1>2. ASSUME NEW rows \in SUBSET Row, StrategyClaim(j, rows) PROVE CacheSafe'
  <2> DEFINE d == At(job[j], "claim", job[j].todo \ rows, Claimable(rows), {})
  <2>1. job' = [job EXCEPT ![j] = d] /\ cache' = cache BY <1>2 DEF StrategyClaim
  <2>2. d.put = {} BY PutOf
  <2> HIDE DEF d
  <2>3. QED BY <2>1, <2>2, PutDropped
<1>3. ASSUME NEW k \in Slot, StrategySend(j, k) PROVE CacheSafe'
  <2> DEFINE c == At(job[j], "claim", job[j].todo, {}, {})
             d == NewJob("check", job[j].held)
  <2>1. job' = [job EXCEPT ![k] = d, ![j] = c] /\ cache' = cache BY <1>3 DEF StrategySend
  <2>2. c.put = {} /\ d.put = {} BY PutOf
  <2> HIDE DEF c, d
  <2>3. QED BY <2>1, <2>2, JobSent
<1>4. CASE StrategyEnd(j)
  <2> DEFINE d == Done(job[j])
  <2>1. job' = [job EXCEPT ![j] = d] /\ cache' = cache BY <1>4 DEF StrategyEnd
  <2>2. d.put = {} BY PutOf
  <2> HIDE DEF d
  <2>3. QED BY <2>1, <2>2, PutDropped
<1>5. QED BY <1>1, <1>2, <1>3, <1>4 DEF StrategyStep

LEMMA CheckPut ==
  ASSUME TypeOK, CacheSafe, EveryRowMoves, NEW j \in Slot, CheckStep(j)
  PROVE  CacheSafe'
<1>1. CASE CheckLoad(j)
  <2> DEFINE d == LET n == Stored("check", job[j].items \cap alive, job[j].tries)
                  IN  IF job[j].items \cap alive = {} THEN Done(n)
                      ELSE At(n, "lookup", job[j].items \cap alive, {}, {})
  <2>1. job' = [job EXCEPT ![j] = d] /\ cache' = cache BY <1>1 DEF CheckLoad
  <2>2. d.put = {} BY PutOf
  <2> HIDE DEF d
  <2>3. QED BY <2>1, <2>2, PutDropped
<1>2. ASSUME NEW r \in Row, CheckLookup(j, r) PROVE CacheSafe'
  <2> DEFINE d == At(job[j], "lookup", job[j].todo \ {r}, Misses(job[j], r), {})
  <2>1. job' = [job EXCEPT ![j] = d] /\ cache' = cache BY <1>2 DEF CheckLookup
  <2>2. d.put = {} BY PutOf
  <2> HIDE DEF d
  <2>3. QED BY <2>1, <2>2, PutDropped
<1>3. ASSUME NEW k \in Slot, NEW m \in Model, CheckForward(j, k, m) PROVE CacheSafe'
  <2> DEFINE c == At(job[j], "lookup", {}, job[j].held \ OfModel(job[j].held, m), {})
             d == NewJob("api", OfModel(job[j].held, m))
  <2>1. job' = [job EXCEPT ![k] = d, ![j] = c] /\ cache' = cache BY <1>3 DEF CheckForward
  <2>2. c.put = {} /\ d.put = {} BY PutOf
  <2> HIDE DEF c, d
  <2>3. QED BY <2>1, <2>2, JobSent
<1>4. CASE CheckEnd(j)
  <2> DEFINE d == Done(job[j])
  <2>1. job' = [job EXCEPT ![j] = d] /\ cache' = cache BY <1>4 DEF CheckEnd
  <2>2. d.put = {} BY PutOf
  <2> HIDE DEF d
  <2>3. QED BY <2>1, <2>2, PutDropped
<1>5. QED BY <1>1, <1>2, <1>3, <1>4 DEF CheckStep

LEMMA ApiPut ==
  ASSUME TypeOK, CacheSafe, EveryRowMoves, NEW j \in Slot, ApiStep(j)
  PROVE  CacheSafe'
<1>1. CASE ApiLoad(j)
  <2> DEFINE d == LET loaded == job[j].items \cap alive
                      n == Stored("api", loaded, job[j].tries)
                  IN  IF loaded = {} \/ ModelsOf(loaded) \cap cooling # {} THEN Done(n)
                      ELSE At(n, "image", loaded \cap Image, {}, {})
  <2>1. job' = [job EXCEPT ![j] = d] /\ cache' = cache BY <1>1 DEF ApiLoad
  <2>2. d.put = {} BY PutOf
  <2> HIDE DEF d
  <2>3. QED BY <2>1, <2>2, PutDropped
<1>2. CASE ApiNext(j)
  <2> DEFINE t == At(job[j], "text", job[j].items \ Image, job[j].held, {})
             f == At(job[j], "fallback", job[j].held, job[j].held, {})
             d == Done(job[j])
  <2>1. \/ job' = [job EXCEPT ![j] = t] \/ job' = [job EXCEPT ![j] = f]
        \/ job' = [job EXCEPT ![j] = d]
    BY <1>2 DEF ApiNext
  <2>2. t.put = {} /\ f.put = {} /\ d.put = {} /\ cache' = cache BY <1>2, PutOf DEF ApiNext
  <2> HIDE DEF t, f, d
  <2>3. QED BY <2>1, <2>2, PutDropped
<1>3. CASE ApiAnswered(j)
  <2> DEFINE d == At(job[j], IF job[j].phase = "text" THEN "writeText" ELSE "writeFallback",
                     job[j].todo, job[j].held, {})
  <2>1. job' = [job EXCEPT ![j] = d] /\ cache' = cache BY <1>3 DEF ApiAnswered
  <2>2. d.put = {} BY PutOf
  <2> HIDE DEF d
  <2>3. QED BY <2>1, <2>2, PutDropped
<1>4. CASE ApiRefused(j)
  BY <1>4, RefusalPut DEF ApiRefused
<1>5. ASSUME NEW r \in Row, NEW of \in Content, ApiImage(j, r, of) PROVE CacheSafe'
  <2> DEFINE d == At(job[j], "image", job[j].todo \ {r}, Fallback(job[j], r, of),
                     ToCache(r, CallModel(j), of))
  <2>1. job' = [job EXCEPT ![j] = d] /\ cache' = cache BY <1>5 DEF ApiImage
  <2>2. d.put = ToCache(r, CallModel(j), of) BY PutOf
  <2>3. Writable(r, CallModel(j)) => Complete(r, CallModel(j), of, "server") \/ of # "exact"
    BY <1>5 DEF ApiImage
  <2>4. \A c \in d.put : Written(c)' BY <2>2, <2>3, ToCacheWritten
  <2> HIDE DEF d
  <2>5. QED BY <2>1, <2>4, SetAside
<1>6. ASSUME NEW r \in Row, ApiWrite(j, r) PROVE CacheSafe'
  <2> DEFINE of == IF job[j].phase = "writeText" THEN "exact" ELSE "text"
             label == IF job[j].phase = "writeText" THEN "server" ELSE "text_fallback"
             d == At(job[j], job[j].phase, job[j].todo \ {r}, job[j].held,
                     ToCache(r, CallModel(j), of))
  <2>1. job' = [job EXCEPT ![j] = d] /\ cache' = cache BY <1>6 DEF ApiWrite
  <2>2. d.put = ToCache(r, CallModel(j), of) BY PutOf
  <2>3. Writable(r, CallModel(j)) => Complete(r, CallModel(j), of, label) BY <1>6 DEF ApiWrite
  <2> HIDE DEF of, label
  <2>4. \A c \in d.put : Written(c)' BY <2>2, <2>3, ToCacheWritten
  <2> HIDE DEF d
  <2>5. QED BY <2>1, <2>4, SetAside
<1>7. ASSUME NEW r \in Row, ApiMissing(j, r) PROVE CacheSafe'
  <2> DEFINE d == At(job[j], job[j].phase, job[j].todo \ {r}, job[j].held, {})
  <2>1. job' = [job EXCEPT ![j] = d] /\ cache' = cache BY <1>7 DEF ApiMissing
  <2>2. d.put = {} BY PutOf
  <2> HIDE DEF d
  <2>3. QED BY <2>1, <2>2, PutDropped
<1>8. CASE ApiCache(j)
  <2> DEFINE d == At(job[j], job[j].phase, job[j].todo, job[j].held, {})
  <2>1. PICK c \in job[j].put : writeCache(c) BY <1>8 DEF ApiCache
  <2>2. c.of = "exact" BY DEF CacheSafe, Written
  <2>3. CacheHoldsWhatItHashes' BY <2>1, <2>2, WritingExact DEF CacheSafe
  <2>4. job' = [job EXCEPT ![j] = d] BY <1>8 DEF ApiCache
  <2>5. d.put = {} BY PutOf
  <2> HIDE DEF d
  <2>6. \A k \in Slot : \A e \in job'[k].put : Written(e)' BY <2>4, <2>5, PutKept
  <2>7. QED BY <2>3, <2>6 DEF CacheSafe, Written
<1>9. ASSUME NEW k \in Slot, NEW rows \in SUBSET Row, ApiSplit(j, k, rows) PROVE CacheSafe'
  <2> DEFINE c == At(job[j], "split", job[j].todo \ rows, {}, {})
             d == NewJob("api", rows)
  <2>1. job' = [job EXCEPT ![k] = d, ![j] = c] /\ cache' = cache BY <1>9 DEF ApiSplit
  <2>2. c.put = {} /\ d.put = {} BY PutOf
  <2> HIDE DEF c, d
  <2>3. QED BY <2>1, <2>2, JobSent
<1>10. CASE ApiSplitEnd(j)
  <2> DEFINE d == Done(job[j])
  <2>1. job' = [job EXCEPT ![j] = d] /\ cache' = cache BY <1>10 DEF ApiSplitEnd
  <2>2. d.put = {} BY PutOf
  <2> HIDE DEF d
  <2>3. QED BY <2>1, <2>2, PutDropped
<1>11. QED
  BY <1>1, <1>2, <1>3, <1>4, <1>5, <1>6, <1>7, <1>8, <1>9, <1>10 DEF ApiStep

LEMMA DeliveryPut ==
  ASSUME TypeOK, CacheSafe, EveryRowMoves, NEW j \in Slot, Ack(j) \/ FaultStep(j)
  PROVE  CacheSafe'
<1>1. CASE Ack(j)
  <2> DEFINE d == FreeSlot
  <2>1. job' = [job EXCEPT ![j] = d] /\ cache' = cache BY <1>1 DEF Ack
  <2>2. d.put = {} BY PutOf
  <2> HIDE DEF d
  <2>3. QED BY <2>1, <2>2, PutDropped
<1>2. CASE ApiPushback(j)
  <2> DEFINE d == Done(job[j])
  <2>1. job' = [job EXCEPT ![j] = d] /\ cache' = cache BY <1>2 DEF ApiPushback
  <2>2. d.put = {} BY PutOf
  <2> HIDE DEF d
  <2>3. QED BY <2>1, <2>2, PutDropped
<1>3. CASE ApiWriteError(j)
  BY <1>3, RefusalPut DEF ApiWriteError
<1>4. CASE Crash(j)
  <2> DEFINE d == IF job[j].tries < MaxTries THEN Again(job[j]) ELSE FreeSlot
  <2>1. job' = [job EXCEPT ![j] = d] /\ cache' = cache BY <1>4 DEF Crash
  <2>2. d.put = {} BY PutOf
  <2> HIDE DEF d
  <2>3. QED BY <2>1, <2>2, PutDropped
<1>5. ASSUME NEW k \in Slot, Expire(j, k) PROVE CacheSafe'
  <2> DEFINE d == Again(job[j])
  <2>1. job' = [job EXCEPT ![k] = d] /\ cache' = cache BY <1>5 DEF Expire
  <2>2. d.put = {} BY PutOf
  <2> HIDE DEF d
  <2>3. QED BY <2>1, <2>2, PutDropped
<1>6. QED BY <1>1, <1>2, <1>3, <1>4, <1>5 DEF FaultStep

LEMMA CacheInvariant == Spec => []CacheSafe
<1>1. Init => CacheSafe
  BY PutOf DEF Init, CacheSafe, CacheHoldsWhatItHashes
<1>2. TypeOK /\ CacheSafe /\ [Next]_vars => CacheSafe'
  <2> SUFFICES ASSUME TypeOK, CacheSafe, [Next]_vars PROVE CacheSafe'
    OBVIOUS
  <2>0. EveryRowMoves BY StepMoves, NothingMoves DEF vars
  <2>1. ASSUME job' = job, CacheHoldsWhatItHashes' PROVE CacheSafe'
    <3>1. \A j \in Slot : \A c \in job'[j].put : Written(c)' BY <2>0, <2>1, WrittenStays DEF CacheSafe
    <3>2. QED BY <2>1, <3>1 DEF CacheSafe, Written
  <2>2. ASSUME cache' = cache PROVE CacheHoldsWhatItHashes'
    BY <2>2 DEF CacheSafe, CacheHoldsWhatItHashes
  <2>3. ASSUME NEW r \in Row, RequestStep(r) \/ Age(r) PROVE CacheSafe'
    <3>1. CASE SyncEmbed(r) \/ AfterCommitCache(r)
      <4>1. PICK m \in Model : writeCache(Entry(r, m, "exact")) /\ job' = job
        BY <3>1, PipelineAssumption DEF SyncEmbed, AfterCommitCache
      <4>2. Entry(r, m, "exact").of = "exact" BY DEF Entry
      <4>3. CacheHoldsWhatItHashes' BY <4>1, <4>2, WritingExact DEF CacheSafe
      <4>4. QED BY <2>1, <4>1, <4>3
    <3>2. CASE StubRow(r) \/ SyncRow(r) \/ AfterCommitWrite(r) \/ AfterCommitLost(r)
               \/ DeleteRow(r) \/ Age(r)
      BY <3>2, <2>1, <2>2 DEF StubRow, SyncRow, AfterCommitWrite, AfterCommitLost, DeleteRow, Age
    <3>3. QED BY <2>3, <3>1, <3>2 DEF RequestStep
  <2>4. CASE OperatorStep \/ SweepRecover \/ \E m \in Model : CooldownEnds(m) \/ SyncPushback(m)
    BY <2>4, <2>1, <2>2
       DEF OperatorStep, RetryFailed, RepairImageFallbacks, SweepRecover, CooldownEnds, SyncPushback
  <2>5. ASSUME NEW k \in Slot, SweepDiscover(k) PROVE CacheSafe'
    <3>1. job' = [job EXCEPT ![k] = NewJob("strategy", {})] /\ cache' = cache
      BY <2>5 DEF SweepDiscover
    <3>2. NewJob("strategy", {}).put = {} BY PutOf
    <3>3. QED BY <2>0, <3>1, <3>2, PutDropped
  <2>6. CASE \E j \in Slot : HandlerStep(j) \/ FaultStep(j)
    BY <2>0, <2>6, StrategyPut, CheckPut, ApiPut, DeliveryPut DEF HandlerStep
  <2>7. CASE UNCHANGED vars BY <2>7, <2>1, <2>2 DEF vars
  <2>8. QED BY <2>3, <2>4, <2>5, <2>6, <2>7 DEF Next
<1>3. QED BY <1>1, <1>2, TypeCorrect, PTL DEF Spec

(* No text ever stands in the cache for an image, and no re-cued bytes for *)
(* the hashed ones.                                                        *)
THEOREM CacheIsExact == Spec => []CacheHoldsWhatItHashes
<1>1. CacheSafe => CacheHoldsWhatItHashes BY DEF CacheSafe
<1>2. QED BY <1>1, CacheInvariant, PTL

(* What a handler is about to cache, some row of that content has taken: a *)
(* recipe deleted during the call leaves nothing of it in the cache.       *)
THEOREM CachedIsWritten == Spec => []CachedOnlyIfWritten
<1>1. CacheSafe => CachedOnlyIfWritten BY DEF CacheSafe, Written, CachedOnlyIfWritten
<1>2. QED BY <1>1, CacheInvariant, PTL
=============================================================================
