---------------------- MODULE EmbeddingPipelineProofs ----------------------
(* Theorems about EmbeddingPipeline, for every set of rows, models, hashes *)
(* and job slots.                                                          *)
EXTENDS EmbeddingPipeline, TLAPS

---------------------------------------------------------------------------
(* What the shared statements and the job constructors return.             *)

LEMMA StoredType ==
  ASSUME NEW kind \in Kind, NEW rows \in SUBSET Row, NEW tries \in 0..MaxTries
  PROVE  Stored(kind, rows, tries) \in JobRec
BY DEF Stored, JobRec, Phase

LEMMA NewJobType ==
  ASSUME NEW kind \in Kind, NEW rows \in SUBSET Row
  PROVE  NewJob(kind, rows) \in JobRec
BY PipelineAssumption, StoredType DEF NewJob

LEMMA AtType ==
  ASSUME NEW b \in JobRec, NEW phase \in Phase,
         NEW todo \in SUBSET Row, NEW held \in SUBSET Row,
         NEW put \in SUBSET CacheEntry
  PROVE  At(b, phase, todo, held, put) \in JobRec
BY DEF At, JobRec

LEMMA DoneType == ASSUME NEW b \in JobRec PROVE Done(b) \in JobRec
BY AtType DEF Done, Phase

LEMMA AgainType ==
  ASSUME NEW b \in JobRec, b.tries < MaxTries
  PROVE  Again(b) \in JobRec
<1>1. b.kind \in Kind /\ b.items \in SUBSET Row /\ b.tries \in 0..MaxTries BY DEF JobRec
<1>2. b.tries + 1 \in 0..MaxTries BY <1>1, PipelineAssumption
<1>3. QED BY <1>1, <1>2, StoredType DEF Again

LEMMA FreeSlotType == FreeSlot \in JobRec
BY NewJobType, AtType DEF FreeSlot, Phase, Kind

LEMMA SetStatusType ==
  ASSUME TypeOK, NEW rows \in SUBSET Row, NEW s \in Live, SetStatus(rows, s)
  PROVE  /\ status' \in [Row -> Live \cup {"absent", "deleted"}]
         /\ stale' \in [Row -> BOOLEAN]
BY DEF TypeOK, SetStatus

LEMMA CompleteType ==
  ASSUME TypeOK, NEW r \in Row, NEW m \in Model, NEW of \in Content,
         NEW label \in Label, Complete(r, m, of, label)
  PROVE  /\ status' \in [Row -> Live \cup {"absent", "deleted"}]
         /\ stale' \in [Row -> BOOLEAN]
         /\ vector' \in [Row -> Vector]
<1>1. SetStatus({r}, "complete") /\ "complete" \in Live BY DEF Complete, Live
<1>2. status' \in [Row -> Live \cup {"absent", "deleted"}] /\ stale' \in [Row -> BOOLEAN]
  BY <1>1, SetStatusType
<1>3. [model |-> m, of |-> of, label |-> label] \in Vector BY DEF Vector
<1>4. vector' \in [Row -> Vector] BY <1>3 DEF Complete, TypeOK
<1>5. QED BY <1>2, <1>4

LEMMA ReleaseType ==
  ASSUME TypeOK, NEW rows \in SUBSET Row, releaseToPending(rows)
  PROVE  /\ status' \in [Row -> Live \cup {"absent", "deleted"}]
         /\ stale' \in [Row -> BOOLEAN]
BY SetStatusType DEF releaseToPending, alive, Live

LEMMA FailedType ==
  ASSUME TypeOK, NEW rows \in SUBSET Row, markFailed(rows)
  PROVE  /\ status' \in [Row -> Live \cup {"absent", "deleted"}]
         /\ stale' \in [Row -> BOOLEAN]
BY SetStatusType DEF markFailed, alive, Live

LEMMA EntryType ==
  ASSUME NEW r \in Row, NEW m \in Model, NEW of \in Content
  PROVE  Entry(r, m, of) \in CacheEntry
BY PipelineAssumption DEF Entry, CacheEntry

LEMMA CacheType ==
  ASSUME TypeOK, NEW c \in CacheEntry, writeCache(c)
  PROVE  cache' \subseteq CacheEntry
BY DEF writeCache, TypeOK

LEMMA EntryForType ==
  ASSUME TypeOK, NEW r \in Row, NEW c \in EntryFor(r)
  PROVE  c \in cache /\ c.model \in Model /\ c.of \in Content /\ c.model = ModelOf[r]
BY DEF TypeOK, EntryFor, CacheEntry

LEMMA JobType == ASSUME TypeOK, NEW j \in Slot
  PROVE /\ job[j] \in JobRec
        /\ job[j].kind \in Kind /\ job[j].phase \in Phase /\ job[j].items \in SUBSET Row
        /\ job[j].todo \in SUBSET Row /\ job[j].held \in SUBSET Row
        /\ job[j].put \in SUBSET CacheEntry /\ job[j].tries \in 0..MaxTries
BY DEF TypeOK, JobRec

(* The catch branch of the API tier.                                       *)
LEMMA RowRefusedType ==
  ASSUME TypeOK, NEW j \in Slot, RowRefused(j)
  PROVE  /\ status' \in [Row -> Live \cup {"absent", "deleted"}]
         /\ stale' \in [Row -> BOOLEAN]
         /\ job' \in [Slot -> JobRec]
<1> DEFINE b == job[j]
<1>1. b \in JobRec /\ b.items \in SUBSET Row /\ b.tries \in 0..MaxTries BY JobType
<1>2. CASE Cardinality(b.items) = 1
  <2>1. markFailed(b.items) /\ job' = [job EXCEPT ![j] = Done(b)] BY <1>2 DEF RowRefused
  <2>2. QED BY <1>1, <2>1, FailedType, DoneType DEF TypeOK
<1>3. CASE Cardinality(b.items) # 1
  <2>1. UNCHANGED <<status, stale>> BY <1>3 DEF RowRefused
  <2>2. CASE b.tries >= 1
    <3>1. job' = [job EXCEPT ![j] = At(b, "split", b.items, {}, {})]
      BY <1>3, <2>2 DEF RowRefused
    <3>2. At(b, "split", b.items, {}, {}) \in JobRec BY <1>1, AtType DEF Phase
    <3>3. QED BY <2>1, <3>1, <3>2 DEF TypeOK
  <2>3. CASE ~(b.tries >= 1)
    <3>1. job' = [job EXCEPT ![j] = Again(b)] BY <1>3, <2>3 DEF RowRefused
    <3>2. b.tries < MaxTries BY <1>1, <2>3, PipelineAssumption
    <3>3. Again(b) \in JobRec BY <1>1, <3>2, AgainType
    <3>4. QED BY <2>1, <3>1, <3>3 DEF TypeOK
  <2>4. QED BY <2>2, <2>3
<1>4. QED BY <1>2, <1>3

---------------------------------------------------------------------------
(* Every step keeps the types: requests, operators and time first, then    *)
(* the handlers tier by tier.                                              *)

LEMMA RequestType ==
  ASSUME TypeOK, NEW r \in Row, RequestStep(r) \/ Age(r)
  PROVE  TypeOK'
<1>1. CASE StubRow(r)
  BY <1>1 DEF StubRow, TypeOK, Live
<1>2. CASE SyncEmbed(r)
  <2>1. Entry(r, ReadModel, "exact") \in CacheEntry
    BY PipelineAssumption, EntryType DEF Content
  <2>2. cache' \subseteq CacheEntry BY <1>2, <2>1, CacheType DEF SyncEmbed
  <2>3. QED BY <1>2, <2>2 DEF SyncEmbed, TypeOK, rowVars
<1>3. CASE SyncRow(r)
  <2>1. PICK c \in EntryFor(r) : Complete(r, c.model, c.of, "server") BY <1>3 DEF SyncRow
  <2>2. c.model \in Model /\ c.of \in Content BY <2>1, EntryForType
  <2>3. QED BY <1>3, <2>1, <2>2, CompleteType DEF SyncRow, TypeOK, Label
<1>4. CASE AfterCommitWrite(r)
  <2>1. after' \in [Row -> {"none", "due", "put"}]
    BY <1>4 DEF AfterCommitWrite, TypeOK
  <2>2. /\ status' \in [Row -> Live \cup {"absent", "deleted"}]
        /\ stale' \in [Row -> BOOLEAN] /\ vector' \in [Row -> Vector]
    <3>1. CASE Complete(r, ModelOf[r], "exact", "server")
      BY <3>1, CompleteType, PipelineAssumption DEF Content, Label
    <3>2. CASE \E c \in EntryFor(r) : Complete(r, c.model, c.of, "server")
      <4>1. PICK c \in EntryFor(r) : Complete(r, c.model, c.of, "server") BY <3>2
      <4>2. c.model \in Model /\ c.of \in Content BY EntryForType
      <4>3. QED BY <4>1, <4>2, CompleteType DEF Label
    <3>3. CASE UNCHANGED <<status, stale, vector>>
      BY <3>3 DEF TypeOK
    <3>4. QED BY <1>4, <3>1, <3>2, <3>3 DEF AfterCommitWrite
  <2>3. QED BY <1>4, <2>1, <2>2 DEF AfterCommitWrite, TypeOK
<1>5. CASE AfterCommitCache(r)
  <2>1. Entry(r, ModelOf[r], "exact") \in CacheEntry
    BY PipelineAssumption, EntryType DEF Content
  <2>2. cache' \subseteq CacheEntry BY <1>5, <2>1, CacheType DEF AfterCommitCache
  <2>3. QED BY <1>5, <2>2 DEF AfterCommitCache, TypeOK, rowVars
<1>6. CASE AfterCommitLost(r)
  BY <1>6 DEF AfterCommitLost, TypeOK, rowVars
<1>7. CASE DeleteRow(r)
  BY <1>7 DEF DeleteRow, TypeOK
<1>8. CASE Age(r)
  BY <1>8 DEF Age, TypeOK
<1>9. QED BY <1>1, <1>2, <1>3, <1>4, <1>5, <1>6, <1>7, <1>8 DEF RequestStep

LEMMA FaultType == ASSUME TypeOK, Fault PROVE faults' \in 0..MaxFaults
BY PipelineAssumption DEF TypeOK, Fault

LEMMA OperatorType ==
  ASSUME TypeOK, OperatorStep \/ SweepRecover
  PROVE  TypeOK'
<1>1. ASSUME NEW rows \in SUBSET Row, RetryFailed(rows) PROVE TypeOK'
  <2>1. /\ status' \in [Row -> Live \cup {"absent", "deleted"}]
        /\ stale' \in [Row -> BOOLEAN]
    BY <1>1, SetStatusType DEF RetryFailed, Live
  <2>2. retries' \in [Row -> 0..MaxRetries]
    BY <1>1, PipelineAssumption DEF RetryFailed, TypeOK
  <2>3. QED BY <1>1, <2>1, <2>2 DEF RetryFailed, TypeOK
<1>2. CASE RepairImageFallbacks
  <2>1. ASSUME NEW r \in Restorable
        PROVE  [model |-> ModelOf[r], of |-> (CHOOSE c \in EntryFor(r) : TRUE).of,
                label |-> "server"] \in Vector
    <3>1. r \in Row /\ EntryFor(r) # {} BY <2>1 DEF Restorable, alive
    <3>2. (CHOOSE c \in EntryFor(r) : TRUE) \in EntryFor(r) BY <3>1
    <3>3. (CHOOSE c \in EntryFor(r) : TRUE).of \in Content BY <3>1, <3>2, EntryForType
    <3>4. QED BY <3>1, <3>3, PipelineAssumption DEF Vector, Label
  <2>2. vector' \in [Row -> Vector]
    BY <1>2, <2>1 DEF RepairImageFallbacks, TypeOK
  <2>3. QED BY <1>2, <2>2 DEF RepairImageFallbacks, TypeOK
<1>3. CASE SweepRecover
  <2>1. status' \in [Row -> Live \cup {"absent", "deleted"}]
    BY <1>3 DEF SweepRecover, TypeOK, Live
  <2>2. \A r \in Row : ~AtLimit(r) => retries[r] + 1 \in 0..MaxRetries
    BY PipelineAssumption DEF TypeOK, AtLimit
  <2>3. retries' \in [Row -> 0..MaxRetries]
    BY <1>3, <2>2 DEF SweepRecover, TypeOK, Stuck
  <2>4. QED BY <1>3, <2>1, <2>3 DEF SweepRecover, TypeOK
<1>4. QED BY <1>1, <1>2, <1>3 DEF OperatorStep

LEMMA SweepType ==
  ASSUME TypeOK,
         \/ \E m \in Model : CooldownEnds(m) \/ SyncPushback(m)
         \/ \E k \in Slot : SweepDiscover(k)
  PROVE  TypeOK'
<1>1. ASSUME NEW m \in Model, CooldownEnds(m) PROVE TypeOK'
  BY <1>1 DEF CooldownEnds, TypeOK, rowVars
<1>2. ASSUME NEW m \in Model, SyncPushback(m) PROVE TypeOK'
  BY <1>2, FaultType DEF SyncPushback, TypeOK, rowVars
<1>3. ASSUME NEW k \in Slot, SweepDiscover(k) PROVE TypeOK'
  <2>1. NewJob("strategy", {}) \in JobRec BY NewJobType DEF Kind
  <2>2. QED BY <1>3, <2>1 DEF SweepDiscover, TypeOK, rowVars
<1>4. QED BY <1>1, <1>2, <1>3

(* A handler's step that only moves its own job along.                     *)
LEMMA OwnJobType ==
  ASSUME TypeOK, NEW j \in Slot, NEW b \in JobRec, job' = [job EXCEPT ![j] = b]
  PROVE  job' \in [Slot -> JobRec]
BY DEF TypeOK

(* A step that sends one job and moves its own along.                      *)
LEMMA SendType ==
  ASSUME TypeOK, NEW j \in Slot, NEW k \in Slot, NEW b \in JobRec, NEW c \in JobRec,
         job' = [job EXCEPT ![k] = c, ![j] = b]
  PROVE  job' \in [Slot -> JobRec]
BY DEF TypeOK

LEMMA StrategyType ==
  ASSUME TypeOK, NEW j \in Slot, StrategyStep(j)
  PROVE  TypeOK'
<1> DEFINE b == job[j]
<1>1. b \in JobRec /\ b.todo \in SUBSET Row /\ b.held \in SUBSET Row BY JobType
<1>2. CASE StrategyList(j)
  <2>1. At(b, "claim", Dispatchable, {}, {}) \in JobRec
    BY <1>1, AtType DEF Phase, Dispatchable
  <2>2. job' \in [Slot -> JobRec]
    BY <1>1, <1>2, <2>1, DoneType, OwnJobType DEF StrategyList
  <2>3. QED BY <1>2, <2>2 DEF StrategyList, TypeOK, rowVars
<1>3. ASSUME NEW rows \in SUBSET Row, StrategyClaim(j, rows) PROVE TypeOK'
  <2>1. Claimable(rows) \in SUBSET Row BY DEF Claimable
  <2>2. At(b, "claim", b.todo \ rows, Claimable(rows), {}) \in JobRec
    BY <1>1, <2>1, AtType DEF Phase
  <2>3. job' \in [Slot -> JobRec] BY <1>3, <2>2, OwnJobType DEF StrategyClaim
  <2>4. /\ status' \in [Row -> Live \cup {"absent", "deleted"}]
        /\ stale' \in [Row -> BOOLEAN]
    BY <1>3, <2>1, SetStatusType DEF StrategyClaim, Live
  <2>5. QED BY <1>3, <2>3, <2>4 DEF StrategyClaim, TypeOK
<1>4. ASSUME NEW k \in Slot, StrategySend(j, k) PROVE TypeOK'
  <2>1. NewJob("check", b.held) \in JobRec BY <1>1, NewJobType DEF Kind
  <2>2. At(b, "claim", b.todo, {}, {}) \in JobRec BY <1>1, AtType DEF Phase
  <2>3. job' \in [Slot -> JobRec] BY <1>4, <2>1, <2>2, SendType DEF StrategySend
  <2>4. QED BY <1>4, <2>3 DEF StrategySend, TypeOK, rowVars
<1>5. CASE StrategyEnd(j)
  BY <1>1, <1>5, DoneType, OwnJobType DEF StrategyEnd, TypeOK, rowVars
<1>6. QED BY <1>2, <1>3, <1>4, <1>5 DEF StrategyStep

LEMMA CheckType ==
  ASSUME TypeOK, NEW j \in Slot, CheckStep(j)
  PROVE  TypeOK'
<1> DEFINE b == job[j]
<1>1. /\ b \in JobRec /\ b.items \in SUBSET Row /\ b.todo \in SUBSET Row
      /\ b.held \in SUBSET Row /\ b.tries \in 0..MaxTries
  BY JobType
<1>2. CASE CheckLoad(j)
  <2> DEFINE loaded == b.items \cap alive
             c == Stored("check", loaded, b.tries)
  <2>1. c \in JobRec /\ loaded \in SUBSET Row BY <1>1, StoredType DEF Kind
  <2>2. Done(c) \in JobRec /\ At(c, "lookup", loaded, {}, {}) \in JobRec
    BY <2>1, DoneType, AtType DEF Phase
  <2>3. job' = [job EXCEPT ![j] = IF loaded = {} THEN Done(c)
                                  ELSE At(c, "lookup", loaded, {}, {})]
    BY <1>2 DEF CheckLoad
  <2>4. job' \in [Slot -> JobRec] BY <2>2, <2>3, OwnJobType
  <2>5. SetStatus({r \in loaded : status[r] = "pending"}, "processing")
    BY <1>2 DEF CheckLoad
  <2>6. /\ status' \in [Row -> Live \cup {"absent", "deleted"}]
        /\ stale' \in [Row -> BOOLEAN]
    BY <2>1, <2>5, SetStatusType DEF Live
  <2>7. QED BY <1>2, <2>4, <2>6 DEF CheckLoad, TypeOK
<1>3. ASSUME NEW r \in Row, CheckLookup(j, r) PROVE TypeOK'
  <2>1. Misses(b, r) \in SUBSET Row BY <1>1 DEF Misses
  <2>2. At(b, "lookup", b.todo \ {r}, Misses(b, r), {}) \in JobRec
    BY <1>1, <2>1, AtType DEF Phase
  <2>3. job' \in [Slot -> JobRec] BY <1>3, <2>2, OwnJobType DEF CheckLookup
  <2>4. /\ status' \in [Row -> Live \cup {"absent", "deleted"}]
        /\ stale' \in [Row -> BOOLEAN] /\ vector' \in [Row -> Vector]
    <3>1. CASE \E c \in EntryFor(r) : Complete(r, c.model, c.of, vector[r].label)
      <4>1. PICK c \in EntryFor(r) : Complete(r, c.model, c.of, vector[r].label) BY <3>1
      <4>2. c.model \in Model /\ c.of \in Content BY EntryForType
      <4>3. vector[r].label \in Label BY DEF TypeOK, Vector
      <4>4. QED BY <4>1, <4>2, <4>3, CompleteType
    <3>2. CASE UNCHANGED <<status, stale, vector>> BY <3>2 DEF TypeOK
    <3>3. QED BY <1>3, <3>1, <3>2 DEF CheckLookup
  <2>5. QED BY <1>3, <2>3, <2>4 DEF CheckLookup, TypeOK
<1>4. ASSUME NEW k \in Slot, NEW m \in Model, CheckForward(j, k, m) PROVE TypeOK'
  <2>1. OfModel(b.held, m) \in SUBSET Row BY <1>1 DEF OfModel
  <2>2. NewJob("api", OfModel(b.held, m)) \in JobRec BY <2>1, NewJobType DEF Kind
  <2>3. At(b, "lookup", {}, b.held \ OfModel(b.held, m), {}) \in JobRec
    BY <1>1, AtType DEF Phase
  <2>4. job' \in [Slot -> JobRec] BY <1>4, <2>2, <2>3, SendType DEF CheckForward
  <2>5. QED BY <1>4, <2>4 DEF CheckForward, TypeOK, rowVars
<1>5. CASE CheckEnd(j)
  BY <1>1, <1>5, DoneType, OwnJobType DEF CheckEnd, TypeOK, rowVars
<1>6. QED BY <1>2, <1>3, <1>4, <1>5 DEF CheckStep

LEMMA ToCacheType ==
  ASSUME NEW r \in Row, NEW m, NEW of \in Content
  PROVE  ToCache(r, m, of) \in SUBSET CacheEntry
BY EntryType, PipelineAssumption DEF ToCache, Writable

LEMMA ApiType ==
  ASSUME TypeOK, NEW j \in Slot, ApiStep(j)
  PROVE  TypeOK'
<1> DEFINE b == job[j]
<1>1. /\ b \in JobRec /\ b.items \in SUBSET Row /\ b.todo \in SUBSET Row /\ b.phase \in Phase
      /\ b.held \in SUBSET Row /\ b.put \in SUBSET CacheEntry /\ b.tries \in 0..MaxTries
  BY JobType
<1>2. CASE ApiLoad(j)
  <2> DEFINE loaded == b.items \cap alive
             cold == ModelsOf(loaded) \cap cooling # {}
             c == Stored("api", loaded, b.tries)
  <2>1. c \in JobRec /\ loaded \in SUBSET Row BY <1>1, StoredType DEF Kind
  <2>2. Done(c) \in JobRec /\ At(c, "image", loaded \cap Image, {}, {}) \in JobRec
    BY <2>1, DoneType, AtType DEF Phase
  <2>3. job' = [job EXCEPT ![j] = IF loaded = {} \/ cold THEN Done(c)
                                  ELSE At(c, "image", loaded \cap Image, {}, {})]
    BY <1>2 DEF ApiLoad
  <2>4. job' \in [Slot -> JobRec] BY <2>2, <2>3, OwnJobType
  <2>5. releaseToPending(loaded) \/ UNCHANGED <<status, stale>> BY <1>2 DEF ApiLoad
  <2>6. /\ status' \in [Row -> Live \cup {"absent", "deleted"}]
        /\ stale' \in [Row -> BOOLEAN]
    <3>1. CASE releaseToPending(loaded) BY <2>1, <3>1, ReleaseType
    <3>2. CASE UNCHANGED <<status, stale>> BY <3>2 DEF TypeOK
    <3>3. QED BY <2>5, <3>1, <3>2
  <2>7. QED BY <1>2, <2>4, <2>6 DEF ApiLoad, TypeOK
<1>3. ASSUME NEW r \in Row, NEW of \in Content, ApiImage(j, r, of) PROVE TypeOK'
  <2>1. Fallback(b, r, of) \in SUBSET Row BY <1>1 DEF Fallback
  <2>2. At(b, "image", b.todo \ {r}, Fallback(b, r, of), ToCache(r, CallModel(j), of)) \in JobRec
    BY <1>1, <2>1, ToCacheType, AtType DEF Phase
  <2>3. job' \in [Slot -> JobRec] BY <1>3, <2>2, OwnJobType DEF ApiImage
  <2>4. /\ status' \in [Row -> Live \cup {"absent", "deleted"}]
        /\ stale' \in [Row -> BOOLEAN] /\ vector' \in [Row -> Vector]
    <3>1. CASE of # "text" /\ Writable(r, CallModel(j))
      <4>1. CallModel(j) \in Model BY <3>1, PipelineAssumption DEF Writable
      <4>2. Complete(r, CallModel(j), of, "server") BY <1>3, <3>1 DEF ApiImage
      <4>3. QED BY <4>1, <4>2, CompleteType DEF Label
    <3>2. CASE ~(of # "text" /\ Writable(r, CallModel(j)))
      BY <1>3, <3>2 DEF ApiImage, TypeOK
    <3>3. QED BY <3>1, <3>2
  <2>5. QED BY <1>3, <2>3, <2>4 DEF ApiImage, TypeOK
<1>4. CASE ApiNext(j)
  <2>1. /\ At(b, "text", b.items \ Image, b.held, {}) \in JobRec
        /\ At(b, "fallback", b.held, b.held, {}) \in JobRec
        /\ Done(b) \in JobRec
    BY <1>1, AtType, DoneType DEF Phase
  <2>2. job' \in [Slot -> JobRec] BY <1>4, <2>1, OwnJobType DEF ApiNext
  <2>3. QED BY <1>4, <2>2 DEF ApiNext, TypeOK, rowVars
<1>5. CASE ApiAnswered(j)
  <2>1. /\ At(b, "writeText", b.todo, b.held, {}) \in JobRec
        /\ At(b, "writeFallback", b.todo, b.held, {}) \in JobRec
    BY <1>1, AtType DEF Phase
  <2>2. job' \in [Slot -> JobRec] BY <1>5, <2>1, OwnJobType DEF ApiAnswered
  <2>3. QED BY <1>5, <2>2 DEF ApiAnswered, TypeOK, rowVars
<1>6. CASE ApiRefused(j)
  BY <1>6, RowRefusedType DEF ApiRefused, TypeOK
<1>7. ASSUME NEW r \in Row, ApiWrite(j, r) PROVE TypeOK'
  <2> DEFINE m == CallModel(j)
             of == IF b.phase = "writeText" THEN "exact" ELSE "text"
             label == IF b.phase = "writeText" THEN "server" ELSE "text_fallback"
  <2>1. of \in Content /\ label \in Label BY DEF Content, Label
  <2>2. At(b, b.phase, b.todo \ {r}, b.held, ToCache(r, m, of)) \in JobRec
    BY <1>1, <2>1, ToCacheType, AtType
  <2>3. job' = [job EXCEPT ![j] = At(b, b.phase, b.todo \ {r}, b.held, ToCache(r, m, of))]
    BY <1>7 DEF ApiWrite
  <2>4. job' \in [Slot -> JobRec] BY <2>2, <2>3, OwnJobType
  <2>5. /\ status' \in [Row -> Live \cup {"absent", "deleted"}]
        /\ stale' \in [Row -> BOOLEAN] /\ vector' \in [Row -> Vector]
    <3>1. CASE Writable(r, m)
      <4>1. m \in Model BY <3>1, PipelineAssumption DEF Writable
      <4>2. Complete(r, m, of, label) BY <1>7, <3>1 DEF ApiWrite
      <4>3. QED BY <2>1, <4>1, <4>2, CompleteType
    <3>2. CASE ~Writable(r, m) BY <1>7, <3>2 DEF ApiWrite, TypeOK
    <3>3. QED BY <3>1, <3>2
  <2>6. QED BY <1>7, <2>4, <2>5 DEF ApiWrite, TypeOK
<1>8. ASSUME NEW r \in Row, ApiMissing(j, r) PROVE TypeOK'
  <2>1. At(b, b.phase, b.todo \ {r}, b.held, {}) \in JobRec BY <1>1, AtType
  <2>2. job' \in [Slot -> JobRec] BY <1>8, <2>1, OwnJobType DEF ApiMissing
  <2>3. /\ status' \in [Row -> Live \cup {"absent", "deleted"}]
        /\ stale' \in [Row -> BOOLEAN]
    BY <1>8, FailedType DEF ApiMissing
  <2>4. QED BY <1>8, <2>2, <2>3 DEF ApiMissing, TypeOK
<1>9. CASE ApiCache(j)
  <2>1. PICK c \in b.put : writeCache(c) BY <1>9 DEF ApiCache
  <2>2. cache' \subseteq CacheEntry BY <1>1, <2>1, CacheType
  <2>3. At(b, b.phase, b.todo, b.held, {}) \in JobRec BY <1>1, AtType
  <2>4. job' \in [Slot -> JobRec] BY <1>9, <2>3, OwnJobType DEF ApiCache
  <2>5. QED BY <1>9, <2>2, <2>4 DEF ApiCache, TypeOK, rowVars
<1>10. ASSUME NEW k \in Slot, NEW rows \in SUBSET Row, ApiSplit(j, k, rows) PROVE TypeOK'
  <2>1. NewJob("api", rows) \in JobRec BY NewJobType DEF Kind
  <2>2. At(b, "split", b.todo \ rows, {}, {}) \in JobRec BY <1>1, AtType DEF Phase
  <2>3. job' \in [Slot -> JobRec] BY <1>10, <2>1, <2>2, SendType DEF ApiSplit
  <2>4. QED BY <1>10, <2>3 DEF ApiSplit, TypeOK, rowVars
<1>11. CASE ApiSplitEnd(j)
  BY <1>1, <1>11, DoneType, OwnJobType DEF ApiSplitEnd, TypeOK, rowVars
<1>12. QED
  BY <1>2, <1>3, <1>4, <1>5, <1>6, <1>7, <1>8, <1>9, <1>10, <1>11 DEF ApiStep

LEMMA DeliveryType ==
  ASSUME TypeOK, NEW j \in Slot, Ack(j) \/ FaultStep(j)
  PROVE  TypeOK'
<1> DEFINE b == job[j]
<1>1. b \in JobRec /\ b.items \in SUBSET Row /\ b.tries \in 0..MaxTries BY JobType
<1>2. CASE Ack(j)
  BY <1>2, FreeSlotType, OwnJobType DEF Ack, TypeOK, rowVars
<1>3. CASE ApiPushback(j)
  <2>1. cooling' \subseteq Model
    BY <1>1, <1>3, PipelineAssumption DEF ApiPushback, ModelsOf, TypeOK
  <2>2. job' \in [Slot -> JobRec]
    BY <1>1, <1>3, DoneType, OwnJobType DEF ApiPushback
  <2>3. /\ status' \in [Row -> Live \cup {"absent", "deleted"}]
        /\ stale' \in [Row -> BOOLEAN]
    BY <1>1, <1>3, ReleaseType DEF ApiPushback
  <2>4. faults' \in 0..MaxFaults BY <1>3, FaultType DEF ApiPushback
  <2>5. QED BY <1>3, <2>1, <2>2, <2>3, <2>4 DEF ApiPushback, TypeOK
<1>4. CASE ApiWriteError(j)
  BY <1>4, RowRefusedType, FaultType DEF ApiWriteError, TypeOK
<1>5. CASE Crash(j)
  <2>1. b.tries < MaxTries => Again(b) \in JobRec BY <1>1, AgainType
  <2>2. job' \in [Slot -> JobRec] BY <1>5, <2>1, FreeSlotType, OwnJobType DEF Crash
  <2>3. QED BY <1>5, <2>2, FaultType DEF Crash, TypeOK, rowVars
<1>6. ASSUME NEW k \in Slot, Expire(j, k) PROVE TypeOK'
  <2>1. Again(b) \in JobRec BY <1>1, <1>6, AgainType DEF Expire
  <2>2. job' \in [Slot -> JobRec] BY <1>6, <2>1, OwnJobType DEF Expire
  <2>3. QED BY <1>6, <2>2, FaultType DEF Expire, TypeOK, rowVars
<1>7. QED BY <1>2, <1>3, <1>4, <1>5, <1>6 DEF FaultStep

(* Every variable keeps its type, whatever the deployment's rows, models,  *)
(* batch size, retry limits and number of jobs.                            *)
THEOREM TypeCorrect == Spec => []TypeOK
<1>1. Init => TypeOK
  BY PipelineAssumption, FreeSlotType
     DEF Init, TypeOK, NoVector, Vector, Content, Label
<1>2. TypeOK /\ [Next]_vars => TypeOK'
  <2> SUFFICES ASSUME TypeOK, [Next]_vars PROVE TypeOK'
    OBVIOUS
  <2>1. CASE \E r \in Row : RequestStep(r) \/ Age(r) BY <2>1, RequestType
  <2>2. CASE OperatorStep \/ SweepRecover BY <2>2, OperatorType
  <2>3. CASE \/ \E m \in Model : CooldownEnds(m) \/ SyncPushback(m)
             \/ \E k \in Slot : SweepDiscover(k)
    BY <2>3, SweepType
  <2>4. CASE \E j \in Slot : HandlerStep(j) \/ FaultStep(j)
    BY <2>4, StrategyType, CheckType, ApiType, DeliveryType DEF HandlerStep
  <2>5. CASE UNCHANGED vars BY <2>5 DEF vars, TypeOK
  <2>6. QED BY <2>1, <2>2, <2>3, <2>4, <2>5 DEF Next
<1>3. QED BY <1>1, <1>2, PTL DEF Spec

---------------------------------------------------------------------------
(* One job per row.  In calm, claiming before sending and releasing only   *)
(* what the job itself held give every row to one job at most, whatever    *)
(* number of strategy-checks, batches and models are under way at once.    *)

(* The two properties support each other: a claim takes unclaimed rows, in *)
(* nobody's hands by the second; a release puts back rows of one job, in   *)
(* nobody else's hands by the first.                                       *)
Dispatched ==
  /\ \A j, k \in Slot : j # k => Owned(j) \cap Owned(k) = {}
  /\ \A j \in Slot : Owned(j) \cap Unclaimed = {}

---------------------------------------------------------------------------
(* The three shapes of a step.                                             *)

(* Jobs stay as they are and no row becomes unclaimed.                     *)
LEMMA RowsMove ==
  ASSUME Dispatched, job' = job, Unclaimed' \subseteq Unclaimed
  PROVE  Dispatched'
BY DEF Dispatched, Owned, InHand

(* One job moves along: it may take rows that were unclaimed and no longer *)
(* are, and rows that become unclaimed are rows it had and has no more.    *)
LEMMA JobMoves ==
  ASSUME TypeOK, Dispatched, NEW j \in Slot, NEW b, job' = [job EXCEPT ![j] = b],
         InHand(b) \subseteq Owned(j) \cup Unclaimed,
         InHand(b) \cap Unclaimed' = {},
         Unclaimed' \subseteq Unclaimed \cup Owned(j)
  PROVE  Dispatched'
<1>1. Owned(j)' = InHand(b) BY DEF TypeOK, Owned, InHand
<1>2. \A k \in Slot \ {j} : Owned(k)' = Owned(k) BY DEF TypeOK, Owned, InHand
<1>3. \A k \in Slot \ {j} : Owned(k) \cap (Owned(j) \cup Unclaimed) = {} BY DEF Dispatched
<1>4. \A k, l \in Slot : k # l => (Owned(k) \cap Owned(l))' = {}
  <2> SUFFICES ASSUME NEW k \in Slot, NEW l \in Slot, k # l
               PROVE  Owned(k)' \cap Owned(l)' = {}
    OBVIOUS
  <2>1. CASE k = j BY <2>1, <1>1, <1>2, <1>3
  <2>2. CASE l = j BY <2>2, <1>1, <1>2, <1>3
  <2>3. CASE k # j /\ l # j BY <2>3, <1>2 DEF Dispatched
  <2>4. QED BY <2>1, <2>2, <2>3
<1>5. \A k \in Slot : (Owned(k) \cap Unclaimed)' = {}
  <2> SUFFICES ASSUME NEW k \in Slot PROVE Owned(k)' \cap Unclaimed' = {}
    OBVIOUS
  <2>1. CASE k = j BY <2>1, <1>1
  <2>2. CASE k # j BY <2>2, <1>2, <1>3
  <2>3. QED BY <2>1, <2>2
<1>6. QED BY <1>4, <1>5 DEF Dispatched

(* One job moves along, and takes and releases nothing.                    *)
LEMMA JobKeeps ==
  ASSUME TypeOK, Dispatched, NEW j \in Slot, NEW b, job' = [job EXCEPT ![j] = b],
         InHand(b) \subseteq Owned(j), Unclaimed' \subseteq Unclaimed
  PROVE  Dispatched'
<1>1. Owned(j) \cap Unclaimed = {} BY DEF Dispatched
<1>2. InHand(b) \cap Unclaimed' = {} BY <1>1
<1>3. QED BY <1>2, JobMoves

(* One job hands rows to a new one.                                        *)
LEMMA JobSends ==
  ASSUME TypeOK, Dispatched, NEW j \in Slot, NEW k \in Slot, IsFree(k), ~IsFree(j),
         NEW b, NEW c, job' = [job EXCEPT ![k] = c, ![j] = b],
         InHand(b) \subseteq Owned(j), InHand(c) \subseteq Owned(j),
         InHand(b) \cap InHand(c) = {}, status' = status
  PROVE  Dispatched'
<1>1. j # k BY DEF IsFree
<1>2. Owned(j)' = InHand(b) /\ Owned(k)' = InHand(c) BY <1>1 DEF TypeOK, Owned, InHand
<1>3. \A l \in Slot \ {j, k} : Owned(l)' = Owned(l) BY DEF TypeOK, Owned, InHand
<1>4. Unclaimed' = Unclaimed BY DEF Unclaimed
<1>5. \A l, i \in Slot : l # i => (Owned(l) \cap Owned(i))' = {}
  <2> SUFFICES ASSUME NEW l \in Slot, NEW i \in Slot, l # i
               PROVE  Owned(l)' \cap Owned(i)' = {}
    OBVIOUS
  <2>1. CASE l \in {j, k} /\ i \in {j, k} BY <2>1, <1>2
  <2>2. CASE l \in {j, k} /\ i \notin {j, k} BY <2>2, <1>2, <1>3 DEF Dispatched
  <2>3. CASE l \notin {j, k} /\ i \in {j, k} BY <2>3, <1>2, <1>3 DEF Dispatched
  <2>4. CASE l \notin {j, k} /\ i \notin {j, k} BY <2>4, <1>3 DEF Dispatched
  <2>5. QED BY <2>1, <2>2, <2>3, <2>4
<1>6. \A l \in Slot : (Owned(l) \cap Unclaimed)' = {}
  <2> SUFFICES ASSUME NEW l \in Slot PROVE Owned(l)' \cap Unclaimed' = {}
    OBVIOUS
  <2>1. CASE l \in {j, k} BY <2>1, <1>2, <1>4 DEF Dispatched
  <2>2. CASE l \notin {j, k} BY <2>2, <1>3, <1>4 DEF Dispatched
  <2>3. QED BY <2>1, <2>2
<1>7. QED BY <1>5, <1>6 DEF Dispatched

---------------------------------------------------------------------------
(* What the job constructors leave in a job's hands.                       *)
LEMMA HandOfDone == ASSUME NEW b PROVE InHand(Done(b)) = {}
BY DEF InHand, Done, At

LEMMA HandOfFree == InHand(FreeSlot) = {}
BY DEF InHand, FreeSlot, At

LEMMA HandOfAt ==
  ASSUME NEW b, NEW phase, NEW todo, NEW held, NEW put
  PROVE  /\ b.kind = "strategy" => InHand(At(b, phase, todo, held, put)) \subseteq held
         /\ b.kind # "strategy" /\ phase = "lookup"
              => InHand(At(b, phase, todo, held, put)) \subseteq todo \cup held
         /\ b.kind # "strategy" /\ phase = "split"
              => InHand(At(b, phase, todo, held, put)) \subseteq todo
         /\ b.kind # "strategy" /\ phase \notin {"lookup", "split"}
              => InHand(At(b, phase, todo, held, put)) \subseteq b.items
BY DEF InHand, At

LEMMA HandOfNew ==
  ASSUME NEW kind, NEW rows, NEW tries
  PROVE  /\ kind # "strategy" => InHand(Stored(kind, rows, tries)) \subseteq rows
         /\ kind = "strategy" => InHand(Stored(kind, rows, tries)) = {}
BY DEF InHand, Stored

(* What a running job has in hand.                                         *)
LEMMA OwnedByPhase ==
  ASSUME TypeOK, NEW j \in Slot
  PROVE  /\ Owned(j) \subseteq Row
         /\ IsFree(j) => Owned(j) = {}
         /\ job[j].kind = "strategy" /\ job[j].phase \notin {"free", "done"}
              => Owned(j) = job[j].held
         /\ job[j].kind # "strategy" /\ job[j].phase = "lookup"
              => Owned(j) = job[j].todo \cup job[j].held
         /\ job[j].kind # "strategy" /\ job[j].phase = "split" => Owned(j) = job[j].todo
         /\ job[j].kind # "strategy" /\ job[j].phase \notin {"free", "done", "lookup", "split"}
              => Owned(j) = job[j].items
BY JobType DEF Owned, InHand, IsFree

(* A status set to anything but pending only takes rows out of unclaimed.  *)
LEMMA SettingClaims ==
  ASSUME TypeOK, NEW rows, NEW s \in {"processing", "complete", "failed"}, SetStatus(rows, s)
  PROVE  Unclaimed' = Unclaimed \ rows
BY DEF TypeOK, SetStatus, Unclaimed

LEMMA Releasing ==
  ASSUME TypeOK, NEW rows, releaseToPending(rows)
  PROVE  Unclaimed' \subseteq Unclaimed \cup rows
BY DEF TypeOK, SetStatus, releaseToPending, Unclaimed

LEMMA Completing ==
  ASSUME TypeOK, NEW r, NEW m, NEW of, NEW label, Complete(r, m, of, label)
  PROVE  Unclaimed' \subseteq Unclaimed
BY SettingClaims DEF Complete

---------------------------------------------------------------------------
LEMMA RequestDispatched ==
  ASSUME TypeOK, Dispatched, NEW r \in Row, RequestStep(r) \/ Age(r)
  PROVE  Dispatched'
<1>1. job' = job
  BY DEF RequestStep, StubRow, SyncEmbed, SyncRow, AfterCommitWrite, AfterCommitCache,
         AfterCommitLost, DeleteRow, Age
<1>2. Unclaimed' \subseteq Unclaimed
  <2>1. CASE StubRow(r) BY <2>1 DEF StubRow, TypeOK, Unclaimed
  <2>2. CASE SyncEmbed(r) \/ AfterCommitCache(r) \/ AfterCommitLost(r) \/ Age(r)
    BY <2>2 DEF SyncEmbed, AfterCommitCache, AfterCommitLost, Age, rowVars, Unclaimed
  <2>3. CASE SyncRow(r) BY <2>3, Completing DEF SyncRow
  <2>4. CASE AfterCommitWrite(r)
    BY <2>4, Completing DEF AfterCommitWrite, Unclaimed
  <2>5. CASE DeleteRow(r) BY <2>5 DEF DeleteRow, TypeOK, Unclaimed
  <2>6. QED BY <2>1, <2>2, <2>3, <2>4, <2>5 DEF RequestStep
<1>3. QED BY <1>1, <1>2, RowsMove

LEMMA SweepDispatched ==
  ASSUME TypeOK, Dispatched, NEW k \in Slot, SweepDiscover(k)
  PROVE  Dispatched'
<1>1. InHand(NewJob("strategy", {})) = {} BY HandOfNew DEF NewJob
<1>2. Unclaimed' = Unclaimed BY DEF SweepDiscover, rowVars, Unclaimed
<1>3. job' = [job EXCEPT ![k] = NewJob("strategy", {})] BY DEF SweepDiscover
<1>4. QED BY <1>1, <1>2, <1>3, JobMoves

LEMMA StrategyDispatched ==
  ASSUME TypeOK, Dispatched, NEW j \in Slot, StrategyStep(j)
  PROVE  Dispatched'
<1> DEFINE b == job[j]
<1>1. CASE StrategyList(j)
  <2>1. b.kind = "strategy" BY <1>1 DEF StrategyList, Is
  <2>2. InHand(At(b, "claim", Dispatchable, {}, {})) = {} BY <2>1, HandOfAt
  <2>3. PICK c : job' = [job EXCEPT ![j] = c] /\ InHand(c) = {}
    BY <1>1, <2>2, HandOfDone DEF StrategyList
  <2>4. Unclaimed' = Unclaimed BY <1>1 DEF StrategyList, rowVars, Unclaimed
  <2>5. QED BY <2>3, <2>4, JobMoves
<1>2. ASSUME NEW rows \in SUBSET Row, StrategyClaim(j, rows) PROVE Dispatched'
  <2> DEFINE c == At(b, "claim", b.todo \ rows, Claimable(rows), {})
  <2>1. InHand(c) \subseteq Claimable(rows) BY <1>2, HandOfAt DEF StrategyClaim, Is
  <2>2. Claimable(rows) \subseteq Unclaimed BY DEF Claimable, Unclaimed
  <2>3. Unclaimed' = Unclaimed \ Claimable(rows)
    BY <1>2, SettingClaims DEF StrategyClaim
  <2>4. job' = [job EXCEPT ![j] = c] BY <1>2 DEF StrategyClaim
  <2>5. QED BY <2>1, <2>2, <2>3, <2>4, JobMoves
<1>3. ASSUME NEW k \in Slot, StrategySend(j, k) PROVE Dispatched'
  <2> DEFINE c == At(b, "claim", b.todo, {}, {})
             d == NewJob("check", b.held)
  <2>1. b.kind = "strategy" /\ b.phase = "claim" /\ IsFree(k)
    BY <1>3 DEF StrategySend, Is
  <2>2. InHand(c) = {} BY <2>1, HandOfAt
  <2>3. InHand(d) \subseteq b.held BY HandOfNew DEF NewJob
  <2>4. Owned(j) = b.held BY <2>1, OwnedByPhase
  <2>5. ~IsFree(j) BY <2>1 DEF IsFree
  <2>6. job' = [job EXCEPT ![k] = d, ![j] = c] /\ status' = status
    BY <1>3 DEF StrategySend, rowVars
  <2>7. InHand(c) \subseteq Owned(j) /\ InHand(d) \subseteq Owned(j) /\ InHand(c) \cap InHand(d) = {}
    BY <2>2, <2>3, <2>4
  <2> HIDE DEF c, d
  <2>8. QED BY <2>1, <2>5, <2>6, <2>7, JobSends
<1>4. CASE StrategyEnd(j)
  <2>1. Unclaimed' = Unclaimed BY <1>4 DEF StrategyEnd, rowVars, Unclaimed
  <2>2. job' = [job EXCEPT ![j] = Done(b)] BY <1>4 DEF StrategyEnd
  <2>3. QED BY <2>1, <2>2, HandOfDone, JobMoves
<1>5. QED BY <1>1, <1>2, <1>3, <1>4 DEF StrategyStep

LEMMA CheckDispatched ==
  ASSUME TypeOK, Dispatched, NEW j \in Slot, CheckStep(j)
  PROVE  Dispatched'
<1> DEFINE b == job[j]
<1>1. CASE CheckLoad(j)
  <2> DEFINE loaded == b.items \cap alive
             n == Stored("check", loaded, b.tries)
             c == IF loaded = {} THEN Done(n) ELSE At(n, "lookup", loaded, {}, {})
  <2>1. b.kind = "check" /\ b.phase = "queued" BY <1>1 DEF CheckLoad, Is
  <2>2. Owned(j) = b.items BY <2>1, OwnedByPhase
  <2>3. n.kind = "check" BY DEF Stored
  <2>4. InHand(c) \subseteq b.items BY <2>3, HandOfAt, HandOfDone
  <2>5. SetStatus({r \in loaded : status[r] = "pending"}, "processing")
    BY <1>1 DEF CheckLoad
  <2>6. Unclaimed' \subseteq Unclaimed BY <2>5, SettingClaims
  <2>7. job' = [job EXCEPT ![j] = c] BY <1>1 DEF CheckLoad
  <2>8. QED BY <2>2, <2>4, <2>6, <2>7, JobKeeps
<1>2. ASSUME NEW r \in Row, CheckLookup(j, r) PROVE Dispatched'
  <2> DEFINE c == At(b, "lookup", b.todo \ {r}, Misses(b, r), {})
  <2>1. b.kind = "check" /\ b.phase = "lookup" /\ r \in b.todo
    BY <1>2 DEF CheckLookup, Is
  <2>2. Owned(j) = b.todo \cup b.held BY <2>1, OwnedByPhase
  <2>3. Misses(b, r) \subseteq b.held \cup {r} BY DEF Misses
  <2>4. InHand(c) \subseteq Owned(j) BY <2>1, <2>2, <2>3, HandOfAt
  <2>5. Unclaimed' \subseteq Unclaimed
    BY <1>2, Completing DEF CheckLookup, Unclaimed
  <2>6. job' = [job EXCEPT ![j] = c] BY <1>2 DEF CheckLookup
  <2>7. QED BY <2>4, <2>5, <2>6, JobKeeps
<1>3. ASSUME NEW k \in Slot, NEW m \in Model, CheckForward(j, k, m) PROVE Dispatched'
  <2> DEFINE group == OfModel(b.held, m)
             c == At(b, "lookup", {}, b.held \ group, {})
  <2>1. b.kind = "check" /\ b.phase = "lookup" /\ b.todo = {} /\ IsFree(k)
    BY <1>3 DEF CheckForward, Is
  <2>2. Owned(j) = b.held BY <2>1, OwnedByPhase
  <2>3. InHand(c) \subseteq b.held \ group BY <2>1, HandOfAt
  <2>4. InHand(NewJob("api", group)) \subseteq group BY HandOfNew DEF NewJob
  <2>5. group \subseteq b.held BY DEF OfModel
  <2>6. ~IsFree(j) BY <2>1 DEF IsFree
  <2>7. job' = [job EXCEPT ![k] = NewJob("api", group), ![j] = c] /\ status' = status
    BY <1>3 DEF CheckForward, rowVars
  <2>8. QED BY <2>1, <2>2, <2>3, <2>4, <2>5, <2>6, <2>7, JobSends
<1>4. CASE CheckEnd(j)
  <2>1. Unclaimed' = Unclaimed BY <1>4 DEF CheckEnd, rowVars, Unclaimed
  <2>2. job' = [job EXCEPT ![j] = Done(b)] BY <1>4 DEF CheckEnd
  <2>3. QED BY <2>1, <2>2, HandOfDone, JobMoves
<1>5. QED BY <1>1, <1>2, <1>3, <1>4 DEF CheckStep

LEMMA RefusalDispatched ==
  ASSUME TypeOK, Dispatched, NEW j \in Slot, RowRefused(j), Calling(j)
  PROVE  Dispatched'
<1> DEFINE b == job[j]
<1>1. b.kind = "api" /\ b.phase \in {"image", "text", "fallback"} BY DEF Calling
<1>2. Owned(j) = b.items BY <1>1, OwnedByPhase
<1>3. PICK c : job' = [job EXCEPT ![j] = c] /\ InHand(c) \subseteq b.items
  <2>1. InHand(Done(b)) \subseteq b.items BY HandOfDone
  <2>2. InHand(At(b, "split", b.items, {}, {})) \subseteq b.items BY <1>1, HandOfAt
  <2>3. InHand(Again(b)) \subseteq b.items BY <1>1, HandOfNew DEF Again
  <2>4. QED BY <2>1, <2>2, <2>3 DEF RowRefused
<1>4. Unclaimed' \subseteq Unclaimed
  BY SettingClaims DEF RowRefused, markFailed, Unclaimed
<1>5. QED BY <1>2, <1>3, <1>4, JobKeeps

LEMMA ApiDispatched ==
  ASSUME TypeOK, Dispatched, NEW j \in Slot, ApiStep(j)
  PROVE  Dispatched'
<1> DEFINE b == job[j]
<1>1. CASE ApiLoad(j)
  <2> DEFINE loaded == b.items \cap alive
             cold == ModelsOf(loaded) \cap cooling # {}
             n == Stored("api", loaded, b.tries)
             c == IF loaded = {} \/ cold THEN Done(n) ELSE At(n, "image", loaded \cap Image, {}, {})
  <2>1. b.kind = "api" /\ b.phase = "queued" BY <1>1 DEF ApiLoad, Is
  <2>2. Owned(j) = b.items BY <2>1, OwnedByPhase
  <2>3. n.kind = "api" /\ n.items = loaded BY DEF Stored
  <2>4. InHand(c) \subseteq loaded
    <3>1. InHand(At(n, "image", loaded \cap Image, {}, {})) \subseteq n.items BY <2>3, HandOfAt
    <3>2. InHand(Done(n)) = {} BY HandOfDone
    <3>3. QED BY <2>3, <3>1, <3>2
  <2>5. job' = [job EXCEPT ![j] = c] BY <1>1 DEF ApiLoad
  <2>6. CASE cold
    <3>1. releaseToPending(loaded) BY <1>1, <2>6 DEF ApiLoad
    <3>2. Unclaimed' \subseteq Unclaimed \cup Owned(j) BY <2>2, <3>1, Releasing
    <3>3. InHand(c) = {} BY <2>6, HandOfDone
    <3>4. QED BY <2>5, <3>2, <3>3, JobMoves
  <2>7. CASE ~cold
    <3>1. UNCHANGED <<status, stale>> BY <1>1, <2>7 DEF ApiLoad
    <3>2. Unclaimed' = Unclaimed BY <3>1 DEF Unclaimed
    <3>3. InHand(c) \subseteq Owned(j) BY <2>2, <2>4
    <3> HIDE DEF c
    <3>4. QED BY <2>5, <3>2, <3>3, JobKeeps
  <2>8. QED BY <2>6, <2>7
<1>2. ASSUME NEW r \in Row, NEW of \in Content, ApiImage(j, r, of) PROVE Dispatched'
  <2> DEFINE c == At(b, "image", b.todo \ {r}, Fallback(b, r, of), ToCache(r, CallModel(j), of))
  <2>1. b.kind = "api" /\ b.phase = "image" BY <1>2 DEF ApiImage, Is
  <2>2. Owned(j) = b.items BY <2>1, OwnedByPhase
  <2>3. InHand(c) \subseteq Owned(j) BY <2>1, <2>2, HandOfAt
  <2>4. Unclaimed' \subseteq Unclaimed BY <1>2, Completing DEF ApiImage, Unclaimed
  <2>5. job' = [job EXCEPT ![j] = c] BY <1>2 DEF ApiImage
  <2> HIDE DEF c
  <2>6. QED BY <2>3, <2>4, <2>5, JobKeeps
<1>3. CASE ApiNext(j)
  <2>1. b.kind = "api" /\ b.phase \in {"image", "text", "writeText", "fallback", "writeFallback"}
    BY <1>3 DEF ApiNext
  <2>2. Owned(j) = b.items BY <2>1, OwnedByPhase
  <2>3. PICK c : job' = [job EXCEPT ![j] = c] /\ InHand(c) \subseteq b.items
    <3>1. InHand(At(b, "text", b.items \ Image, b.held, {})) \subseteq b.items BY <2>1, HandOfAt
    <3>2. InHand(At(b, "fallback", b.held, b.held, {})) \subseteq b.items BY <2>1, HandOfAt
    <3>3. InHand(Done(b)) \subseteq b.items BY HandOfDone
    <3>4. QED BY <1>3, <3>1, <3>2, <3>3 DEF ApiNext
  <2>4. Unclaimed' = Unclaimed BY <1>3 DEF ApiNext, rowVars, Unclaimed
  <2>5. QED BY <2>2, <2>3, <2>4, JobKeeps
<1>4. CASE ApiAnswered(j)
  <2>1. b.kind = "api" /\ b.phase \in {"text", "fallback"} BY <1>4 DEF ApiAnswered, Calling
  <2>2. Owned(j) = b.items BY <2>1, OwnedByPhase
  <2>3. PICK c : job' = [job EXCEPT ![j] = c] /\ InHand(c) \subseteq b.items
    <3>1. /\ InHand(At(b, "writeText", b.todo, b.held, {})) \subseteq b.items
          /\ InHand(At(b, "writeFallback", b.todo, b.held, {})) \subseteq b.items
      BY <2>1, HandOfAt
    <3>2. QED BY <1>4, <3>1 DEF ApiAnswered
  <2>4. Unclaimed' = Unclaimed BY <1>4 DEF ApiAnswered, rowVars, Unclaimed
  <2>5. QED BY <2>2, <2>3, <2>4, JobKeeps
<1>5. CASE ApiRefused(j)
  BY <1>5, RefusalDispatched DEF ApiRefused
<1>6. ASSUME NEW r \in Row, ApiWrite(j, r) \/ ApiMissing(j, r) PROVE Dispatched'
  <2>1. b.kind = "api" /\ b.phase \in {"writeText", "writeFallback"}
    BY <1>6 DEF ApiWrite, ApiMissing, Writing
  <2>2. Owned(j) = b.items BY <2>1, OwnedByPhase
  <2>3. PICK c : job' = [job EXCEPT ![j] = c] /\ InHand(c) \subseteq b.items
    <3>1. \A put : InHand(At(b, b.phase, b.todo \ {r}, b.held, put)) \subseteq b.items
      BY <2>1, HandOfAt
    <3>2. \E put : job' = [job EXCEPT ![j] = At(b, b.phase, b.todo \ {r}, b.held, put)]
      BY <1>6 DEF ApiWrite, ApiMissing
    <3>3. QED BY <3>1, <3>2
  <2>4. CASE ApiWrite(j, r)
    <3>1. Unclaimed' \subseteq Unclaimed BY <2>4, Completing DEF ApiWrite, Unclaimed
    <3>2. QED BY <2>2, <2>3, <3>1, JobKeeps
  <2>5. CASE ApiMissing(j, r)
    <3>1. Unclaimed' \subseteq Unclaimed BY <2>5, SettingClaims DEF ApiMissing, markFailed
    <3>2. QED BY <2>2, <2>3, <3>1, JobKeeps
  <2>6. QED BY <1>6, <2>4, <2>5
<1>7. CASE ApiCache(j)
  <2> DEFINE c == At(b, b.phase, b.todo, b.held, {})
  <2>1. job' = [job EXCEPT ![j] = c] BY <1>7 DEF ApiCache
  <2>2. InHand(c) \subseteq Owned(j) BY DEF Owned, InHand, At
  <2>3. Unclaimed' = Unclaimed BY <1>7 DEF ApiCache, rowVars, Unclaimed
  <2> HIDE DEF c
  <2>4. QED BY <2>1, <2>2, <2>3, JobKeeps
<1>8. ASSUME NEW k \in Slot, NEW rows \in SUBSET Row, ApiSplit(j, k, rows) PROVE Dispatched'
  <2> DEFINE c == At(b, "split", b.todo \ rows, {}, {})
             d == NewJob("api", rows)
  <2>1. b.kind = "api" /\ b.phase = "split" /\ IsFree(k) /\ rows \subseteq b.todo
    BY <1>8 DEF ApiSplit, Is
  <2>2. Owned(j) = b.todo BY <2>1, OwnedByPhase
  <2>3. InHand(c) \subseteq b.todo \ rows BY <2>1, HandOfAt
  <2>4. InHand(d) \subseteq rows BY HandOfNew DEF NewJob
  <2>5. ~IsFree(j) BY <2>1 DEF IsFree
  <2>6. job' = [job EXCEPT ![k] = d, ![j] = c] /\ status' = status
    BY <1>8 DEF ApiSplit, rowVars
  <2>7. InHand(c) \subseteq Owned(j) /\ InHand(d) \subseteq Owned(j) /\ InHand(c) \cap InHand(d) = {}
    BY <2>1, <2>2, <2>3, <2>4
  <2> HIDE DEF c, d
  <2>8. QED BY <2>1, <2>5, <2>6, <2>7, JobSends
<1>9. CASE ApiSplitEnd(j)
  <2>1. Unclaimed' = Unclaimed BY <1>9 DEF ApiSplitEnd, rowVars, Unclaimed
  <2>2. job' = [job EXCEPT ![j] = Done(b)] BY <1>9 DEF ApiSplitEnd
  <2>3. QED BY <2>1, <2>2, HandOfDone, JobMoves
<1>10. QED
  BY <1>1, <1>2, <1>3, <1>4, <1>5, <1>6, <1>7, <1>8, <1>9 DEF ApiStep

LEMMA PushbackDispatched ==
  ASSUME TypeOK, Dispatched, NEW j \in Slot, ApiPushback(j)
  PROVE  Dispatched'
<1>1. job[j].kind = "api" /\ job[j].phase \in {"image", "text", "fallback"}
  BY DEF ApiPushback, Calling
<1>2. Owned(j) = job[j].items BY <1>1, OwnedByPhase
<1>3. Unclaimed' \subseteq Unclaimed \cup Owned(j) BY <1>2, Releasing DEF ApiPushback
<1>4. job' = [job EXCEPT ![j] = Done(job[j])] BY DEF ApiPushback
<1>5. QED BY <1>3, <1>4, HandOfDone, JobMoves

LEMMA AckDispatched ==
  ASSUME TypeOK, Dispatched, NEW j \in Slot, Ack(j)
  PROVE  Dispatched'
<1>1. job' = [job EXCEPT ![j] = FreeSlot] BY DEF Ack
<1>2. Unclaimed' = Unclaimed BY DEF Ack, rowVars, Unclaimed
<1>3. QED BY <1>1, <1>2, HandOfFree, JobMoves

LEMMA DispatchedInvariant == Spec => [](calm => Dispatched)
<1>1. Init => (calm => Dispatched)
  BY HandOfFree DEF Init, Dispatched, Owned
<1>2. TypeOK /\ (calm => Dispatched) /\ [Next]_vars => (calm' => Dispatched')
  <2> SUFFICES ASSUME TypeOK, calm => Dispatched, [Next]_vars, calm'
               PROVE  Dispatched'
    OBVIOUS
  <2>1. CASE \E r \in Row : RequestStep(r) \/ Age(r)
    <3>1. PICK r \in Row : RequestStep(r) \/ Age(r) BY <2>1
    <3>2. calm' = calm
      BY <3>1 DEF RequestStep, StubRow, SyncEmbed, SyncRow, AfterCommitWrite,
                  AfterCommitCache, AfterCommitLost, DeleteRow, Age
    <3>3. QED BY <3>1, <3>2, RequestDispatched
  <2>2. CASE OperatorStep
    <3>1. ~\E rows \in SUBSET Row : RetryFailed(rows) BY DEF RetryFailed
    <3>2. RepairImageFallbacks BY <2>2, <3>1 DEF OperatorStep
    <3>3. calm' = calm /\ job' = job /\ Unclaimed' = Unclaimed
      BY <3>2 DEF RepairImageFallbacks, Unclaimed
    <3>4. QED BY <3>3, RowsMove
  <2>3. CASE \E m \in Model : CooldownEnds(m) \/ SyncPushback(m)
    <3>1. calm' = calm /\ job' = job /\ Unclaimed' = Unclaimed
      BY <2>3 DEF CooldownEnds, SyncPushback, rowVars, Unclaimed
    <3>2. QED BY <3>1, RowsMove
  <2>4. CASE SweepRecover
    BY <2>4 DEF SweepRecover
  <2>5. CASE \E k \in Slot : SweepDiscover(k)
    BY <2>5, SweepDispatched DEF SweepDiscover
  <2>6. ASSUME NEW j \in Slot, HandlerStep(j) PROVE Dispatched'
    <3>1. CASE StrategyStep(j)
      BY <3>1, StrategyDispatched DEF StrategyStep, StrategyList, StrategyClaim, StrategySend, StrategyEnd
    <3>2. CASE CheckStep(j)
      BY <3>2, CheckDispatched DEF CheckStep, CheckLoad, CheckLookup, CheckForward, CheckEnd
    <3>3. CASE ApiStep(j)
      BY <3>3, ApiDispatched
         DEF ApiStep, ApiLoad, ApiImage, ApiNext, ApiAnswered, ApiRefused, ApiWrite,
             ApiMissing, ApiCache, ApiSplit, ApiSplitEnd
    <3>4. CASE Ack(j) BY <3>4, AckDispatched DEF Ack
    <3>5. QED BY <2>6, <3>1, <3>2, <3>3, <3>4 DEF HandlerStep
  <2>7. ASSUME NEW j \in Slot, FaultStep(j) PROVE Dispatched'
    <3>1. ApiPushback(j) BY <2>7 DEF FaultStep, ApiWriteError, Crash, Expire
    <3>2. calm' = calm BY <3>1 DEF ApiPushback
    <3>3. QED BY <3>1, <3>2, PushbackDispatched
  <2>8. CASE UNCHANGED vars
    BY <2>8, RowsMove DEF vars, Unclaimed
  <2>9. QED BY <2>1, <2>2, <2>3, <2>4, <2>5, <2>6, <2>7, <2>8 DEF Next
<1>3. QED BY <1>1, <1>2, TypeCorrect, PTL DEF Spec

(* While nothing has been killed, outlived its lease or been taken for     *)
(* dead, no row is in two jobs, and a pending row is in none.              *)
THEOREM OneJob == Spec => []OneJobPerRow
<1>1. (calm => Dispatched) => OneJobPerRow
  BY DEF Dispatched, OneJobPerRow
<1>2. QED BY <1>1, DispatchedInvariant, PTL

---------------------------------------------------------------------------
(* No row is stranded.  What a job is yet to do answers for every claimed  *)
(* row, phase by phase; a batch is of one model, so the row write of the   *)
(* API tier misses only rows that are gone.  Without images no row ahead   *)
(* of a job is complete, so no refusal fails a complete one.               *)

(* The rows a job has yet to complete, fail, put back or pass on.          *)
Ahead(b) == {r \in Row :
  \/ b.phase = "queued" /\ b.kind # "strategy" /\ r \in b.items
  \/ b.phase = "image" /\ r \in b.items \ Image
  \/ b.phase \notin {"free", "queued", "claim", "done"} /\ r \in b.todo
  \/ b.phase \in {"claim", "lookup", "image", "text", "writeText"} /\ r \in b.held}

ApiPhase == {"image", "text", "fallback", "writeText", "writeFallback", "split"}

Shaped(b) ==
  /\ b.phase = "claim" => b.kind = "strategy"
  /\ b.phase = "lookup" => b.kind = "check"
  /\ b.phase \in {"lookup", "image"} => b.todo \cap b.held = {}
  /\ b.phase \in ApiPhase => b.kind = "api" /\ b.todo \subseteq b.items
                             /\ b.held \subseteq b.items \cap Image
  /\ b.phase \in {"image", "fallback", "writeFallback"} => b.todo \subseteq Image
  /\ b.phase = "text" => b.todo = b.items \ Image
  /\ b.phase = "writeText" => b.todo \cap Image = {}
  /\ b.kind = "api" => \A r, s \in b.items : ModelOf[r] = ModelOf[s]

Answered ==
  /\ \A j \in Slot : Shaped(job[j])
  /\ \A r \in Row : status[r] = "processing" => \E j \in Slot : r \in Ahead(job[j])
  /\ Image = {} => \A j \in Slot : \A r \in Ahead(job[j]) : status[r] # "complete"
  /\ \A r \in Row : after[r] # "none" => r \in Image

(* The step CompleteIsFinalForText allows.                                 *)
KeepsComplete ==
  Image = {} => \A r \in Row : status[r] = "complete" => status'[r] \in {"complete", "deleted"}

(* One job moves along: what it no longer answers for is not claimed, what *)
(* it completes was its own.                                               *)
Carries(j, b) ==
  /\ job' = [job EXCEPT ![j] = b]
  /\ after' = after
  /\ Shaped(b)
  /\ \A r \in Row : status'[r] = "processing" =>
       r \in Ahead(b) \/ (status[r] = "processing" /\ r \notin Ahead(job[j]))
  /\ Image = {} => \A r \in Ahead(b) : status'[r] # "complete"
  /\ \A r \in Row : status'[r] = "complete" => status[r] = "complete" \/ r \in Owned(j)
  /\ KeepsComplete

(* One job hands on what is ahead of it, or a part.                        *)
Hands(j, k, b, c) ==
  /\ job' = [job EXCEPT ![k] = c, ![j] = b]
  /\ ~IsFree(j) /\ IsFree(k)
  /\ status' = status /\ after' = after
  /\ Shaped(b) /\ Shaped(c)
  /\ Ahead(b) \cup Ahead(c) = Ahead(job[j])

LEMMA AheadIsOwned ==
  ASSUME TypeOK, Answered, NEW j \in Slot
  PROVE  Ahead(job[j]) \subseteq Owned(j)
<1>1. Shaped(job[j]) /\ job[j].phase \in Phase /\ job[j].kind \in Kind
  BY JobType DEF Answered
<1>2. SUFFICES ASSUME NEW r \in Row, r \in Ahead(job[j]) PROVE r \in InHand(job[j])
  BY DEF Owned, Ahead
<1>3. CASE job[j].phase \in ApiPhase
  BY <1>1, <1>2, <1>3 DEF Ahead, InHand, Shaped, ApiPhase
<1>4. CASE job[j].phase \notin ApiPhase
  BY <1>1, <1>2, <1>4 DEF Ahead, InHand, Shaped, ApiPhase, Phase
<1>5. QED BY <1>3, <1>4

LEMMA CarriesAnswered ==
  ASSUME TypeOK, Dispatched, Answered, NEW j \in Slot, NEW b, Carries(j, b)
  PROVE  Answered'
<1>1. job'[j] = b /\ \A k \in Slot \ {j} : job'[k] = job[k] BY DEF Carries, TypeOK
<1>2. \A k \in Slot : Shaped(job'[k]) BY <1>1 DEF Carries, Answered
<1>3. ASSUME NEW r \in Row, status'[r] = "processing"
      PROVE  \E k \in Slot : r \in Ahead(job'[k])
  <2>1. CASE r \in Ahead(b) BY <2>1, <1>1
  <2>2. CASE status[r] = "processing" /\ r \notin Ahead(job[j])
    <3>1. PICK k \in Slot : r \in Ahead(job[k]) BY <2>2 DEF Answered
    <3>2. QED BY <1>1, <2>2, <3>1
  <2>3. QED BY <1>3, <2>1, <2>2 DEF Carries
<1>4. ASSUME Image = {}, NEW k \in Slot, NEW r \in Ahead(job'[k])
      PROVE  status'[r] # "complete"
  <2>1. CASE k = j BY <1>1, <1>4, <2>1 DEF Carries
  <2>2. CASE k # j
    <3>1. r \in Ahead(job[k]) /\ r \in Row BY <1>1, <1>4, <2>2 DEF Ahead
    <3>2. r \notin Owned(j) BY <2>2, <3>1, AheadIsOwned DEF Dispatched
    <3>3. status[r] # "complete" BY <1>4, <3>1 DEF Answered
    <3>4. QED BY <3>1, <3>2, <3>3 DEF Carries
  <2>3. QED BY <2>1, <2>2
<1>5. QED
  <2>1. (\A r \in Row : after[r] # "none" => r \in Image)' BY DEF Carries, Answered
  <2>2. (\A k \in Slot : Shaped(job[k]))' BY <1>2 DEF Shaped
  <2>3. (\A r \in Row : status[r] = "processing" => \E k \in Slot : r \in Ahead(job[k]))'
    BY <1>3 DEF Ahead
  <2>4. (Image = {} => \A k \in Slot : \A r \in Ahead(job[k]) : status[r] # "complete")'
    BY <1>4 DEF Ahead
  <2>5. QED BY <2>1, <2>2, <2>3, <2>4 DEF Answered

LEMMA HandsAnswered ==
  ASSUME TypeOK, Answered, NEW j \in Slot, NEW k \in Slot, NEW b, NEW c, Hands(j, k, b, c)
  PROVE  Answered' /\ KeepsComplete
<1>1. j # k /\ Ahead(job[k]) = {} BY DEF Hands, IsFree, Ahead
<1>2. job'[j] = b /\ job'[k] = c /\ \A i \in Slot \ {j, k} : job'[i] = job[i]
  BY <1>1 DEF Hands, TypeOK
<1>3. \A i \in Slot : Shaped(job'[i]) BY <1>2 DEF Hands, Answered
<1>4. \A r \in Row : (\E i \in Slot : r \in Ahead(job'[i])) <=> (\E i \in Slot : r \in Ahead(job[i]))
  BY <1>1, <1>2 DEF Hands
<1>5. \A i \in Slot : \A r \in Ahead(job'[i]) : r \in Row BY DEF Ahead
<1>6. QED
  <2>1. (\A r \in Row : after[r] # "none" => r \in Image)' BY DEF Hands, Answered
  <2>2. (\A i \in Slot : Shaped(job[i]))' BY <1>3 DEF Shaped
  <2>3. \A r \in Row : status'[r] = "processing" => \E i \in Slot : r \in Ahead(job'[i])
    BY <1>4 DEF Hands, Answered
  <2>4. Image = {} => \A i \in Slot : \A r \in Ahead(job'[i]) : status'[r] # "complete"
    BY <1>4, <1>5 DEF Hands, Answered
  <2>5. Answered' BY <2>1, <2>2, <2>3, <2>4 DEF Answered
  <2>6. KeepsComplete BY DEF Hands, KeepsComplete
  <2>7. QED BY <2>5, <2>6

LEMMA RowsAnswered ==
  ASSUME TypeOK, Answered, job' = job,
         \A r \in Row : status'[r] = "processing" => status[r] = "processing",
         Image = {} => \A r \in Row : status'[r] = "complete" =>
           status[r] = "complete" \/ \A j \in Slot : r \notin Ahead(job[j]),
         \A r \in Row : after'[r] # "none" => r \in Image
  PROVE  Answered'
<1>1. \A j \in Slot : Shaped(job'[j]) BY DEF Answered
<1>2. \A r \in Row : status'[r] = "processing" => \E j \in Slot : r \in Ahead(job'[j])
  BY DEF Answered
<1>3. Image = {} => \A j \in Slot : \A r \in Ahead(job'[j]) : status'[r] # "complete"
  BY DEF Answered, Ahead
<1>4. QED BY <1>1, <1>2, <1>3 DEF Answered

(* A job that has as much ahead of it as before.                           *)
LEMMA Moves ==
  ASSUME TypeOK, Answered, NEW j \in Slot, NEW b, job' = [job EXCEPT ![j] = b],
         after' = after, status' = status, Shaped(b), Ahead(b) = Ahead(job[j])
  PROVE  Carries(j, b)
BY DEF Carries, KeepsComplete, Answered

(* A job that sees to rows it had ahead of it, and to no others.           *)
LEMMA Handled ==
  ASSUME TypeOK, Answered, NEW j \in Slot, NEW b, job' = [job EXCEPT ![j] = b],
         after' = after, Shaped(b), Ahead(b) \subseteq Ahead(job[j]),
         \A r \in Row : r \in Ahead(job[j]) \ Ahead(b) => status'[r] # "processing",
         \A r \in Row : status'[r] # status[r] => r \in Ahead(job[j]) \ Ahead(b)
  PROVE  Carries(j, b)
<1>1. Ahead(job[j]) \subseteq Owned(j) BY AheadIsOwned
<1>2. Image = {} => \A r \in Ahead(job[j]) : status[r] # "complete" BY DEF Answered
<1>3. Ahead(b) \subseteq Row /\ Ahead(job[j]) \subseteq Row BY DEF Ahead
<1>4. KeepsComplete BY <1>2 DEF KeepsComplete
<1>5. \A r \in Row : status'[r] = "processing" =>
        r \in Ahead(b) \/ (status[r] = "processing" /\ r \notin Ahead(job[j]))
  OBVIOUS
<1>6. Image = {} => \A r \in Ahead(b) : status'[r] # "complete" BY <1>2, <1>3
<1>7. \A r \in Row : status'[r] = "complete" => status[r] = "complete" \/ r \in Owned(j)
  BY <1>1
<1>8. QED BY <1>4, <1>5, <1>6, <1>7 DEF Carries

(* What a finished, a fresh and a retried job has ahead of it.             *)
LEMMA AheadOf ==
  /\ \A b : Ahead(Done(b)) = {} /\ (b.kind # "api" => Shaped(Done(b)))
  /\ \A b : Shaped(b) => Shaped(Done(b))
  /\ Ahead(FreeSlot) = {} /\ Shaped(FreeSlot)
  /\ \A tries : Ahead(Stored("strategy", {}, tries)) = {} /\ Shaped(Stored("strategy", {}, tries))
  /\ \A tries : \A rows \in SUBSET Row :
       /\ Ahead(Stored("check", rows, tries)) = rows
       /\ Shaped(Stored("check", rows, tries))
  /\ \A tries : \A rows \in SUBSET Row : (\A r, s \in rows : ModelOf[r] = ModelOf[s]) =>
       /\ Ahead(Stored("api", rows, tries)) = rows
       /\ Shaped(Stored("api", rows, tries))
BY DEF Ahead, Shaped, Done, FreeSlot, NewJob, Stored, At, ApiPhase

LEMMA RequestAnswered ==
  ASSUME TypeOK, Dispatched, Answered, NEW r \in Row, RequestStep(r) \/ Age(r)
  PROVE  Answered' /\ KeepsComplete
<1>1. job' = job
  BY DEF RequestStep, StubRow, SyncEmbed, SyncRow, AfterCommitWrite, AfterCommitCache,
         AfterCommitLost, DeleteRow, Age
<1>2. \A s \in Row : after'[s] # "none" => s \in Image
  BY DEF RequestStep, StubRow, SyncEmbed, SyncRow, AfterCommitWrite, AfterCommitCache,
         AfterCommitLost, DeleteRow, Age, Answered, TypeOK
<1>3. \A s \in Row \ {r} : status'[s] = status[s]
  BY DEF RequestStep, StubRow, SyncEmbed, SyncRow, AfterCommitWrite, AfterCommitCache,
         AfterCommitLost, DeleteRow, Age, TypeOK, Complete, SetStatus, rowVars
<1>4. \/ status'[r] = status[r]
      \/ status[r] = "absent" /\ status'[r] \in {"pending", "complete"}
      \/ r \in Image /\ status'[r] = "complete"
      \/ status'[r] = "deleted"
  <2>1. CASE StubRow(r) BY <2>1 DEF StubRow, TypeOK
  <2>2. CASE SyncRow(r) BY <2>2 DEF SyncRow, Complete, SetStatus
  <2>3. CASE AfterCommitWrite(r)
    BY <2>3 DEF AfterCommitWrite, Complete, SetStatus, Answered
  <2>4. CASE DeleteRow(r) BY <2>4 DEF DeleteRow, TypeOK
  <2>5. CASE SyncEmbed(r) \/ AfterCommitCache(r) \/ AfterCommitLost(r) \/ Age(r)
    BY <2>5 DEF SyncEmbed, AfterCommitCache, AfterCommitLost, Age, rowVars
  <2>6. QED BY <2>1, <2>2, <2>3, <2>4, <2>5 DEF RequestStep
<1>5. status[r] = "absent" => \A j \in Slot : r \notin Ahead(job[j])
  BY AheadIsOwned DEF Dispatched, Unclaimed
<1>6. Answered'
  <2>1. \A s \in Row : status'[s] = "processing" => status[s] = "processing" BY <1>3, <1>4
  <2>2. Image = {} => \A s \in Row : status'[s] = "complete" =>
          status[s] = "complete" \/ \A j \in Slot : s \notin Ahead(job[j])
    BY <1>3, <1>4, <1>5
  <2>3. QED BY <1>1, <1>2, <2>1, <2>2, RowsAnswered
<1>7. KeepsComplete BY <1>3, <1>4 DEF KeepsComplete
<1>8. QED BY <1>6, <1>7

LEMMA StrategyAnswered ==
  ASSUME TypeOK, Answered, NEW j \in Slot, StrategyStep(j)
  PROVE  \/ \E b : Carries(j, b)
         \/ \E k \in Slot : \E b, c : Hands(j, k, b, c)
<1> DEFINE b == job[j]
<1>0. b.items \in SUBSET Row /\ b.todo \in SUBSET Row /\ b.held \in SUBSET Row BY JobType
<1>1. CASE StrategyList(j)
  <2>1. b.kind = "strategy" /\ b.phase = "queued" /\ status' = status /\ after' = after
    BY <1>1 DEF StrategyList, Is, rowVars
  <2>2. Ahead(b) = {} BY <2>1 DEF Ahead
  <2> DEFINE n == At(b, "claim", Dispatchable, {}, {})
  <2>3. Ahead(n) = {} /\ Shaped(n) BY <2>1 DEF Ahead, Shaped, At, ApiPhase
  <2>4. PICK c : job' = [job EXCEPT ![j] = c] /\ Ahead(c) = {} /\ Shaped(c)
    BY <1>1, <2>1, <2>3, AheadOf DEF StrategyList
  <2>5. Carries(j, c) BY <2>1, <2>2, <2>4, Moves
  <2>6. QED BY <2>5
<1>2. ASSUME NEW rows \in SUBSET Row, StrategyClaim(j, rows) PROVE \E c : Carries(j, c)
  <2> DEFINE c == At(b, "claim", b.todo \ rows, Claimable(rows), {})
  <2>1. b.kind = "strategy" /\ b.phase = "claim" /\ b.held = {} /\ after' = after
        /\ job' = [job EXCEPT ![j] = c]
    BY <1>2 DEF StrategyClaim, Is
  <2>2. Ahead(b) = {} BY <2>1 DEF Ahead
  <2>3. Ahead(c) = Claimable(rows) /\ Shaped(c)
    BY <2>1 DEF Ahead, Shaped, At, ApiPhase, Claimable
  <2>4. \A r \in Row : status'[r] = IF r \in Claimable(rows) THEN "processing" ELSE status[r]
    BY <1>2 DEF StrategyClaim, SetStatus
  <2>5. \A r \in Claimable(rows) : r \in Row /\ status[r] = "pending" BY DEF Claimable
  <2> HIDE DEF c
  <2>6. Carries(j, c) BY <2>1, <2>2, <2>3, <2>4, <2>5 DEF Carries, KeepsComplete
  <2>7. QED BY <2>6
<1>3. ASSUME NEW k \in Slot, StrategySend(j, k) PROVE \E c, d : Hands(j, k, c, d)
  <2> DEFINE c == At(b, "claim", b.todo, {}, {})
             d == NewJob("check", b.held)
  <2>1. b.kind = "strategy" /\ b.phase = "claim" /\ IsFree(k) /\ ~IsFree(j)
        /\ status' = status /\ after' = after /\ job' = [job EXCEPT ![k] = d, ![j] = c]
    BY <1>3 DEF StrategySend, Is, rowVars, IsFree
  <2>2. Ahead(b) = b.held BY <1>0, <2>1 DEF Ahead
  <2>3. Ahead(c) = {} /\ Shaped(c) BY <2>1 DEF Ahead, Shaped, At, ApiPhase
  <2>4. Ahead(d) = b.held /\ Shaped(d) BY <1>0, AheadOf DEF NewJob
  <2> HIDE DEF c, d
  <2>5. Hands(j, k, c, d) BY <2>1, <2>2, <2>3, <2>4 DEF Hands
  <2>6. QED BY <2>5
<1>4. CASE StrategyEnd(j)
  <2>1. b.kind = "strategy" /\ b.phase = "claim" /\ b.held = {} /\ status' = status /\ after' = after
        /\ job' = [job EXCEPT ![j] = Done(b)]
    BY <1>4 DEF StrategyEnd, Is, rowVars
  <2>2. Ahead(b) = {} BY <2>1 DEF Ahead
  <2>3. Carries(j, Done(b)) BY <2>1, <2>2, AheadOf, Moves
  <2>4. QED BY <2>3
<1>5. QED BY <1>1, <1>2, <1>3, <1>4 DEF StrategyStep

LEMMA CheckAnswered ==
  ASSUME TypeOK, Answered, NEW j \in Slot, CheckStep(j)
  PROVE  \/ \E b : Carries(j, b)
         \/ \E k \in Slot : \E b, c : Hands(j, k, b, c)
<1> DEFINE b == job[j]
<1>0. b.items \in SUBSET Row /\ b.todo \in SUBSET Row /\ b.held \in SUBSET Row BY JobType
<1>1. CASE CheckLoad(j)
  <2> DEFINE loaded == b.items \cap alive
             n == Stored("check", loaded, b.tries)
             l == At(n, "lookup", loaded, {}, {})
             c == IF loaded = {} THEN Done(n) ELSE l
  <2>1. b.kind = "check" /\ b.phase = "queued" /\ after' = after /\ job' = [job EXCEPT ![j] = c]
    BY <1>1 DEF CheckLoad, Is
  <2>2. Ahead(b) = b.items BY <1>0, <2>1 DEF Ahead
  <2>3. Ahead(l) = loaded /\ Shaped(l) BY <1>0 DEF Ahead, Shaped, At, Stored, ApiPhase
  <2>4. Ahead(Done(n)) = {} /\ Shaped(Done(n)) BY <1>0, AheadOf
  <2>5. Ahead(c) = loaded /\ Shaped(c) BY <2>3, <2>4
  <2>6. \A r \in Row : status'[r] = IF r \in loaded /\ status[r] = "pending" THEN "processing" ELSE status[r]
    BY <1>1 DEF CheckLoad, SetStatus
  <2>7. \A r \in b.items : status[r] = "processing" => r \in loaded BY <1>0 DEF alive, Live
  <2>8. Image = {} => \A r \in b.items : status[r] # "complete" BY <2>2 DEF Answered
  <2> HIDE DEF c, loaded
  <2>9. Carries(j, c)
    <3>1. KeepsComplete BY <2>6 DEF KeepsComplete
    <3>2. \A r \in Row : status'[r] = "processing" =>
            r \in Ahead(c) \/ (status[r] = "processing" /\ r \notin Ahead(job[j]))
      BY <2>2, <2>5, <2>6, <2>7
    <3>3. Image = {} => \A r \in Ahead(c) : status'[r] # "complete"
      BY <1>0, <2>5, <2>6, <2>8 DEF loaded
    <3>4. QED BY <2>1, <2>5, <2>6, <3>1, <3>2, <3>3 DEF Carries
  <2>10. QED BY <2>9
<1>2. ASSUME NEW r \in Row, CheckLookup(j, r) PROVE \E c : Carries(j, c)
  <2> DEFINE c == At(b, "lookup", b.todo \ {r}, Misses(b, r), {})
  <2>1. b.kind = "check" /\ b.phase = "lookup" /\ r \in b.todo /\ after' = after
        /\ job' = [job EXCEPT ![j] = c] /\ b.todo \cap b.held = {}
    BY <1>2 DEF CheckLookup, Is, Answered, Shaped
  <2>2. Ahead(b) = b.todo \cup b.held BY <1>0, <2>1 DEF Ahead
  <2>3. Misses(b, r) = IF EntryFor(r) = {} THEN b.held \cup {r} ELSE b.held BY DEF Misses
  <2>4. Ahead(c) = (b.todo \ {r}) \cup Misses(b, r) /\ Shaped(c)
    BY <1>0, <2>1, <2>3 DEF Ahead, Shaped, At, ApiPhase
  <2>5. \A s \in Row : status'[s] # status[s] => s = r /\ status'[s] = "complete" /\ EntryFor(r) # {}
    BY <1>2 DEF CheckLookup, Complete, SetStatus
  <2>6. EntryFor(r) # {} => status'[r] # "processing"
    BY <1>2, PipelineAssumption DEF CheckLookup, Complete, SetStatus, Writable, alive, Live
  <2> HIDE DEF c
  <2>7. Carries(j, c)
    <3>1. Ahead(c) \subseteq Ahead(b) BY <2>1, <2>2, <2>3, <2>4
    <3>2. EntryFor(r) # {} => r \in Ahead(b) \ Ahead(c) BY <2>1, <2>2, <2>3, <2>4
    <3>3. \A s \in Ahead(b) \ Ahead(c) : s = r /\ EntryFor(r) # {} BY <2>2, <2>3, <2>4
    <3>4. QED BY <2>1, <2>4, <2>5, <2>6, <3>1, <3>2, <3>3, Handled
  <2>8. QED BY <2>7
<1>3. ASSUME NEW k \in Slot, NEW m \in Model, CheckForward(j, k, m) PROVE \E c, d : Hands(j, k, c, d)
  <2> DEFINE group == OfModel(b.held, m)
             c == At(b, "lookup", {}, b.held \ group, {})
             d == NewJob("api", group)
  <2>1. b.kind = "check" /\ b.phase = "lookup" /\ b.todo = {} /\ IsFree(k) /\ ~IsFree(j)
        /\ status' = status /\ after' = after /\ job' = [job EXCEPT ![k] = d, ![j] = c]
    BY <1>3 DEF CheckForward, Is, rowVars, IsFree
  <2>2. group \subseteq b.held /\ \A r, s \in group : ModelOf[r] = ModelOf[s] BY DEF OfModel
  <2>3. Ahead(b) = b.held BY <1>0, <2>1 DEF Ahead
  <2>4. Ahead(c) = b.held \ group /\ Shaped(c) BY <1>0, <2>1 DEF Ahead, Shaped, At, ApiPhase
  <2>5. Ahead(d) = group /\ Shaped(d) BY <1>0, <2>2, AheadOf, PipelineAssumption DEF NewJob
  <2> HIDE DEF c, d, group
  <2>6. Hands(j, k, c, d) BY <2>1, <2>2, <2>3, <2>4, <2>5 DEF Hands
  <2>7. QED BY <2>6
<1>4. CASE CheckEnd(j)
  <2>1. b.kind = "check" /\ b.phase = "lookup" /\ b.todo = {} /\ b.held = {}
        /\ status' = status /\ after' = after /\ job' = [job EXCEPT ![j] = Done(b)]
    BY <1>4 DEF CheckEnd, Is, rowVars
  <2>2. Ahead(b) = {} BY <2>1 DEF Ahead
  <2>3. Carries(j, Done(b)) BY <2>1, <2>2, AheadOf, Moves
  <2>4. QED BY <2>3
<1>5. QED BY <1>1, <1>2, <1>3, <1>4 DEF CheckStep

(* A batch is of one model: whoever is in it and not gone can be written.  *)
LEMMA BatchWritable ==
  ASSUME TypeOK, Answered, NEW j \in Slot, job[j].kind = "api", NEW r \in job[j].items, r \in alive
  PROVE  Writable(r, CallModel(j))
<1>1. r \in Row /\ ModelOf[r] \in Model BY JobType, PipelineAssumption
<1>2. \A s \in job[j].items : ModelOf[s] = ModelOf[r] BY DEF Answered, Shaped
<1>3. ModelOf[r] \in ModelsOf(job[j].items) BY DEF ModelsOf
<1>4. CallModel(j) \in ModelsOf(job[j].items) BY <1>1, <1>3 DEF CallModel
<1>5. CallModel(j) = ModelOf[r] BY <1>2, <1>4 DEF ModelsOf
<1>6. QED BY <1>5 DEF Writable

(* A job that ends or starts over with its rows failed, released or kept.  *)
LEMMA RefusalAnswered ==
  ASSUME TypeOK, Answered, NEW j \in Slot, Calling(j), job[j].phase # "image",
         RowRefused(j), after' = after
  PROVE  \E c : Carries(j, c)
<1> DEFINE b == job[j]
<1>0. b.items \in SUBSET Row /\ b.todo \in SUBSET Row /\ b.held \in SUBSET Row BY JobType
<1>1. b.kind = "api" /\ b.phase \in {"text", "fallback"} /\ b.todo # {} BY DEF Calling
<1>2. Shaped(b) BY DEF Answered
<1>3. Ahead(b) \subseteq b.items BY <1>0, <1>1, <1>2 DEF Ahead, Shaped, ApiPhase
<1>4. Image = {} => Ahead(b) = b.items BY <1>0, <1>1, <1>2 DEF Ahead, Shaped, ApiPhase
<1>5. Image = {} => \A r \in b.items : status[r] # "complete" BY <1>4 DEF Answered
<1>6. CASE Cardinality(b.items) = 1
  <2>1. job' = [job EXCEPT ![j] = Done(b)] BY <1>6 DEF RowRefused
  <2>2. \A r \in Row : status'[r] = IF r \in b.items \cap alive THEN "failed" ELSE status[r]
    BY <1>6 DEF RowRefused, markFailed, SetStatus
  <2>3. \A r \in Row : status[r] = "processing" => r \in alive BY DEF alive, Live
  <2>4. Ahead(Done(b)) = {} /\ Shaped(Done(b)) BY <1>2, AheadOf
  <2>5. KeepsComplete BY <1>5, <2>2 DEF KeepsComplete
  <2>6. Carries(j, Done(b)) BY <1>3, <2>1, <2>2, <2>3, <2>4, <2>5 DEF Carries
  <2>7. QED BY <2>6
<1>7. CASE Cardinality(b.items) # 1
  <2> DEFINE l == At(b, "split", b.items, {}, {})
  <2>1. Ahead(l) = b.items /\ Shaped(l) BY <1>0, <1>1, <1>2 DEF Ahead, Shaped, At, ApiPhase
  <2>2. Ahead(Again(b)) = b.items /\ Shaped(Again(b))
    <3>1. \A r, s \in b.items : ModelOf[r] = ModelOf[s] BY <1>1, <1>2 DEF Shaped
    <3>2. QED BY <1>0, <1>1, <3>1, AheadOf DEF Again
  <2>3. PICK c : job' = [job EXCEPT ![j] = c] /\ Ahead(c) = b.items /\ Shaped(c)
    BY <1>7, <2>1, <2>2 DEF RowRefused
  <2>4. status' = status BY <1>7 DEF RowRefused
  <2>5. KeepsComplete BY <2>4 DEF KeepsComplete
  <2>6. Carries(j, c) BY <1>3, <1>5, <2>3, <2>4, <2>5 DEF Carries
  <2>7. QED BY <2>6
<1>8. QED BY <1>6, <1>7

LEMMA ReleaseAnswered ==
  ASSUME TypeOK, Answered, NEW j \in Slot, NEW rows \in SUBSET Row, releaseToPending(rows),
         after' = after, NEW b, job' = [job EXCEPT ![j] = b], Shaped(b), Ahead(b) = {},
         Ahead(job[j]) \cap alive \subseteq rows
  PROVE  Carries(j, b)
<1>1. \A r \in Row : status'[r] = IF r \in rows /\ r \in alive /\ status[r] # "complete"
                                 THEN "pending" ELSE status[r]
  BY DEF releaseToPending, SetStatus
<1>2. \A r \in Row : status[r] = "processing" => r \in alive BY DEF alive, Live
<1>3. KeepsComplete BY <1>1 DEF KeepsComplete
<1>4. QED BY <1>1, <1>2, <1>3 DEF Carries

LEMMA PushbackAnswered ==
  ASSUME TypeOK, Answered, NEW j \in Slot, ApiPushback(j)
  PROVE  \E b : Carries(j, b)
<1> DEFINE b == job[j]
<1>0. b.items \in SUBSET Row /\ b.todo \in SUBSET Row /\ b.held \in SUBSET Row BY JobType
<1>1. b.phase \in {"image", "text", "fallback"} /\ Shaped(b) BY DEF ApiPushback, Calling, Answered
<1>2. Ahead(b) \subseteq b.items BY <1>0, <1>1 DEF Ahead, Shaped, ApiPhase
<1>3. releaseToPending(b.items) /\ after' = after /\ job' = [job EXCEPT ![j] = Done(b)]
  BY DEF ApiPushback
<1>4. Ahead(Done(b)) = {} /\ Shaped(Done(b)) BY <1>1, AheadOf
<1>5. Carries(j, Done(b)) BY <1>0, <1>2, <1>3, <1>4, ReleaseAnswered
<1>6. QED BY <1>5

LEMMA ApiStepAnswered ==
  ASSUME TypeOK, Answered, NEW j \in Slot, ApiStep(j)
  PROVE  \/ \E b : Carries(j, b)
         \/ \E k \in Slot : \E b, c : Hands(j, k, b, c)
<1> DEFINE b == job[j]
<1>0. b.items \in SUBSET Row /\ b.todo \in SUBSET Row /\ b.held \in SUBSET Row BY JobType
<1>11. Shaped(b) BY DEF Answered
<1>1. CASE ApiLoad(j)
  <2> DEFINE loaded == b.items \cap alive
             cold == ModelsOf(loaded) \cap cooling # {}
             n == Stored("api", loaded, b.tries)
             l == At(n, "image", loaded \cap Image, {}, {})
             c == IF loaded = {} \/ cold THEN Done(n) ELSE l
  <2>1. b.kind = "api" /\ b.phase = "queued" /\ after' = after /\ job' = [job EXCEPT ![j] = c]
    BY <1>1 DEF ApiLoad, Is
  <2>2. Ahead(b) = b.items BY <1>0, <2>1 DEF Ahead
  <2>3. \A r, s \in loaded : ModelOf[r] = ModelOf[s] BY <1>11, <2>1 DEF Shaped
  <2>4. Shaped(n) BY <1>0, <2>3, AheadOf
  <2>5. Ahead(l) = loaded /\ Shaped(l) BY <1>0, <2>3 DEF Ahead, Shaped, At, Stored, ApiPhase
  <2>6. Ahead(Done(n)) = {} /\ Shaped(Done(n)) BY <2>4, AheadOf
  <2>7. loaded \in SUBSET Row /\ Ahead(b) \cap alive \subseteq loaded BY <1>0, <2>2
  <2>8. CASE cold
    <3>1. releaseToPending(loaded) BY <1>1, <2>8 DEF ApiLoad
    <3>2. c = Done(n) BY <2>8
    <3> HIDE DEF c, loaded, n
    <3>3. Carries(j, c) BY <2>1, <2>6, <2>7, <3>1, <3>2, ReleaseAnswered
    <3>4. QED BY <3>3
  <2>9. CASE ~cold
    <3>1. status' = status BY <1>1, <2>9 DEF ApiLoad
    <3>2. Ahead(c) = loaded /\ Shaped(c) BY <2>5, <2>6, <2>9
    <3>3. \A r \in Row : status[r] = "processing" => r \in alive BY DEF alive, Live
    <3>4. KeepsComplete BY <3>1 DEF KeepsComplete
    <3>5. Image = {} => \A r \in b.items : status[r] # "complete" BY <2>2 DEF Answered
    <3>6. \A r \in Row : r \in loaded <=> r \in b.items /\ r \in alive OBVIOUS
    <3>7. loaded \subseteq b.items OBVIOUS
    <3> HIDE DEF c, loaded
    <3>8. Carries(j, c)
      BY <2>1, <2>2, <3>1, <3>2, <3>3, <3>4, <3>5, <3>6, <3>7 DEF Carries
    <3>9. QED BY <3>8
  <2>10. QED BY <2>8, <2>9
<1>2. ASSUME NEW r \in Row, NEW of \in Content, ApiImage(j, r, of) PROVE \E c : Carries(j, c)
  <2> DEFINE c == At(b, "image", b.todo \ {r}, Fallback(b, r, of), ToCache(r, CallModel(j), of))
  <2>1. b.kind = "api" /\ b.phase = "image" /\ r \in b.todo /\ after' = after
        /\ job' = [job EXCEPT ![j] = c]
    BY <1>2 DEF ApiImage, Is
  <2>2. Ahead(b) = b.todo \cup b.held \cup (b.items \ Image) BY <1>0, <2>1 DEF Ahead
  <2>3. Fallback(b, r, of) = IF of = "text" THEN b.held \cup {r} ELSE b.held BY DEF Fallback
  <2>4. r \in b.items /\ r \in Image /\ r \notin b.held BY <1>11, <2>1 DEF Shaped, ApiPhase
  <2>5. Ahead(c) = (b.todo \ {r}) \cup Fallback(b, r, of) \cup (b.items \ Image) /\ Shaped(c)
    <3>1. Fallback(b, r, of) \subseteq b.items \cap Image /\ Fallback(b, r, of) \cap (b.todo \ {r}) = {}
      BY <1>11, <2>1, <2>3, <2>4 DEF Shaped, ApiPhase
    <3>2. Shaped(c) BY <1>11, <2>1, <3>1 DEF Shaped, At, ApiPhase
    <3>3. QED BY <1>0, <2>1, <3>1, <3>2 DEF Ahead, At
  <2>6. \A s \in Row : status'[s] # status[s] => s = r /\ status'[s] = "complete" /\ of # "text"
    BY <1>2 DEF ApiImage, Complete, SetStatus
  <2>7. of # "text" => status'[r] # "processing"
    <3>1. CASE r \in alive
      BY <1>2, <2>1, <2>4, <3>1, BatchWritable DEF ApiImage, Complete, SetStatus
    <3>2. CASE r \notin alive
      BY <1>2, <3>2, <2>6 DEF alive, Live
    <3>3. QED BY <3>1, <3>2
  <2> HIDE DEF c
  <2>8. Carries(j, c)
    <3>1. Ahead(c) \subseteq Ahead(b) BY <2>1, <2>2, <2>3, <2>5
    <3>2. of # "text" => r \in Ahead(b) \ Ahead(c) BY <2>1, <2>2, <2>3, <2>4, <2>5
    <3>3. \A s \in Ahead(b) \ Ahead(c) : s = r /\ of # "text" BY <2>2, <2>3, <2>5
    <3>4. QED BY <2>1, <2>5, <2>6, <2>7, <3>1, <3>2, <3>3, Handled
  <2>9. QED BY <2>8
<1>3. CASE ApiNext(j)
  <2>1. b.kind = "api" /\ b.todo = {} /\ status' = status /\ after' = after
        /\ b.phase \in {"image", "text", "writeText", "fallback", "writeFallback"}
    BY <1>3 DEF ApiNext, rowVars
  <2> DEFINE t == At(b, "text", b.items \ Image, b.held, {})
             f == At(b, "fallback", b.held, b.held, {})
  <2>2. CASE b.phase = "image"
    <3>1. job' = [job EXCEPT ![j] = t] BY <1>3, <2>2 DEF ApiNext
    <3>2. Ahead(t) = Ahead(b) BY <2>1, <2>2 DEF Ahead, At
    <3>3. Shaped(t) BY <1>11, <2>2 DEF Shaped, At, ApiPhase
    <3> HIDE DEF t
    <3>4. Carries(j, t) BY <2>1, <3>1, <3>2, <3>3, Moves
    <3>5. QED BY <3>4
  <2>3. CASE b.phase \in {"text", "writeText"}
    <3>1. job' = [job EXCEPT ![j] = f] BY <1>3, <2>3 DEF ApiNext
    <3>2. Ahead(f) = Ahead(b) BY <2>1, <2>3 DEF Ahead, At
    <3>3. Shaped(f) BY <1>11, <2>3 DEF Shaped, At, ApiPhase
    <3> HIDE DEF f
    <3>4. Carries(j, f) BY <2>1, <3>1, <3>2, <3>3, Moves
    <3>5. QED BY <3>4
  <2>4. CASE b.phase \in {"fallback", "writeFallback"}
    <3>1. job' = [job EXCEPT ![j] = Done(b)] BY <1>3, <2>4 DEF ApiNext
    <3>2. Ahead(b) = {} BY <2>1, <2>4 DEF Ahead
    <3>3. Carries(j, Done(b)) BY <1>11, <2>1, <3>1, <3>2, AheadOf, Moves
    <3>4. QED BY <3>3
  <2>5. QED BY <2>1, <2>2, <2>3, <2>4
<1>4. CASE ApiAnswered(j)
  <2> DEFINE p == IF b.phase = "text" THEN "writeText" ELSE "writeFallback"
             c == At(b, p, b.todo, b.held, {})
  <2>1. b.kind = "api" /\ b.phase \in {"text", "fallback"} /\ status' = status /\ after' = after
        /\ job' = [job EXCEPT ![j] = c]
    BY <1>4 DEF ApiAnswered, Calling, rowVars
  <2>2. Ahead(c) = Ahead(b) BY <2>1 DEF Ahead, At
  <2>3. Shaped(c) BY <1>11, <2>1 DEF Shaped, At, ApiPhase
  <2> HIDE DEF c
  <2>4. Carries(j, c) BY <2>1, <2>2, <2>3, Moves
  <2>5. QED BY <2>4
<1>5. CASE ApiRefused(j)
  BY <1>5, RefusalAnswered DEF ApiRefused
<1>6. ASSUME NEW r \in Row, ApiWrite(j, r) \/ ApiMissing(j, r) PROVE \E c : Carries(j, c)
  <2>1. b.kind = "api" /\ b.phase \in {"writeText", "writeFallback"} /\ r \in b.todo /\ after' = after
    BY <1>6 DEF ApiWrite, ApiMissing, Writing
  <2>2. PICK put : job' = [job EXCEPT ![j] = At(b, b.phase, b.todo \ {r}, b.held, put)]
    BY <1>6 DEF ApiWrite, ApiMissing
  <2> DEFINE c == At(b, b.phase, b.todo \ {r}, b.held, put)
             rest == IF b.phase = "writeText" THEN b.held ELSE {}
  <2>3. Ahead(b) = b.todo \cup rest BY <1>0, <2>1 DEF Ahead
  <2>4. Ahead(c) = (b.todo \ {r}) \cup rest BY <1>0, <2>1 DEF Ahead, At
  <2>5. Shaped(c) BY <1>11, <2>1 DEF Shaped, At, ApiPhase
  <2>6. r \in b.items /\ r \notin rest BY <1>11, <2>1 DEF Shaped, ApiPhase
  <2>7. \A s \in Row : status'[s] # status[s] => s = r
    BY <1>6 DEF ApiWrite, ApiMissing, Complete, SetStatus, markFailed
  <2>8. status'[r] # "processing"
    <3>1. CASE r \notin alive
      BY <1>6, <3>1 DEF ApiWrite, ApiMissing, Complete, SetStatus, markFailed, Writable, alive, Live
    <3>2. CASE r \in alive /\ ApiMissing(j, r)
      BY <3>2 DEF ApiMissing, markFailed, SetStatus
    <3>3. CASE r \in alive /\ ApiWrite(j, r)
      <4>1. Writable(r, CallModel(j)) BY <2>1, <2>6, <3>3, BatchWritable
      <4>2. QED BY <3>3, <4>1 DEF ApiWrite, Complete, SetStatus
    <3>4. QED BY <1>6, <3>1, <3>2, <3>3
  <2> HIDE DEF c, rest
  <2>9. Carries(j, c)
    <3>1. Ahead(c) \subseteq Ahead(b) BY <2>3, <2>4
    <3>2. r \in Ahead(b) \ Ahead(c) BY <2>1, <2>3, <2>4, <2>6
    <3>3. \A s \in Ahead(b) \ Ahead(c) : s = r BY <2>3, <2>4
    <3>4. job' = [job EXCEPT ![j] = c] BY <2>2 DEF c
    <3>5. QED BY <2>1, <2>5, <2>7, <2>8, <3>1, <3>2, <3>3, <3>4, Handled
  <2>10. QED BY <2>9
<1>7. CASE ApiCache(j)
  <2> DEFINE c == At(b, b.phase, b.todo, b.held, {})
  <2>1. job' = [job EXCEPT ![j] = c] /\ status' = status /\ after' = after
    BY <1>7 DEF ApiCache, rowVars
  <2>2. Ahead(c) = Ahead(b) BY DEF Ahead, At
  <2>3. Shaped(c) BY <1>11 DEF Shaped, At
  <2> HIDE DEF c
  <2>4. Carries(j, c) BY <2>1, <2>2, <2>3, Moves
  <2>5. QED BY <2>4
<1>8. ASSUME NEW k \in Slot, NEW rows \in SUBSET Row, ApiSplit(j, k, rows)
      PROVE \E c, d : Hands(j, k, c, d)
  <2> DEFINE c == At(b, "split", b.todo \ rows, {}, {})
             d == NewJob("api", rows)
  <2>1. b.kind = "api" /\ b.phase = "split" /\ IsFree(k) /\ ~IsFree(j) /\ rows \subseteq b.todo
        /\ status' = status /\ after' = after /\ job' = [job EXCEPT ![k] = d, ![j] = c]
    BY <1>8 DEF ApiSplit, Is, rowVars, IsFree
  <2>2. \A r, s \in rows : ModelOf[r] = ModelOf[s] BY <1>11, <2>1 DEF Shaped, ApiPhase
  <2>3. Ahead(b) = b.todo BY <1>0, <2>1 DEF Ahead
  <2>4. Ahead(c) = b.todo \ rows BY <1>0 DEF Ahead, At
  <2>5. Shaped(c) BY <1>11, <2>1 DEF Shaped, At, ApiPhase
  <2>6. Ahead(d) = rows /\ Shaped(d) BY <2>2, AheadOf DEF NewJob
  <2> HIDE DEF c, d
  <2>7. Hands(j, k, c, d) BY <2>1, <2>3, <2>4, <2>5, <2>6 DEF Hands
  <2>8. QED BY <2>7
<1>9. CASE ApiSplitEnd(j)
  <2>1. b.phase = "split" /\ b.todo = {} /\ status' = status /\ after' = after
        /\ job' = [job EXCEPT ![j] = Done(b)]
    BY <1>9 DEF ApiSplitEnd, Is, rowVars
  <2>2. Ahead(b) = {} BY <2>1 DEF Ahead
  <2>3. Carries(j, Done(b)) BY <1>11, <2>1, <2>2, AheadOf, Moves
  <2>4. QED BY <2>3
<1>12. QED
  BY <1>1, <1>2, <1>3, <1>4, <1>5, <1>6, <1>7, <1>8, <1>9 DEF ApiStep

(* Whatever step is taken in calm, all claimed rows stay answered for, and *)
(* without images no complete row is lost.                                 *)
LEMMA StepAnswered ==
  ASSUME TypeOK, Dispatched, Answered, [Next]_vars, calm'
  PROVE  Answered' /\ KeepsComplete
<1>1. CASE \E r \in Row : RequestStep(r) \/ Age(r) BY <1>1, RequestAnswered
<1>2. ASSUME job' = job, status' = status, after' = after PROVE Answered' /\ KeepsComplete
  BY <1>2, RowsAnswered DEF KeepsComplete, Answered
<1>3. CASE OperatorStep
  <2>1. ~\E rows \in SUBSET Row : RetryFailed(rows) BY DEF RetryFailed
  <2>2. RepairImageFallbacks BY <1>3, <2>1 DEF OperatorStep
  <2>3. QED BY <1>2, <2>2 DEF RepairImageFallbacks
<1>4. CASE \E m \in Model : CooldownEnds(m) \/ SyncPushback(m)
  BY <1>2, <1>4 DEF CooldownEnds, SyncPushback, rowVars
<1>5. CASE SweepRecover
  BY <1>5 DEF SweepRecover
<1>6. ASSUME NEW j \in Slot, NEW b, Carries(j, b) PROVE Answered' /\ KeepsComplete
  BY <1>6, CarriesAnswered DEF Carries
<1>7. ASSUME NEW j \in Slot, NEW k \in Slot, NEW b, NEW c, Hands(j, k, b, c)
      PROVE  Answered' /\ KeepsComplete
  BY <1>7, HandsAnswered
<1>8. ASSUME NEW k \in Slot, SweepDiscover(k) PROVE Answered' /\ KeepsComplete
  <2> DEFINE b == NewJob("strategy", {})
  <2>1. job' = [job EXCEPT ![k] = b] /\ status' = status /\ after' = after /\ IsFree(k)
    BY <1>8 DEF SweepDiscover, rowVars
  <2>2. Ahead(job[k]) = {} BY <2>1 DEF Ahead, IsFree
  <2>3. Ahead(b) = {} /\ Shaped(b) BY AheadOf DEF NewJob
  <2> HIDE DEF b
  <2>4. Carries(k, b) BY <2>1, <2>2, <2>3, Moves
  <2>5. QED BY <1>6, <2>4
<1>9. ASSUME NEW j \in Slot, HandlerStep(j) PROVE Answered' /\ KeepsComplete
  <2>1. CASE StrategyStep(j) BY <1>6, <1>7, <2>1, StrategyAnswered
  <2>2. CASE CheckStep(j) BY <1>6, <1>7, <2>2, CheckAnswered
  <2>3. CASE ApiStep(j) BY <1>6, <1>7, <2>3, ApiStepAnswered
  <2>4. CASE Ack(j)
    <3>1. job[j].phase = "done" /\ job' = [job EXCEPT ![j] = FreeSlot]
          /\ status' = status /\ after' = after
      BY <2>4 DEF Ack, rowVars
    <3>2. Ahead(job[j]) = {} BY <3>1 DEF Ahead
    <3>3. Carries(j, FreeSlot) BY <3>1, <3>2, AheadOf, Moves
    <3>4. QED BY <1>6, <3>3
  <2>5. QED BY <1>9, <2>1, <2>2, <2>3, <2>4 DEF HandlerStep
<1>10. ASSUME NEW j \in Slot, FaultStep(j) PROVE Answered' /\ KeepsComplete
  <2>1. ApiPushback(j) BY <1>10 DEF FaultStep, ApiWriteError, Crash, Expire
  <2>2. QED BY <1>6, <2>1, PushbackAnswered
<1>11. CASE UNCHANGED vars
  BY <1>2, <1>11 DEF vars
<1>12. QED
  BY <1>1, <1>3, <1>4, <1>5, <1>8, <1>9, <1>10, <1>11 DEF Next

(* calm, once gone, does not come back.                                    *)
LEMMA CalmEnds == ASSUME [Next]_vars, calm' = TRUE PROVE calm = TRUE
<1>1. CASE \E r \in Row : RequestStep(r) \/ Age(r)
  BY <1>1 DEF RequestStep, StubRow, SyncEmbed, SyncRow, AfterCommitWrite, AfterCommitCache,
              AfterCommitLost, DeleteRow, Age
<1>2. CASE OperatorStep \/ SweepRecover
  BY <1>2 DEF OperatorStep, RetryFailed, RepairImageFallbacks, SweepRecover
<1>3. CASE (\E m \in Model : CooldownEnds(m) \/ SyncPushback(m)) \/ (\E k \in Slot : SweepDiscover(k))
  BY <1>3 DEF CooldownEnds, SyncPushback, SweepDiscover
<1>4. ASSUME NEW j \in Slot, HandlerStep(j) PROVE calm = TRUE
  <2>1. CASE StrategyStep(j)
    BY <2>1 DEF StrategyStep, StrategyList, StrategyClaim, StrategySend, StrategyEnd
  <2>2. CASE CheckStep(j)
    BY <2>2 DEF CheckStep, CheckLoad, CheckLookup, CheckForward, CheckEnd
  <2>3. CASE ApiStep(j)
    BY <2>3 DEF ApiStep, ApiLoad, ApiImage, ApiNext, ApiAnswered, ApiRefused, ApiWrite,
                ApiMissing, ApiCache, ApiSplit, ApiSplitEnd
  <2>4. CASE Ack(j) BY <2>4 DEF Ack
  <2>5. QED BY <1>4, <2>1, <2>2, <2>3, <2>4 DEF HandlerStep
<1>5. ASSUME NEW j \in Slot, FaultStep(j) PROVE calm = TRUE
  BY <1>5 DEF FaultStep, ApiPushback, ApiWriteError, Crash, Expire
<1>6. CASE UNCHANGED vars BY <1>6 DEF vars
<1>7. QED BY <1>1, <1>2, <1>3, <1>4, <1>5, <1>6 DEF Next

LEMMA AnsweredInvariant == Spec => [](calm => Answered)
<1>1. Init => (calm => Answered)
  BY AheadOf DEF Init, Answered
<1>2. TypeOK /\ (calm => Dispatched) /\ (calm => Answered) /\ [Next]_vars => (calm' => Answered')
  BY StepAnswered, CalmEnds DEF TypeOK
<1>3. QED BY <1>1, <1>2, TypeCorrect, DispatchedInvariant, PTL DEF Spec

(* While nothing has been killed, outlived its lease or been taken for     *)
(* dead, every claimed row is in the hands of a job that is still to       *)
(* answer for it: only a crash needs the ten-minute recovery.              *)
THEOREM NoneStranded == Spec => []NoRowStranded
<1>1. TypeOK /\ (calm => Answered) => NoRowStranded
  <2> SUFFICES ASSUME TypeOK, Answered PROVE NoRowStranded BY DEF NoRowStranded
  <2>1. \A j \in Slot : Ahead(job[j]) \subseteq Owned(j) BY AheadIsOwned
  <2>2. QED BY <2>1 DEF NoRowStranded, Answered
<1>2. QED BY <1>1, TypeCorrect, AnsweredInvariant, PTL

(* Without images and in calm, a complete row leaves search only by its    *)
(* deletion: no refused batch, release or late write of a job takes it.    *)
THEOREM TextStaysComplete == Spec => CompleteIsFinalForText
<1>1. TypeOK /\ (calm => Dispatched) /\ (calm => Answered) /\ [Next]_vars =>
        [\A r \in Row : calm' /\ Image = {} /\ status[r] = "complete"
           => status'[r] \in {"complete", "deleted"}]_vars
  BY StepAnswered, CalmEnds DEF TypeOK, KeepsComplete
<1>2. QED
  BY <1>1, TypeCorrect, DispatchedInvariant, AnsweredInvariant, PTL DEF Spec, CompleteIsFinalForText
=============================================================================
