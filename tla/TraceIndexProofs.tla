-------------------------- MODULE TraceIndexProofs --------------------------
(***************************************************************************)
(* That the search index agrees with the recipes, for any number of        *)
(* recipes, books, strategies and handlers: every source belongs to a      *)
(* recipe that exists and is filed in that recipe's book.  No foreign key  *)
(* says so.  What does is that the backfill inserts under the trace's row  *)
(* lock: a delete that has read which sources there are still holds all    *)
(* there are when it commits (HoldsAll).                                   *)
(* Of the evidence: an entry is searchable as long as a recipe is linked   *)
(* to it, and in that recipe's book, where no entry has two recipes.       *)
(* Then, that all this is what RecipeIndex promises, step by step, and two *)
(* facts that follow from the promise: evidence in use stays searchable,   *)
(* and nothing but a redaction leaves text without its evidence.           *)
(***************************************************************************)
EXTENDS TraceIndex, TLAPS

(* A delete about to commit has deleted every source of its trace.         *)
HoldsAll == \A t \in Trace : del[t].phase = "sources" => ChainsOf(t) \subseteq del[t].held

(* Nobody deletes what was never there.                                    *)
DeletesExisting == \A t \in Trace : del[t] # NoDelete => book[t] # Absent

(* A handler past the read works on a trace; in the middle of a chain it   *)
(* has a source that no other handler has, with rows still to insert.      *)
HandlerAims ==
  /\ \A w \in Worker : check[w].phase = "insert" => check[w].trace \in Trace
  /\ \A w \in Worker : check[w].phase = "chain" =>
       /\ check[w].src \in Src
       /\ src[check[w].src].state # "free"
       /\ src[check[w].src].rows \in 0..2
  /\ \A v, w \in Worker : check[v].phase = "chain" /\ check[w].phase = "chain"
                            /\ check[v].src = check[w].src => v = w

Agrees == NoOrphans /\ SourcesInTraceBook

IndexInv == TypeOK /\ HandlerAims /\ HoldsAll /\ DeletesExisting /\ Agrees

-----------------------------------------------------------------------------
LEMMA InitHolds == Init => IndexInv
BY IndexAssumption DEF Init, IndexInv, TypeOK, HandlerAims, HoldsAll, DeletesExisting, Agrees,
   NoOrphans,    SourcesInTraceBook, FreeSource, Chain, Idle, Handler, NoDelete, At, Delete, NoMove, Move, Present

(* A handler that goes on, or stops, is a handler that inserts nothing.    *)
LEMMA NextTraceType ==
  ASSUME NEW h \in Handler
  PROVE  NextTrace(h) \in Handler /\ NextTrace(h).phase \in {"idle", "read"}
BY DEF NextTrace, Idle, Handler

(* Every action keeps every variable in its type.                          *)
LEMMA TypeStep == ASSUME TypeOK, HandlerAims, [Next]_vars PROVE TypeOK'
<1> USE IndexAssumption DEF TypeOK
<1>1. ASSUME NEW t \in Trace, NEW b \in Book, NEW entries \in SUBSET Unborn,
             NEW d \in BOOLEAN, Deposit(t, b, entries, d)
      PROVE  TypeOK'
  <2>1. Unborn \subseteq Evidence
    BY DEF Unborn
  <2>2. src' \in [Src -> Chain]
    <3>1. PICK id \in [DepositStrategies -> FreeSrc] :
            src' = [k \in Src |->
              IF \E s \in DepositStrategies : id[s] = k
              THEN LET s == CHOOSE z \in DepositStrategies : id[z] = k
                   IN Source(t, s, b, IF s \in WithEvidence THEN entries ELSE {}, 3)
              ELSE src[k]]
      BY <1>1 DEF Deposit
    <3>2. \A s \in DepositStrategies :
            Source(t, s, b, IF s \in WithEvidence THEN entries ELSE {}, 3) \in Chain
      BY <2>1 DEF Source, Chain
    <3> QED BY <3>1, <3>2
  <2>3. UNCHANGED <<check, del, move, look, crashes>>
    BY <1>1 DEF Deposit
  <2>4. /\ book' \in [Trace -> Book \cup {Absent, Gone}]
        /\ draft' \subseteq Trace
        /\ link' \subseteq Trace \X Evidence
        /\ home' \in [Evidence -> Book \cup {Absent, Gone}]
    BY <1>1, <2>1 DEF Deposit
  <2> QED BY <2>2, <2>3, <2>4
<1>2. ASSUME NEW ts \in SUBSET Trace, NEW b \in Book, NEW ls \in SUBSET (ts \X Unborn),
             NEW ds \in SUBSET ts, Import(ts, b, ls, ds)
      PROVE  TypeOK'
  BY <1>2 DEF Import, Unborn
<1>3. ASSUME NEW w \in Worker, NEW t \in Trace, ReadEvidence(w, t) PROVE TypeOK'
  <2>1. TextOf(check[w].strategy, t) \subseteq Evidence
    BY DEF TextOf, EvidenceOf
  <2> QED BY <1>3, <2>1 DEF ReadEvidence, Handler, rowVars
<1>4. ASSUME NEW w \in Worker, InsertSource(w) PROVE TypeOK'
  <2> DEFINE h == check[w]
  <2>1. h \in Handler /\ h.phase = "insert" /\ h.trace \in Trace
    BY <1>4 DEF InsertSource, HandlerAims
  <2>2. CASE MayInsertFor(h.trace)
    <3>1. PICK k \in FreeSrc :
            /\ src' = [src EXCEPT ![k] = SourceFor(h)]
            /\ check' = [check EXCEPT ![w] = [h EXCEPT !.phase = "chain", !.src = k]]
      BY <1>4, <2>2 DEF InsertSource
    <3>2. k \in Src
      BY DEF FreeSrc
    <3>3. SourceFor(h) \in Chain
      BY <2>1, <2>2 DEF SourceFor, Source, Chain, Handler, MayInsertFor, Present
    <3>4. [h EXCEPT !.phase = "chain", !.src = k] \in Handler
      BY <2>1, <3>2 DEF Handler
    <3> QED BY <1>4, <3>1, <3>2, <3>3, <3>4 DEF InsertSource
  <2>3. CASE ~MayInsertFor(h.trace)
    BY <1>4, <2>1, <2>3, NextTraceType DEF InsertSource
  <2> QED BY <2>2, <2>3
<1>5. ASSUME NEW w \in Worker, InsertChain(w) PROVE TypeOK'
  <2> DEFINE h == check[w]
  <2>1. h \in Handler /\ h.src \in Src /\ src[h.src].rows \in 0..2
    BY <1>5 DEF InsertChain, HandlerAims
  <2>2. src' \in [Src -> Chain]
    BY <1>5, <2>1 DEF InsertChain, Chain
  <2>3. check' \in [Worker -> Handler]
    <3>1. NextTrace(h) \in Handler /\ Idle \in Handler
      BY <2>1, NextTraceType DEF Idle, Handler
    <3> QED BY <1>5, <2>1, <3>1 DEF InsertChain
  <2> QED BY <1>5, <2>2, <2>3 DEF InsertChain
<1>6. ASSUME NEW w \in Worker, Crash(w) PROVE TypeOK'
  BY <1>6 DEF Crash, Idle, Handler, rowVars
<1>7. ASSUME NEW w \in Worker, NEW s \in Strategy, ListMissing(w, s) PROVE TypeOK'
  BY <1>7 DEF ListMissing, Missing, Present, Handler, rowVars
<1>8. ASSUME NEW t \in Trace, DeleteStep(t) PROVE TypeOK'
  <2> DEFINE d == del[t]
  <2>1. d \in Delete
    OBVIOUS
  <2>2. \A p \in {"refused", "failed", "done"} : Ended(d, p) \in Delete
    BY <2>1 DEF Ended, At, Delete
  <2>3. ChainsOf(t) \subseteq Src /\ \A n \in 0..3 : Reached(t, n) \subseteq Src
    BY DEF ChainsOf, Reached
  <2>4. LastLinkOf(t, EvidenceOf(t)) \subseteq Evidence
    BY DEF LastLinkOf, EvidenceOf
  <2>5. CASE DeleteLock(t)
    BY <2>1, <2>2, <2>5 DEF DeleteLock, At, Delete, InTransaction, rowVars
  <2>6. CASE DeleteVectors(t)
    BY <2>1, <2>3, <2>6 DEF DeleteVectors, At, Delete, InTransaction, rowVars
  <2>7. CASE DeleteChunks(t)
    BY <2>1, <2>2, <2>3, <2>7 DEF DeleteChunks, DeleteLevel, At, Delete, InTransaction, rowVars
  <2>8. CASE DeleteStrategies(t)
    BY <2>1, <2>2, <2>3, <2>8 DEF DeleteStrategies, DeleteLevel, At, Delete, InTransaction, rowVars
  <2>9. CASE DeleteSources(t)
    BY <2>1, <2>2, <2>3, <2>4, <2>9 DEF DeleteSources, At, Delete, InTransaction, rowVars
  <2>10. CASE DeleteCommit(t)
    <3>1. src' \in [Src -> Chain]
      BY <2>10 DEF DeleteCommit, Chain
    <3> QED BY <2>2, <2>10, <3>1 DEF DeleteCommit
  <2> QED BY <1>8, <2>5, <2>6, <2>7, <2>8, <2>9, <2>10 DEF DeleteStep
<1>9. ASSUME NEW t \in Trace, Request(t) PROVE TypeOK'
  <2>1. ASSUME NEW by \in Book \cup {None}, DeleteAsk(t, by) PROVE TypeOK'
    BY <2>1 DEF DeleteAsk, At, Delete, rowVars
  <2>2. ASSUME NEW to \in Book, MoveAsk(t, to) PROVE TypeOK'
    BY <2>2 DEF MoveAsk, Move, Present, rowVars
  <2>3. CASE MoveRefused(t)
    BY <2>3 DEF MoveRefused, NoMove, Move, rowVars
  <2>4. ASSUME NEW drop \in SUBSET Evidence, MoveTrace(t, drop) PROVE TypeOK'
    <3>1. move[t].to \in Book
      BY <2>4 DEF MoveTrace, MayMove, Present, Move, NoMove
    <3>2. src' \in [Src -> Chain]
      BY <2>4, <3>1 DEF MoveTrace, Refiled, Chain
    <3> QED BY <2>4, <3>1, <3>2 DEF MoveTrace, HomeAfterMove, NoMove, Move
  <2>5. CASE VerifyLook(t)
    BY <2>5 DEF VerifyLook, rowVars
  <2>6. ASSUME NEW fresh \in SUBSET Evidence, VerifyResolve(t, fresh) PROVE TypeOK'
    BY <2>6 DEF VerifyResolve
  <2>7. CASE VerifyRefused(t)
    BY <2>7 DEF VerifyRefused, rowVars
  <2> QED BY <1>9, <2>1, <2>2, <2>3, <2>4, <2>5, <2>6, <2>7 DEF Request
<1>10. CASE UNCHANGED vars
  BY <1>10 DEF vars
<1>11. CASE New
  <2>1. CASE \E t \in Trace, b \in Book, entries \in SUBSET Unborn, d \in BOOLEAN :
               Deposit(t, b, entries, d)
    <3>1. PICK t \in Trace, b \in Book, entries \in SUBSET Unborn, d \in BOOLEAN :
                 Deposit(t, b, entries, d)
      BY <2>1
    <3> HIDE DEF TypeOK
    <3> QED BY <3>1, <1>1
  <2>2. CASE \E ts \in SUBSET Trace, b \in Book :
               \E ls \in SUBSET (ts \X Unborn), ds \in SUBSET ts : Import(ts, b, ls, ds)
    BY <2>2, <1>2
  <2> QED BY <1>11, <2>1, <2>2 DEF New
<1>12. ASSUME NEW w \in Worker, Backfill(w) PROVE TypeOK'
  BY <1>12, <1>3, <1>4, <1>5 DEF Backfill
<1> QED BY <1>6, <1>7, <1>8, <1>9, <1>10, <1>11, <1>12 DEF Next

-----------------------------------------------------------------------------
(* Which steps touch a chain, and how.  A live chain appears for a trace   *)
(* that is being created, or under the row lock of one that exists.        *)
SameChain(k) == src'[k].state = src[k].state /\ src'[k].trace = src[k].trace
                  /\ src'[k].rows = src[k].rows

(* A deposit leaves every chain that is not free as it is, and its own     *)
(* chains are of its trace and in its book.                                *)
LEMMA DepositChains ==
  ASSUME TypeOK, NEW t \in Trace, NEW b \in Book, NEW entries \in SUBSET Unborn,
         NEW d \in BOOLEAN, Deposit(t, b, entries, d), NEW k \in Src
  PROVE  \/ src'[k] = src[k]
         \/ src[k].state = "free" /\ src'[k].trace = t /\ src'[k].book = b
<1>1. PICK id \in [DepositStrategies -> FreeSrc] :
        src' = [j \in Src |->
          IF \E s \in DepositStrategies : id[s] = j
          THEN LET s == CHOOSE z \in DepositStrategies : id[z] = j
               IN Source(t, s, b, IF s \in WithEvidence THEN entries ELSE {}, 3)
          ELSE src[j]]
  BY DEF Deposit
<1>2. CASE \E s \in DepositStrategies : id[s] = k
  <2>1. k \in FreeSrc
    BY <1>2
  <2>2. \E s : src'[k] = Source(t, s, b, IF s \in WithEvidence THEN entries ELSE {}, 3)
    BY <1>1, <1>2
  <2> QED BY <2>1, <2>2 DEF FreeSrc, Source
<1>3. CASE ~\E s \in DepositStrategies : id[s] = k
  BY <1>1, <1>3
<1> QED BY <1>2, <1>3

(* The backfill's insert takes a free id, for a trace that exists and that *)
(* no delete has locked, and files the source in the trace's book.         *)
LEMMA InsertSourceChains ==
  ASSUME TypeOK, HandlerAims, NEW w \in Worker, InsertSource(w)
  PROVE  \/ /\ src' = src
            /\ check' = [check EXCEPT ![w] = NextTrace(check[w])]
         \/ \E k \in FreeSrc :
              /\ src' = [src EXCEPT ![k] = SourceFor(check[w])]
              /\ check' = [check EXCEPT ![w] = [check[w] EXCEPT !.phase = "chain", !.src = k]]
              /\ check[w].trace \in Present
              /\ ~Locked(check[w].trace)
BY DEF InsertSource, MayInsertFor

(* A chain's next row changes nothing else of it.                          *)
LEMMA InsertChainChains ==
  ASSUME TypeOK, HandlerAims, NEW w \in Worker, InsertChain(w), NEW k \in Src
  PROVE  /\ src'[k].state = src[k].state /\ src'[k].trace = src[k].trace
         /\ src'[k].book = src[k].book
         /\ k # check[w].src => src'[k] = src[k]
         /\ k = check[w].src /\ check'[w].phase = "chain" => src'[k].rows \in 0..2
<1>1. check[w].src \in Src /\ src[check[w].src].rows \in 0..2 /\ check[w] \in Handler
  BY DEF InsertChain, HandlerAims, TypeOK
<1>2. CASE src[check[w].src].state = "live"
  <2>1. src' = [src EXCEPT ![check[w].src].rows = src[check[w].src].rows + 1]
    BY <1>2 DEF InsertChain
  <2>2. src[k] \in Chain /\ src[check[w].src] \in Chain
    BY <1>1 DEF TypeOK
  <2>3. src[check[w].src].rows = 2 => check'[w].phase # "chain"
    <3>1. src[check[w].src].rows = 2 => check'[w] = NextTrace(check[w])
      BY <1>2 DEF InsertChain, TypeOK
    <3> QED BY <3>1, <1>1, NextTraceType
  <2> QED BY <1>1, <2>1, <2>2, <2>3 DEF Chain, TypeOK
<1>3. CASE src[check[w].src].state # "live"
  BY <1>1, <1>3 DEF InsertChain, Idle, TypeOK
<1> QED BY <1>2, <1>3

(* A move that was asked for names a book.                                 *)
LEMMA MoveGoesToABook ==
  ASSUME TypeOK, NEW t \in Trace, NEW drop, MoveTrace(t, drop)
  PROVE  move[t].to \in Book
BY DEF TypeOK, MoveTrace, Move, NoMove

(* A move changes nothing of a chain but the book of its trace's chains.   *)
LEMMA MoveChains ==
  ASSUME TypeOK, NEW t \in Trace, NEW drop, MoveTrace(t, drop), NEW k \in Src
  PROVE  /\ SameChain(k)
         /\ src[k].state = "live" /\ src[k].trace = t => src'[k].book = move[t].to
         /\ ~(src[k].state = "live" /\ src[k].trace = t) => src'[k].book = src[k].book
<1>1. src[k] \in Chain
  BY DEF TypeOK
<1>2. src'[k] = Refiled(src[k], t, move[t].to)
  BY DEF MoveTrace
<1> QED BY <1>1, <1>2 DEF Refiled, SameChain, Chain

(* A delete's commit changes nothing of a chain but the state of those the *)
(* transaction holds.                                                      *)
LEMMA CommitChains ==
  ASSUME TypeOK, NEW t \in Trace, DeleteCommit(t), NEW k \in Src
  PROVE  /\ k \in del[t].held => src'[k].state = "dead"
         /\ k \notin del[t].held => src'[k].state = src[k].state
         /\ src'[k].trace = src[k].trace /\ src'[k].rows = src[k].rows
         /\ src'[k].book = src[k].book
BY DEF TypeOK, DeleteCommit, Chain

-----------------------------------------------------------------------------
(* The handlers aim right after every step.                                *)
LEMMA HandlerStep == ASSUME TypeOK, HandlerAims, [Next]_vars PROVE HandlerAims'
<1> USE DEF TypeOK
<1>1. ASSUME check' = check,
             \A k \in Src : src[k].state # "free" =>
               src'[k].state # "free" /\ src'[k].rows = src[k].rows
      PROVE  HandlerAims'
  BY <1>1 DEF HandlerAims
<1>2. ASSUME NEW w \in Worker, NEW h, check' = [check EXCEPT ![w] = h], src' = src,
             h.phase \in {"idle", "read", "insert"}, h.phase = "insert" => h.trace \in Trace
      PROVE  HandlerAims'
  BY <1>2 DEF HandlerAims
<1>3. ASSUME NEW t \in Trace, NEW b \in Book, NEW entries \in SUBSET Unborn,
             NEW d \in BOOLEAN, Deposit(t, b, entries, d)
      PROVE  HandlerAims'
  <2>1. check' = check
    BY <1>3 DEF Deposit
  <2>2. \A k \in Src : src[k].state # "free" => src'[k] = src[k]
    <3> HIDE DEF TypeOK
    <3> QED BY <1>3, DepositChains
  <2> QED BY <1>1, <2>1, <2>2
<1>4. ASSUME NEW w \in Worker, NEW t \in Trace, ReadEvidence(w, t) PROVE HandlerAims'
  BY <1>4 DEF ReadEvidence, rowVars, HandlerAims
<1>5. ASSUME NEW w \in Worker, InsertSource(w) PROVE HandlerAims'
  <2>1. CASE src' = src /\ check' = [check EXCEPT ![w] = NextTrace(check[w])]
    <3>1. NextTrace(check[w]).phase \in {"idle", "read"}
      BY NextTraceType
    <3> QED BY <1>2, <2>1, <3>1
  <2>2. ASSUME NEW k \in FreeSrc, src' = [src EXCEPT ![k] = SourceFor(check[w])],
               check' = [check EXCEPT ![w] = [check[w] EXCEPT !.phase = "chain", !.src = k]]
        PROVE  HandlerAims'
    <3>1. k \in Src /\ src[k].state = "free"
      BY DEF FreeSrc
    <3>2. SourceFor(check[w]).state = "live" /\ SourceFor(check[w]).rows = 0
      BY DEF SourceFor, Source
    <3>3. check'[w].phase = "chain" /\ check'[w].src = k
      BY <2>2 DEF Handler
    <3>4. \A v \in Worker : v # w => check'[v] = check[v]
      BY <2>2
    <3>5. \A v \in Worker : check[v].phase = "chain" => check[v].src # k
      BY <3>1 DEF HandlerAims
    <3>6. \A j \in Src : j # k => src'[j] = src[j]
      BY <2>2
    <3>7. src'[k] = SourceFor(check[w])
      BY <2>2, <3>1
    <3> HIDE DEF TypeOK
    <3> QED BY <3>1, <3>2, <3>3, <3>4, <3>5, <3>6, <3>7 DEF HandlerAims
  <2> HIDE DEF TypeOK
  <2> QED BY <1>5, <2>1, <2>2, InsertSourceChains
<1>6. ASSUME NEW w \in Worker, InsertChain(w) PROVE HandlerAims'
  <2>1. check[w].phase = "chain" /\ check[w].src \in Src /\ check[w] \in Handler
    BY <1>6 DEF InsertChain, HandlerAims
  <2>2. \A v \in Worker : v # w => check'[v] = check[v]
    BY <1>6 DEF InsertChain
  <2>3. check'[w] \in {check[w], NextTrace(check[w]), Idle}
    BY <1>6 DEF InsertChain
  <2>4. check'[w].phase = "chain" => check'[w] = check[w]
    BY <2>1, <2>3, NextTraceType DEF Idle
  <2>5. check'[w].phase # "insert"
    BY <2>1, <2>3, NextTraceType DEF Idle
  <2>6. \A k \in Src : src'[k].state = src[k].state
    <3> HIDE DEF TypeOK
    <3> QED BY <1>6, InsertChainChains
  <2>7. \A k \in Src : k # check[w].src => src'[k] = src[k]
    <3> HIDE DEF TypeOK
    <3> QED BY <1>6, InsertChainChains
  <2>8. check'[w].phase = "chain" => src'[check[w].src].rows \in 0..2
    <3> HIDE DEF TypeOK
    <3> QED BY <1>6, <2>1, InsertChainChains
  <2>9. \A v \in Worker : v # w /\ check[v].phase = "chain" => check[v].src # check[w].src
    BY <2>1 DEF HandlerAims
  <2> HIDE DEF TypeOK
  <2> QED BY <2>1, <2>2, <2>4, <2>5, <2>6, <2>7, <2>8, <2>9 DEF HandlerAims
<1>7. ASSUME NEW w \in Worker, Crash(w) PROVE HandlerAims'
  BY <1>7, <1>2 DEF Crash, Idle, rowVars
<1>8. ASSUME NEW w \in Worker, NEW s \in Strategy, ListMissing(w, s) PROVE HandlerAims'
  BY <1>8, <1>2 DEF ListMissing, rowVars
<1>9. ASSUME NEW t \in Trace, DeleteStep(t) PROVE HandlerAims'
  <2>1. CASE DeleteCommit(t)
    <3>1. check' = check
      BY <2>1 DEF DeleteCommit
    <3>2. \A k \in Src : src[k].state # "free" =>
                           src'[k].state # "free" /\ src'[k].rows = src[k].rows
      <4> HIDE DEF TypeOK
      <4> QED BY <2>1, CommitChains
    <3> QED BY <1>1, <3>1, <3>2
  <2>2. CASE ~DeleteCommit(t)
    <3>1. UNCHANGED <<src, check>>
      BY <1>9, <2>2 DEF DeleteStep, DeleteLock, DeleteVectors, DeleteChunks, DeleteStrategies,
         DeleteLevel, DeleteSources, rowVars
    <3> QED BY <1>1, <3>1
  <2> QED BY <2>1, <2>2
<1>10. ASSUME NEW t \in Trace, Request(t) PROVE HandlerAims'
  <2>1. check' = check
    BY <1>10 DEF Request, DeleteAsk, MoveAsk, MoveRefused, MoveTrace, VerifyLook,
       VerifyResolve, VerifyRefused
  <2>2. CASE src' = src
    BY <1>1, <2>1, <2>2
  <2>3. ASSUME NEW drop, MoveTrace(t, drop) PROVE HandlerAims'
    <3>1. \A k \in Src : SameChain(k)
      <4> HIDE DEF TypeOK
      <4> QED BY <2>3, MoveChains
    <3> QED BY <1>1, <2>1, <3>1 DEF SameChain
  <2> QED BY <1>10, <2>2, <2>3 DEF Request, DeleteAsk, MoveAsk, MoveRefused, VerifyLook,
       VerifyResolve, VerifyRefused, rowVars
<1>11. CASE New
  <2>1. CASE UNCHANGED <<src, check>>
    BY <1>1, <2>1
  <2>2. CASE \E t \in Trace, b \in Book, entries \in SUBSET Unborn, d \in BOOLEAN :
               Deposit(t, b, entries, d)
    <3>1. PICK t \in Trace, b \in Book, entries \in SUBSET Unborn, d \in BOOLEAN :
                 Deposit(t, b, entries, d)
      BY <2>2
    <3> HIDE DEF TypeOK
    <3> QED BY <3>1, <1>3
  <2> QED BY <1>11, <2>1, <2>2 DEF New, Import
<1>12. ASSUME NEW w \in Worker, Backfill(w) PROVE HandlerAims'
  BY <1>12, <1>4, <1>5, <1>6 DEF Backfill
<1>13. CASE UNCHANGED vars
  BY <1>1, <1>13 DEF vars
<1> QED BY <1>7, <1>8, <1>9, <1>10, <1>11, <1>12, <1>13 DEF Next

-----------------------------------------------------------------------------
(* A delete about to commit still holds every source of its trace: while   *)
(* it is locked nobody adds one.                                           *)
LEMMA HoldsStep ==
  ASSUME IndexInv, [Next]_vars
  PROVE  HoldsAll' /\ DeletesExisting'
<1> USE IndexAssumption DEF IndexInv
<1>1. ASSUME del' = del, \A t \in Trace : book'[t] = Absent => book[t] = Absent,
             \A k \in Src : src'[k].state = "live" =>
               \/ src[k].state = "live" /\ src'[k].trace = src[k].trace
               \/ book[src'[k].trace] = Absent
               \/ ~Locked(src'[k].trace)
      PROVE  HoldsAll' /\ DeletesExisting'
  <2>1. \A t \in Trace : del[t].phase = "sources" => Locked(t) /\ del[t] # NoDelete
    BY DEF Locked, LockedBy, InTransaction, NoDelete, At
  <2>2. ASSUME NEW t \in Trace, del[t].phase = "sources", NEW k \in ChainsOf(t)'
        PROVE  k \in del[t].held
    <3>1. k \in Src /\ src'[k].state = "live" /\ src'[k].trace = t
      BY <2>2 DEF ChainsOf
    <3>2. Locked(t) /\ book[t] # Absent
      BY <2>1, <2>2 DEF DeletesExisting
    <3>3. k \in ChainsOf(t)
      BY <1>1, <3>1, <3>2 DEF ChainsOf
    <3> QED BY <2>2, <3>3 DEF HoldsAll
  <2>3. HoldsAll'
    BY <1>1, <2>2 DEF HoldsAll
  <2> QED BY <1>1, <2>3 DEF DeletesExisting
<1>2. ASSUME src' = src, book' = book, NEW t \in Trace, NEW d, del' = [del EXCEPT ![t] = d],
             book[t] # Absent, d.phase = "sources" => d.held = ChainsOf(t)
      PROVE  HoldsAll' /\ DeletesExisting'
  <2>1. \A u \in Trace : ChainsOf(u)' = ChainsOf(u)
    BY <1>2 DEF ChainsOf
  <2>2. del'[t] = d /\ \A u \in Trace : u # t => del'[u] = del[u]
    BY <1>2 DEF TypeOK
  <2> QED BY <1>2, <2>1, <2>2 DEF HoldsAll, DeletesExisting
<1>3. ASSUME NEW t \in Trace, NEW b \in Book, NEW entries \in SUBSET Unborn,
             NEW d \in BOOLEAN, Deposit(t, b, entries, d)
      PROVE  HoldsAll' /\ DeletesExisting'
  <2>1. del' = del /\ book[t] = Absent /\ book' = [book EXCEPT ![t] = b]
    BY <1>3 DEF Deposit
  <2>2. \A u \in Trace : book'[u] = Absent => book[u] = Absent
    BY <2>1 DEF TypeOK
  <2>3. \A k \in Src : src'[k] = src[k] \/ src'[k].trace = t
    BY <1>3, DepositChains
  <2> QED BY <1>1, <2>1, <2>2, <2>3
<1>4. ASSUME NEW ts \in SUBSET Trace, NEW b \in Book, NEW ls \in SUBSET (ts \X Unborn),
             NEW ds \in SUBSET ts, Import(ts, b, ls, ds)
      PROVE  HoldsAll' /\ DeletesExisting'
  BY <1>1, <1>4 DEF Import, TypeOK
<1>5. ASSUME NEW w \in Worker, Backfill(w) PROVE HoldsAll' /\ DeletesExisting'
  <2>1. del' = del /\ book' = book
    BY <1>5 DEF Backfill, ReadEvidence, InsertSource, InsertChain, rowVars
  <2>2. CASE src' = src
    BY <1>1, <2>1, <2>2
  <2>3. CASE InsertSource(w)
    <3>1. ASSUME NEW k \in FreeSrc, src' = [src EXCEPT ![k] = SourceFor(check[w])],
                 ~Locked(check[w].trace)
          PROVE  HoldsAll' /\ DeletesExisting'
      <4>1. k \in Src /\ SourceFor(check[w]).trace = check[w].trace
        BY DEF FreeSrc, SourceFor, Source
      <4>2. \A j \in Src : src'[j] = IF j = k THEN SourceFor(check[w]) ELSE src[j]
        BY <3>1, <4>1 DEF TypeOK
      <4> QED BY <1>1, <2>1, <3>1, <4>1, <4>2
    <3> QED BY <2>2, <2>3, <3>1, InsertSourceChains
  <2>4. CASE InsertChain(w)
    <3>1. \A k \in Src : src'[k].state = src[k].state /\ src'[k].trace = src[k].trace
      BY <2>4, InsertChainChains
    <3> QED BY <1>1, <2>1, <3>1
  <2> QED BY <1>5, <2>2, <2>3, <2>4 DEF Backfill, ReadEvidence, rowVars
<1>6. ASSUME NEW t \in Trace, DeleteStep(t) PROVE HoldsAll' /\ DeletesExisting'
  <2>1. del[t] # NoDelete
    BY <1>6 DEF DeleteStep, DeleteLock, DeleteVectors, DeleteChunks, DeleteStrategies,
       DeleteLevel, DeleteSources, DeleteCommit, NoDelete, At
  <2>2. book[t] # Absent
    BY <2>1 DEF DeletesExisting
  <2>3. CASE DeleteLock(t)
    BY <1>2, <2>2, <2>3 DEF DeleteLock, At, Ended, rowVars
  <2>4. CASE DeleteVectors(t)
    BY <1>2, <2>2, <2>4 DEF DeleteVectors, At, rowVars
  <2>5. CASE DeleteChunks(t)
    BY <1>2, <2>2, <2>5 DEF DeleteChunks, DeleteLevel, At, Ended, rowVars
  <2>6. CASE DeleteStrategies(t)
    BY <1>2, <2>2, <2>6 DEF DeleteStrategies, DeleteLevel, At, Ended, rowVars
  <2>7. CASE DeleteSources(t)
    BY <1>2, <2>2, <2>7 DEF DeleteSources, At, Ended, rowVars
  <2>8. CASE DeleteCommit(t)
    <3>1. /\ book' = [book EXCEPT ![t] = Gone]
          /\ del' = [del EXCEPT ![t] = Ended(del[t], "done")]
      BY <2>8 DEF DeleteCommit
    <3>2. \A u \in Trace : u # t => del'[u] = del[u] /\ book'[u] = book[u]
      BY <3>1 DEF TypeOK
    <3>3. del'[t].phase = "done" /\ book'[t] # Absent
      BY <3>1 DEF Ended, At, TypeOK
    <3>4. \A u \in Trace : ChainsOf(u)' \subseteq ChainsOf(u)
      BY <2>8, CommitChains DEF ChainsOf
    <3> QED BY <3>2, <3>3, <3>4 DEF HoldsAll, DeletesExisting
  <2> QED BY <1>6, <2>3, <2>4, <2>5, <2>6, <2>7, <2>8 DEF DeleteStep
<1>7. ASSUME NEW t \in Trace, Request(t) PROVE HoldsAll' /\ DeletesExisting'
  <2>1. ASSUME NEW by \in Book \cup {None}, DeleteAsk(t, by)
        PROVE  HoldsAll' /\ DeletesExisting'
    BY <1>2, <2>1 DEF DeleteAsk, At, Present, rowVars
  <2>2. ASSUME NEW drop, MoveTrace(t, drop) PROVE HoldsAll' /\ DeletesExisting'
    <3>1. move[t].to \in Book /\ del' = del /\ book' = [book EXCEPT ![t] = move[t].to]
      BY <2>2, MoveGoesToABook DEF MoveTrace
    <3>2. \A k \in Src : SameChain(k)
      BY <2>2, MoveChains
    <3>3. \A u \in Trace : book'[u] = Absent => book[u] = Absent
      BY <3>1 DEF TypeOK
    <3> QED BY <1>1, <3>1, <3>2, <3>3 DEF SameChain
  <2>3. CASE UNCHANGED <<src, book, del>>
    BY <1>1, <2>3
  <2> QED BY <1>7, <2>1, <2>2, <2>3 DEF Request, MoveAsk, MoveRefused, VerifyLook,
       VerifyResolve, VerifyRefused, rowVars
<1>8. CASE UNCHANGED <<src, book, del>>
  BY <1>1, <1>8
<1>9. CASE New
  <2>1. CASE \E t \in Trace, b \in Book, entries \in SUBSET Unborn, d \in BOOLEAN :
               Deposit(t, b, entries, d)
    BY <2>1, <1>3
  <2>2. CASE \E ts \in SUBSET Trace, b \in Book :
               \E ls \in SUBSET (ts \X Unborn), ds \in SUBSET ts : Import(ts, b, ls, ds)
    BY <2>2, <1>4
  <2> QED BY <1>9, <2>1, <2>2 DEF New
<1> QED BY <1>5, <1>6, <1>7, <1>8, <1>9 DEF Next, Crash, ListMissing, rowVars, vars

-----------------------------------------------------------------------------
(* Every live source keeps a trace that exists, and that trace's book.     *)
AgreesAt(k) == src[k].state = "live" =>
  src[k].trace \in Present /\ src[k].book = book[src[k].trace]

LEMMA AgreesIsPerSource == Agrees <=> \A k \in Src : AgreesAt(k)
BY DEF Agrees, AgreesAt, NoOrphans, SourcesInTraceBook

LEMMA AgreesStep ==
  ASSUME IndexInv, [Next]_vars, NEW k \in Src
  PROVE  AgreesAt(k)'
<1> USE IndexAssumption DEF IndexInv
<1>0. AgreesAt(k)
  BY AgreesIsPerSource
<1>1. ASSUME src'[k].state = src[k].state, src'[k].trace = src[k].trace,
             src'[k].book = src[k].book, \A t \in Present : book'[t] = book[t]
      PROVE  AgreesAt(k)'
  BY <1>0, <1>1 DEF AgreesAt, Present
<1>2. ASSUME NEW t \in Trace, NEW b \in Book, NEW entries \in SUBSET Unborn,
             NEW d \in BOOLEAN, Deposit(t, b, entries, d)
      PROVE  AgreesAt(k)'
  <2>1. book[t] = Absent /\ book' = [book EXCEPT ![t] = b]
    BY <1>2 DEF Deposit
  <2>2. book'[t] = b /\ t \in Present' /\ \A u \in Present : book'[u] = book[u]
    BY <2>1 DEF TypeOK, Present
  <2>3. src'[k] = src[k] \/ (src'[k].trace = t /\ src'[k].book = b)
    BY <1>2, DepositChains
  <2> QED BY <1>1, <2>2, <2>3 DEF AgreesAt
<1>3. ASSUME NEW ts \in SUBSET Trace, NEW b \in Book, NEW ls \in SUBSET (ts \X Unborn),
             NEW ds \in SUBSET ts, Import(ts, b, ls, ds)
      PROVE  AgreesAt(k)'
  BY <1>1, <1>3 DEF Import, Present, TypeOK
<1>4. ASSUME NEW w \in Worker, Backfill(w) PROVE AgreesAt(k)'
  <2>1. book' = book
    BY <1>4 DEF Backfill, ReadEvidence, InsertSource, InsertChain, rowVars
  <2>2. CASE src' = src
    BY <1>1, <2>1, <2>2
  <2>3. CASE InsertSource(w)
    <3>1. ASSUME NEW j \in FreeSrc, src' = [src EXCEPT ![j] = SourceFor(check[w])],
                 check[w].trace \in Present
          PROVE  AgreesAt(k)'
      <4>1. CASE k = j
        <5>1. src'[k] = SourceFor(check[w])
          BY <3>1, <4>1 DEF TypeOK
        <5> QED BY <2>1, <3>1, <5>1 DEF AgreesAt, SourceFor, Source, Present
      <4>2. CASE k # j
        <5>1. src'[k] = src[k]
          BY <3>1, <4>2 DEF TypeOK
        <5> QED BY <1>1, <2>1, <5>1
      <4> QED BY <4>1, <4>2
    <3> QED BY <2>2, <2>3, <3>1, InsertSourceChains
  <2>4. CASE InsertChain(w)
    BY <1>1, <2>1, <2>4, InsertChainChains
  <2> QED BY <1>4, <2>2, <2>3, <2>4 DEF Backfill, ReadEvidence, rowVars
<1>5. ASSUME NEW t \in Trace, DeleteStep(t) PROVE AgreesAt(k)'
  <2>1. CASE DeleteCommit(t)
    <3>1. book' = [book EXCEPT ![t] = Gone] /\ ChainsOf(t) \subseteq del[t].held
      BY <2>1 DEF DeleteCommit, HoldsAll
    <3>2. CASE src[k].state = "live" /\ src[k].trace = t
      <4>1. k \in del[t].held
        BY <3>1, <3>2 DEF ChainsOf
      <4> QED BY <2>1, <4>1, CommitChains DEF AgreesAt
    <3>3. CASE ~(src[k].state = "live" /\ src[k].trace = t)
      <4>1. src'[k].state = "live" => src[k].state = "live"
        BY <2>1, CommitChains
      <4>2. src'[k].trace = src[k].trace /\ src'[k].book = src[k].book
        BY <2>1, CommitChains
      <4>3. \A u \in Trace : u # t => book'[u] = book[u]
        BY <3>1 DEF TypeOK
      <4> QED BY <1>0, <3>3, <4>1, <4>2, <4>3 DEF AgreesAt, Present
    <3> QED BY <3>2, <3>3
  <2>2. CASE ~DeleteCommit(t)
    <3>1. UNCHANGED <<src, book>>
      BY <1>5, <2>2 DEF DeleteStep, DeleteLock, DeleteVectors, DeleteChunks, DeleteStrategies,
         DeleteLevel, DeleteSources, rowVars
    <3> QED BY <1>1, <3>1
  <2> QED BY <2>1, <2>2
<1>6. ASSUME NEW t \in Trace, Request(t) PROVE AgreesAt(k)'
  <2>1. ASSUME NEW drop, MoveTrace(t, drop) PROVE AgreesAt(k)'
    <3>1. move[t].to \in Book /\ book' = [book EXCEPT ![t] = move[t].to]
      BY <2>1, MoveGoesToABook DEF MoveTrace
    <3>2. book'[t] = move[t].to /\ \A u \in Trace : u # t => book'[u] = book[u]
      BY <3>1 DEF TypeOK
    <3>3. SameChain(k)
      BY <2>1, MoveChains
    <3>4. CASE src[k].state = "live" /\ src[k].trace = t
      <4>1. src'[k].book = move[t].to
        BY <2>1, <3>4, MoveChains
      <4> QED BY <3>1, <3>2, <3>3, <3>4, <4>1 DEF AgreesAt, SameChain, Present
    <3>5. CASE ~(src[k].state = "live" /\ src[k].trace = t)
      <4>1. src'[k].book = src[k].book
        BY <2>1, <3>5, MoveChains
      <4> QED BY <1>0, <3>2, <3>3, <3>5, <4>1 DEF AgreesAt, SameChain, Present
    <3> QED BY <3>4, <3>5
  <2>2. CASE UNCHANGED <<src, book>>
    BY <1>1, <2>2
  <2> QED BY <1>6, <2>1, <2>2 DEF Request, DeleteAsk, MoveAsk, MoveRefused, VerifyLook,
       VerifyResolve, VerifyRefused, rowVars
<1>7. CASE UNCHANGED <<src, book>>
  BY <1>1, <1>7
<1>8. CASE New
  <2>1. CASE \E t \in Trace, b \in Book, entries \in SUBSET Unborn, d \in BOOLEAN :
               Deposit(t, b, entries, d)
    BY <2>1, <1>2
  <2>2. CASE \E ts \in SUBSET Trace, b \in Book :
               \E ls \in SUBSET (ts \X Unborn), ds \in SUBSET ts : Import(ts, b, ls, ds)
    BY <2>2, <1>3
  <2> QED BY <1>8, <2>1, <2>2 DEF New
<1> QED BY <1>4, <1>5, <1>6, <1>7, <1>8 DEF Next, Crash, ListMissing, rowVars, vars

-----------------------------------------------------------------------------
(* The strengthened invariant holds in every behaviour.                    *)
THEOREM IndexInvariant == Spec => []IndexInv
<1>1. Init => IndexInv
  BY InitHolds
<1>2. IndexInv /\ [Next]_vars => IndexInv'
  <2> SUFFICES ASSUME IndexInv, [Next]_vars PROVE IndexInv'
    OBVIOUS
  <2>1. TypeOK' /\ HandlerAims'
    BY TypeStep, HandlerStep DEF IndexInv
  <2>2. HoldsAll' /\ DeletesExisting'
    BY HoldsStep
  <2>3. Agrees'
    <3>1. \A k \in Src : AgreesAt(k)'
      BY AgreesStep
    <3> QED BY <3>1 DEF AgreesAt, Agrees, NoOrphans, SourcesInTraceBook
  <2> QED BY <2>1, <2>2, <2>3 DEF IndexInv
<1> QED BY <1>1, <1>2, PTL DEF Spec

(* Every row, handler and transaction keeps the shape it is declared with. *)
THEOREM TypeCorrect == Spec => []TypeOK
<1>1. IndexInv => TypeOK
  BY DEF IndexInv
<1> QED BY <1>1, IndexInvariant, PTL

(* No source outlives its trace, though no foreign key says so.            *)
THEOREM NoOrphanSources == Spec => []NoOrphans
<1>1. IndexInv => NoOrphans
  BY DEF IndexInv, Agrees
<1> QED BY <1>1, IndexInvariant, PTL

(* A source is filed in its trace's book through every move, whatever book *)
(* the backfill read when it listed the trace.                             *)
THEOREM FiledWithTheirTrace == Spec => []SourcesInTraceBook
<1>1. IndexInv => SourcesInTraceBook
  BY DEF IndexInv, Agrees
<1> QED BY <1>1, IndexInvariant, PTL

(* A recipe leaves a book only by a delete or a move authorised for that   *)
(* book: the locks make the book that was judged the book that is left.    *)
Authorised(t) ==
  \/ book'[t] = Gone /\ del[t].by \in {book[t], None}
  \/ book'[t] = move[t].to /\ book[t] = move[t].from

(* What a delete was authorised for is still true once it has the lock.    *)
LockedAreAuthorised == \A t \in Present : Locked(t) => del[t].by \in {book[t], None}

LEMMA AuthorisedStep ==
  ASSUME IndexInv, LockedAreAuthorised, [Next]_vars, NEW t \in Present
  PROVE  (book'[t] # book[t] => Authorised(t)) /\ (Locked(t)' => del'[t].by \in {book'[t], None})
<1> DEFINE Goal == (book'[t] # book[t] => Authorised(t))
                   /\ (Locked(t)' => del'[t].by \in {book'[t], None})
<1> USE IndexAssumption DEF IndexInv
<1>0. t \in Trace /\ book[t] \in Book
  BY DEF Present
<1>1. ASSUME book'[t] = book[t], del'[t] = del[t] PROVE Goal
  BY <1>0, <1>1 DEF LockedAreAuthorised, Locked
<1> HIDE DEF Goal
<1>2. ASSUME NEW u \in Trace, DeleteStep(u) PROVE Goal
  <2>1. CASE u # t
    <3>1. book'[t] = book[t] /\ del'[t] = del[t]
      BY <1>0, <1>2, <2>1 DEF TypeOK, DeleteStep, DeleteLock, DeleteVectors, DeleteChunks,
         DeleteStrategies, DeleteLevel, DeleteSources, DeleteCommit, rowVars
    <3> QED BY <1>1, <3>1
  <2>2. ASSUME u = t, book' = book, NEW d, del'[t] = d, d.by = del[t].by,
               LockedBy(d) => d.by \in {book[t], None}
        PROVE  Goal
    BY <2>2 DEF Goal, Locked
  <2>3. CASE u = t /\ DeleteLock(t)
    <3>1. del'[t] = IF MayDelete(t) THEN At("locked", del[t].by, {}, {})
                    ELSE Ended(del[t], "refused")
      BY <1>0, <2>3 DEF TypeOK, DeleteLock
    <3> QED BY <2>2, <2>3, <3>1 DEF DeleteLock, MayDelete, At, Ended, LockedBy, InTransaction,
            rowVars
  <2>4. ASSUME u = t, Locked(t), book' = book, del'[t].by = del[t].by PROVE Goal
    BY <1>0, <2>4 DEF Goal, LockedAreAuthorised
  <2>5. CASE u = t /\ DeleteVectors(t)
    BY <1>0, <2>4, <2>5 DEF DeleteVectors, Locked, LockedBy, InTransaction, At, TypeOK, rowVars
  <2>6. CASE u = t /\ (DeleteChunks(t) \/ DeleteStrategies(t) \/ DeleteSources(t))
    <3>1. Locked(t) /\ book' = book
      BY <2>6 DEF DeleteChunks, DeleteStrategies, DeleteLevel, DeleteSources, Locked, LockedBy,
         InTransaction, rowVars
    <3>2. del'[t].by = del[t].by
      BY <1>0, <2>6 DEF DeleteChunks, DeleteStrategies, DeleteLevel, DeleteSources, At, Ended,
         TypeOK
    <3> QED BY <2>4, <2>6, <3>1, <3>2
  <2>7. CASE u = t /\ DeleteCommit(t)
    <3>1. Locked(t) /\ book'[t] = Gone /\ del'[t] = Ended(del[t], "done")
      BY <1>0, <2>7 DEF DeleteCommit, Locked, LockedBy, InTransaction, TypeOK
    <3> QED BY <1>0, <3>1 DEF Goal, Authorised, LockedAreAuthorised, Locked, LockedBy,
            InTransaction, Ended, At
  <2> QED BY <1>2, <2>1, <2>3, <2>5, <2>6, <2>7 DEF DeleteStep
<1>3. ASSUME NEW u \in Trace, Request(u) PROVE Goal
  <2>1. ASSUME NEW by \in Book \cup {None}, DeleteAsk(u, by) PROVE Goal
    <3>1. del' = [del EXCEPT ![u] = At("asked", by, {}, {})] /\ book' = book
      BY <2>1 DEF DeleteAsk, rowVars
    <3>2. CASE u = t
      BY <1>0, <3>1, <3>2 DEF Goal, Locked, LockedBy, InTransaction, At, TypeOK
    <3>3. CASE u # t
      BY <1>0, <1>1, <3>1, <3>3 DEF TypeOK
    <3> QED BY <3>2, <3>3
  <2>2. ASSUME NEW drop, MoveTrace(u, drop) PROVE Goal
    <3>1. /\ book' = [book EXCEPT ![u] = move[u].to] /\ del' = del
          /\ ~Locked(u) /\ book[u] = move[u].from
      BY <2>2 DEF MoveTrace, MayMove
    <3>2. CASE u = t
      BY <1>0, <3>1, <3>2 DEF Goal, Authorised, Locked, TypeOK
    <3>3. CASE u # t
      BY <1>0, <1>1, <3>1, <3>3 DEF TypeOK
    <3> QED BY <3>2, <3>3
  <2>3. CASE UNCHANGED <<book, del>>
    BY <1>1, <2>3
  <2> QED BY <1>3, <2>1, <2>2, <2>3 DEF Request, MoveAsk, MoveRefused, VerifyLook,
       VerifyResolve, VerifyRefused, rowVars
<1>4. ASSUME UNCHANGED <<book, del>> PROVE Goal
  <2>1. book'[t] = book[t] /\ del'[t] = del[t]
    BY <1>4
  <2> QED BY <1>1, <2>1
<1>5. ASSUME New PROVE Goal
  <2>1. book'[t] = book[t] /\ del'[t] = del[t]
    BY <1>0, <1>5 DEF New, Deposit, Import, TypeOK
  <2> QED BY <1>1, <2>1
<1>6. ASSUME NEW w \in Worker, Backfill(w) PROVE Goal
  <2>1. CASE \E u \in Trace : ReadEvidence(w, u)
    BY <1>4, <2>1 DEF ReadEvidence, rowVars
  <2>2. CASE InsertSource(w)
    <3>1. book' = book /\ del' = del
      BY Zenon, <2>2 DEF InsertSource
    <3> QED BY <1>4, <3>1
  <2>3. CASE InsertChain(w)
    <3>1. book' = book /\ del' = del
      BY Zenon, <2>3 DEF InsertChain
    <3> QED BY <1>4, <3>1
  <2> QED BY <1>6, <2>1, <2>2, <2>3 DEF Backfill
<1>7. ASSUME NEW w \in Worker, Crash(w) \/ (\E s \in Strategy : ListMissing(w, s)) PROVE Goal
  <2>1. UNCHANGED <<book, del>>
    BY <1>7 DEF Crash, ListMissing, rowVars
  <2> QED BY <1>4, <2>1
<1>8. ASSUME UNCHANGED vars PROVE Goal
  BY <1>4, <1>8 DEF vars
<1>9. Goal
  BY <1>2, <1>3, <1>5, <1>6, <1>7, <1>8 DEF Next
<1> QED BY <1>9 DEF Goal

(* A trace that is new has no delete yet.                                  *)
LEMMA NewAreUnlocked ==
  ASSUME IndexInv, [Next]_vars, NEW t \in Trace, t \notin Present, book'[t] \in Book
  PROVE  ~Locked(t)'
<1> USE IndexAssumption DEF IndexInv
<1>1. book[t] \notin Book
  BY DEF Present
<1>2. ASSUME NEW u \in Trace, DeleteStep(u) PROVE FALSE
  <2>1. book' = book \/ book' = [book EXCEPT ![u] = Gone]
    BY <1>2 DEF DeleteStep, DeleteLock, DeleteVectors, DeleteChunks, DeleteStrategies,
       DeleteLevel, DeleteSources, DeleteCommit, rowVars
  <2> QED BY <1>1, <2>1 DEF TypeOK
<1>3. ASSUME NEW u \in Trace, Request(u) PROVE FALSE
  <2>1. ASSUME NEW drop, MoveTrace(u, drop) PROVE FALSE
    BY <1>1, <2>1 DEF MoveTrace, MayMove, Present, TypeOK
  <2>2. ASSUME NEW by, DeleteAsk(u, by) PROVE FALSE
    BY <1>1, <2>2 DEF DeleteAsk, rowVars
  <2>3. CASE book' = book
    BY <1>1, <2>3
  <2> QED BY <1>3, <2>1, <2>2, <2>3 DEF Request, MoveAsk, MoveRefused, VerifyLook,
       VerifyResolve, VerifyRefused, rowVars
<1>4. ASSUME NEW w \in Worker, Backfill(w) PROVE FALSE
  <2>1. ASSUME NEW u, ReadEvidence(w, u) PROVE FALSE
    BY <1>1, <2>1 DEF ReadEvidence, rowVars
  <2>2. ASSUME InsertSource(w) PROVE book' = book
    BY Zenon, <2>2 DEF InsertSource
  <2>3. ASSUME InsertChain(w) PROVE book' = book
    BY Zenon, <2>3 DEF InsertChain
  <2> QED BY <1>1, <1>4, <2>1, <2>2, <2>3 DEF Backfill
<1>5. ASSUME NEW w \in Worker, Crash(w) \/ (\E s \in Strategy : ListMissing(w, s)) PROVE FALSE
  BY <1>1, <1>5 DEF Crash, ListMissing, rowVars
<1>6. CASE New
  <2>1. book[t] = Absent /\ del' = del
    BY <1>1, <1>6 DEF New, Deposit, Import, TypeOK
  <2>2. del'[t] = NoDelete
    BY <2>1 DEF DeletesExisting
  <2> QED BY <2>2 DEF Locked, LockedBy, InTransaction, NoDelete, At
<1>7. CASE UNCHANGED vars
  BY <1>1, <1>7 DEF vars
<1> QED BY <1>2, <1>3, <1>4, <1>5, <1>6, <1>7 DEF Next

(* Neither a delete nor a move acts on a book nobody judged, though both   *)
(* judge it before they have the row lock and the other may come between.  *)
THEOREM OnlyWhereAuthorised == Spec => ActsWhereAuthorised
<1> USE IndexAssumption
<1>1. Init => LockedAreAuthorised
  BY DEF Init, LockedAreAuthorised, Present
<1>2. IndexInv /\ LockedAreAuthorised /\ [Next]_vars => LockedAreAuthorised'
  <2> SUFFICES ASSUME IndexInv, LockedAreAuthorised, [Next]_vars, NEW t \in Trace,
                      book'[t] \in Book, Locked(t)'
               PROVE  del'[t].by \in {book'[t], None}
    BY DEF LockedAreAuthorised, Present
  <2>1. CASE t \in Present
    BY <2>1, AuthorisedStep
  <2>2. CASE t \notin Present
    BY <2>2, NewAreUnlocked
  <2> QED BY <2>1, <2>2
<1>3. IndexInv /\ LockedAreAuthorised /\ [Next]_vars
      => [\A t \in Present : book'[t] # book[t] =>
            \/ book'[t] = Gone /\ del[t].by \in {book[t], None}
            \/ book'[t] = move[t].to /\ book[t] = move[t].from]_vars
  BY AuthorisedStep DEF Authorised
<1> QED BY <1>1, <1>2, <1>3, IndexInvariant, PTL DEF Spec, ActsWhereAuthorised

-----------------------------------------------------------------------------
(* Evidence, where an entry is linked to one recipe: only an imported file *)
(* can share one (MayShare).                                               *)
EvidenceInv ==
  /\ \A t, u \in Trace, e \in Evidence : <<t, e>> \in link /\ <<u, e>> \in link => t = u
  /\ \A t \in Trace, e \in Evidence : <<t, e>> \in link => t \in Present
  /\ \A e \in Evidence : home[e] \in Book <=> \E t \in Trace : <<t, e>> \in link
  /\ \A t \in Trace : del[t].phase = "sources" => del[t].prune = EvidenceOf(t)
  /\ \A t \in Trace : look[t] # None => look[t] \in WriteBooks

(* Where an entry is searchable is where its recipe is.                    *)
Filed == \A t \in Trace, e \in Evidence : <<t, e>> \in link => home[e] = book[t]

(* A key that verifies drafts may write in one book: with two, the draft   *)
(* may move from the one that was read to the other before it is resolved. *)
OneWriteBook == \A b, c \in WriteBooks : b = c

(* The last link of every entry is the one it has.                         *)
LEMMA OnlyLink ==
  ASSUME EvidenceInv, TypeOK, NEW t \in Trace, NEW entries \in SUBSET EvidenceOf(t)
  PROVE  LastLinkOf(t, entries) = entries
BY DEF EvidenceInv, LastLinkOf, LinkedElsewhere, EvidenceOf

(* A delete that is past its last statement still sees all the entries:    *)
(* whoever changes the links of its trace waits for the lock.              *)
LEMMA PruneKept ==
  ASSUME IndexInv, EvidenceInv, NEW u \in Trace, del'[u] = del[u],
         Locked(u) /\ book[u] # Absent => \A e \in Evidence : <<u, e>> \in link' <=> <<u, e>> \in link,
         del'[u].phase = "sources"
  PROVE  del'[u].prune = EvidenceOf(u)'
<1>1. Locked(u) /\ book[u] # Absent
  BY DEF IndexInv, DeletesExisting, Locked, LockedBy, InTransaction, NoDelete, At
<1>2. EvidenceOf(u)' = EvidenceOf(u)
  BY <1>1 DEF EvidenceOf
<1> QED BY <1>2 DEF EvidenceInv

(* Recipes and links that are new: entries that were not there yet.        *)
Links(new) ==
  /\ link' = link \cup new
  /\ \A t, u \in Trace, e \in Evidence : <<t, e>> \in new /\ <<u, e>> \in new => t = u
  /\ \A t \in Present : book'[t] = book[t]
  /\ \A t \in Trace, e \in Evidence : <<t, e>> \in new =>
       /\ e \in Unborn /\ book'[t] \in Book /\ home'[e] \in Book
       /\ book[t] = Absent \/ ~Locked(t)
  /\ \A e \in Evidence : (\A t \in Trace : <<t, e>> \notin new) => home'[e] = home[e]
  /\ del' = del
  /\ \A t \in Trace : look'[t] \in {look[t], None}

FiledAs(new) == \A t \in Trace, e \in Evidence : <<t, e>> \in new => home'[e] = book'[t]

LEMMA LinksKeep ==
  ASSUME IndexInv, EvidenceInv, NEW new, Links(new)
  PROVE  EvidenceInv' /\ (Filed /\ FiledAs(new) => Filed')
<1> USE DEF EvidenceInv, Links
<1>1. Unborn \subseteq Evidence /\ \A e \in Unborn : home[e] \notin Book
  BY IndexAssumption DEF Unborn
<1>2. \A t \in Trace, e \in Unborn : <<t, e>> \notin link
  BY <1>1
<1>3. \A t \in Trace, e \in Evidence : <<t, e>> \in link' <=> <<t, e>> \in link \/ <<t, e>> \in new
  OBVIOUS
<1>4. \A t \in Trace, e \in Evidence : <<t, e>> \in new =>
        e \in Unborn /\ book'[t] \in Book /\ home'[e] \in Book /\ (book[t] = Absent \/ ~Locked(t))
  OBVIOUS
<1>5. \A t, u \in Trace, e \in Evidence : <<t, e>> \in new /\ <<u, e>> \in new => t = u
  OBVIOUS
<1>6. \A e \in Evidence : (\A t \in Trace : <<t, e>> \notin new) => home'[e] = home[e]
  OBVIOUS
<1>7. \A t, u \in Trace, e \in Evidence : <<t, e>> \in link' /\ <<u, e>> \in link' => t = u
  BY <1>2, <1>3, <1>4, <1>5
<1>8. \A t \in Trace : t \in Present => t \in Present'
  BY DEF Present
<1>9. \A t \in Trace, e \in Evidence : <<t, e>> \in link' => t \in Present'
  BY <1>3, <1>4, <1>8 DEF Present
<1>10. \A e \in Evidence : home'[e] \in Book <=> \E t \in Trace : <<t, e>> \in link'
  BY <1>2, <1>3, <1>4, <1>6
<1>11. ASSUME NEW u \in Trace, del'[u].phase = "sources" PROVE del'[u].prune = EvidenceOf(u)'
  <2>1. Locked(u) /\ book[u] # Absent => \A e \in Evidence : <<u, e>> \in link' <=> <<u, e>> \in link
    BY <1>3, <1>4
  <2> QED BY <1>11, <2>1, PruneKept
<1>12. EvidenceInv'
  BY <1>7, <1>9, <1>10, <1>11
<1>13. ASSUME Filed, FiledAs(new) PROVE Filed'
  <2>1. ASSUME NEW t \in Trace, NEW e \in Evidence, <<t, e>> \in link' PROVE home'[e] = book'[t]
    <3>1. CASE <<t, e>> \in new
      BY <1>13, <3>1 DEF FiledAs
    <3>2. CASE <<t, e>> \in link
      <4>1. \A u \in Trace : <<u, e>> \notin new
        BY <1>2, <1>4, <3>2
      <4> QED BY <1>6, <1>13, <3>2, <4>1 DEF Filed
    <3> QED BY <1>3, <2>1, <3>1, <3>2
  <2> QED BY <2>1 DEF Filed
<1> QED BY <1>12, <1>13

(* A step that touches no link and no book. *)
LEMMA NoLinks ==
  ASSUME EvidenceInv, UNCHANGED <<book, link, home>>,
         \A t \in Trace : del'[t].phase = "sources" =>
           del'[t] = del[t] \/ del'[t].prune = EvidenceOf(t),
         \A t \in Trace : look'[t] # None => look'[t] \in WriteBooks
  PROVE  EvidenceInv' /\ (Filed => Filed')
<1>1. \A t \in Trace : EvidenceOf(t)' = EvidenceOf(t)
  BY DEF EvidenceOf
<1> QED BY <1>1 DEF EvidenceInv, Filed, Present

(* Links that go, with the homes of their entries; the entries that stay   *)
(* go where their recipe goes.                                             *)
LEMMA Unlinks ==
  ASSUME IndexInv, EvidenceInv, NEW t \in Trace, NEW drop \in SUBSET EvidenceOf(t),
         link' = link \ ({t} \X drop),
         \A u \in Trace : u # t => book'[u] = book[u] /\ del'[u] = del[u],
         drop # EvidenceOf(t) => book'[t] \in Book,
         \A e \in drop : home'[e] = Gone,
         \A e \in EvidenceOf(t) \ drop : home'[e] = book'[t],
         \A e \in Evidence \ EvidenceOf(t) : home'[e] = home[e],
         del'[t].phase # "sources", look' = look
  PROVE  EvidenceInv' /\ (Filed => Filed')
<1> USE DEF EvidenceInv
<1>1. \A u \in Trace, e \in Evidence :
        <<u, e>> \in link' <=> <<u, e>> \in link /\ ~(u = t /\ e \in drop)
  OBVIOUS
<1>2. \A e \in Evidence : e \in EvidenceOf(t) <=> <<t, e>> \in link
  BY DEF EvidenceOf
<1>3. \A u, v \in Trace, e \in Evidence : <<u, e>> \in link' /\ <<v, e>> \in link' => u = v
  BY <1>1
<1>4. \A u \in Trace, e \in Evidence : <<u, e>> \in link' => u \in Present'
  <2>1. ASSUME NEW u \in Trace, NEW e \in Evidence, <<u, e>> \in link' PROVE book'[u] \in Book
    <3>1. u = t => e \in EvidenceOf(t) /\ e \notin drop
      BY <1>1, <1>2, <2>1
    <3>2. u \in Present
      BY <1>1, <2>1
    <3> QED BY <3>1, <3>2 DEF Present
  <2> QED BY <2>1 DEF Present
<1>5. \A e \in Evidence : home'[e] \in Book <=> \E u \in Trace : <<u, e>> \in link'
  <2>1. ASSUME NEW e \in Evidence PROVE home'[e] \in Book <=> \E u \in Trace : <<u, e>> \in link'
    <3>1. CASE e \in drop
      BY <1>1, <1>2, <3>1, IndexAssumption
    <3>2. CASE e \in EvidenceOf(t) \ drop
      BY <1>1, <1>2, <3>2
    <3>3. CASE e \notin EvidenceOf(t)
      BY <1>1, <1>2, <3>3
    <3> QED BY <3>1, <3>2, <3>3
  <2> QED BY <2>1
<1>6. ASSUME NEW u \in Trace, del'[u].phase = "sources" PROVE del'[u].prune = EvidenceOf(u)'
  <2>1. u # t
    BY <1>6
  <2>2. \A e \in Evidence : <<u, e>> \in link' <=> <<u, e>> \in link
    BY <1>1, <2>1
  <2> QED BY <1>6, <2>1, <2>2, PruneKept
<1>7. EvidenceInv'
  BY <1>3, <1>4, <1>5, <1>6
<1>8. ASSUME Filed PROVE Filed'
  <2>1. ASSUME NEW u \in Trace, NEW e \in Evidence, <<u, e>> \in link' PROVE home'[e] = book'[u]
    <3>1. CASE u = t
      BY <1>1, <1>2, <2>1, <3>1
    <3>2. CASE u # t
      <4>1. <<u, e>> \in link /\ e \notin EvidenceOf(t)
        BY <1>1, <1>2, <2>1, <3>2
      <4> QED BY <1>8, <3>2, <4>1 DEF Filed
    <3> QED BY <3>1, <3>2
  <2> QED BY <2>1 DEF Filed
<1> QED BY <1>7, <1>8

LEMMA EvidenceStep ==
  ASSUME ~MayShare, IndexInv, EvidenceInv, [Next]_vars
  PROVE  EvidenceInv' /\ (Filed /\ OneWriteBook => Filed')
<1> DEFINE Goal == EvidenceInv' /\ (Filed /\ OneWriteBook => Filed')
<1>0. TypeOK /\ (\A t \in Trace : look[t] # None => look[t] \in WriteBooks) /\ Absent \notin Book
      /\ Unborn \subseteq Evidence
  BY IndexAssumption DEF IndexInv, EvidenceInv, Unborn
<1>1. ASSUME UNCHANGED <<book, link, home, del, look>> PROVE Goal
  BY <1>0, <1>1, NoLinks
<1>2. ASSUME NEW t \in Trace, NEW b \in Book, NEW entries \in SUBSET Unborn, NEW d \in BOOLEAN,
             Deposit(t, b, entries, d)
      PROVE  Goal
  <2>1. /\ book[t] = Absent /\ book' = [book EXCEPT ![t] = b] /\ link' = link \cup ({t} \X entries)
        /\ home' = [e \in Evidence |-> IF e \in entries THEN b ELSE home[e]]
        /\ del' = del /\ look' = look
    BY Zenon, <1>2 DEF Deposit
  <2>2. book'[t] = b /\ \A u \in Trace : u # t => book'[u] = book[u]
    BY <1>0, <2>1 DEF TypeOK
  <2>3. \A u \in Present : book'[u] = book[u]
    BY <1>0, <2>1, <2>2 DEF Present
  <2>4. \A u \in Trace, e \in Evidence : <<u, e>> \in {t} \X entries <=> u = t /\ e \in entries
    OBVIOUS
  <2>5. \A e \in Evidence : IF e \in entries THEN home'[e] = b ELSE home'[e] = home[e]
    BY <2>1
  <2>6. Links({t} \X entries)
    <3>1. \A u \in Trace, e \in Evidence : <<u, e>> \in {t} \X entries =>
            /\ e \in Unborn /\ book'[u] \in Book /\ home'[e] \in Book
            /\ book[u] = Absent \/ ~Locked(u)
      BY <2>1, <2>2, <2>4, <2>5
    <3>2. \A e \in Evidence : (\A u \in Trace : <<u, e>> \notin {t} \X entries) => home'[e] = home[e]
      BY <2>4, <2>5
    <3> QED BY <2>1, <2>3, <2>4, <3>1, <3>2 DEF Links
  <2>7. FiledAs({t} \X entries)
    BY <2>2, <2>4, <2>5 DEF FiledAs
  <2> QED BY <2>6, <2>7, LinksKeep
<1>3. ASSUME NEW ts \in SUBSET Trace, NEW b \in Book, NEW ls \in SUBSET (ts \X Unborn),
             NEW ds \in SUBSET ts, Import(ts, b, ls, ds)
      PROVE  Goal
  <2>1. /\ \A t \in ts : book[t] = Absent
        /\ \A p, q \in ls : p[2] = q[2] => p = q
        /\ book' = [t \in Trace |-> IF t \in ts THEN b ELSE book[t]]
        /\ link' = link \cup ls
        /\ home' = [e \in Evidence |-> IF \E p \in ls : p[2] = e THEN b ELSE home[e]]
        /\ del' = del /\ look' = look
    BY <1>3 DEF Import
  <2>2. \A u \in Present : book'[u] = book[u]
    BY <1>0, <2>1 DEF Present
  <2>3. \A t, u \in Trace, e \in Evidence : <<t, e>> \in ls /\ <<u, e>> \in ls => t = u
    BY <2>1
  <2>4. \A t \in Trace, e \in Evidence : <<t, e>> \in ls =>
          t \in ts /\ e \in Unborn /\ book'[t] = b /\ home'[e] = b /\ book[t] = Absent
    BY <2>1
  <2>5. ASSUME NEW e \in Evidence, \A t \in Trace : <<t, e>> \notin ls PROVE home'[e] = home[e]
    <3>1. \A p \in ls : p = <<p[1], p[2]>> /\ p[1] \in Trace
      OBVIOUS
    <3>2. ~\E p \in ls : p[2] = e
      BY <2>5, <3>1
    <3> QED BY <2>1, <3>2
  <2>6. Links(ls)
    BY <2>1, <2>2, <2>3, <2>4, <2>5 DEF Links
  <2>7. FiledAs(ls)
    BY <2>4 DEF FiledAs
  <2> QED BY <2>6, <2>7, LinksKeep
<1>4. ASSUME New PROVE Goal
  BY <1>2, <1>3, <1>4 DEF New
<1>5. ASSUME NEW w \in Worker, Backfill(w) PROVE Goal
  <2>1. CASE \E u \in Trace : ReadEvidence(w, u)
    BY <1>1, <2>1 DEF ReadEvidence, rowVars
  <2>2. CASE InsertSource(w)
    <3>1. book' = book /\ link' = link /\ home' = home /\ del' = del /\ look' = look
      BY Zenon, <2>2 DEF InsertSource
    <3> QED BY <1>1, <3>1
  <2>3. CASE InsertChain(w)
    <3>1. book' = book /\ link' = link /\ home' = home /\ del' = del /\ look' = look
      BY Zenon, <2>3 DEF InsertChain
    <3> QED BY <1>1, <3>1
  <2> QED BY <1>5, <2>1, <2>2, <2>3 DEF Backfill
<1>6. ASSUME NEW w \in Worker, Crash(w) \/ (\E s \in Strategy : ListMissing(w, s)) PROVE Goal
  BY <1>1, <1>6 DEF Crash, ListMissing, rowVars
<1>7. ASSUME NEW t \in Trace, DeleteStep(t) PROVE Goal
  <2>1. CASE DeleteCommit(t)
    <3>1. /\ del[t].phase = "sources" /\ book' = [book EXCEPT ![t] = Gone]
          /\ link' = link \ ({t} \X Evidence)
          /\ home' = [e \in Evidence |-> IF e \in del[t].prune THEN Gone ELSE home[e]]
          /\ del' = [del EXCEPT ![t] = Ended(del[t], "done")] /\ look' = look
      BY <1>0, <2>1 DEF DeleteCommit, TypeOK
    <3>2. del[t].prune = EvidenceOf(t)
      BY <3>1 DEF EvidenceInv
    <3>3. PICK drop \in SUBSET EvidenceOf(t) : drop = EvidenceOf(t)
      OBVIOUS
    <3>4. EvidenceOf(t) \subseteq Evidence
      BY DEF EvidenceOf
    <3>5. link' = link \ ({t} \X drop)
      <4>1. \A p \in link : p \in Trace \X Evidence
        BY <1>0 DEF TypeOK
      <4>2. \A p \in link : p \in {t} \X Evidence <=> p \in {t} \X drop
        BY <3>3, <4>1 DEF EvidenceOf
      <4> QED BY <3>1, <4>2
    <3>6. \A u \in Trace : u # t => book'[u] = book[u] /\ del'[u] = del[u]
      BY <1>0, <3>1 DEF TypeOK
    <3>7. del'[t].phase # "sources"
      BY <1>0, <3>1 DEF TypeOK, Ended, At
    <3>8. /\ \A e \in drop : home'[e] = Gone
          /\ \A e \in Evidence \ EvidenceOf(t) : home'[e] = home[e]
      BY <3>1, <3>2, <3>3, <3>4
    <3> QED BY <3>1, <3>3, <3>5, <3>6, <3>7, <3>8, Unlinks
  <2>2. CASE DeleteSources(t)
    <3>1. LastLinkOf(t, EvidenceOf(t)) = EvidenceOf(t)
      BY <1>0, OnlyLink
    <3>2. del'[t].phase = "sources" => del'[t].prune = EvidenceOf(t)
      BY <1>0, <2>2, <3>1 DEF DeleteSources, At, Ended, TypeOK
    <3>3. \A u \in Trace : u # t => del'[u] = del[u]
      BY <1>0, <2>2 DEF DeleteSources, TypeOK
    <3>4. UNCHANGED <<book, link, home, look>>
      BY <2>2 DEF DeleteSources, rowVars
    <3> QED BY <1>0, <3>2, <3>3, <3>4, NoLinks
  <2>3. CASE DeleteLock(t) \/ DeleteVectors(t) \/ DeleteChunks(t) \/ DeleteStrategies(t)
    <3>1. del'[t].phase # "sources"
      BY <1>0, <2>3 DEF DeleteLock, DeleteVectors, DeleteChunks, DeleteStrategies, DeleteLevel,
         At, Ended, TypeOK
    <3>2. \A u \in Trace : u # t => del'[u] = del[u]
      BY <1>0, <2>3 DEF DeleteLock, DeleteVectors, DeleteChunks, DeleteStrategies, DeleteLevel,
         TypeOK
    <3>3. UNCHANGED <<book, link, home, look>>
      BY <2>3 DEF DeleteLock, DeleteVectors, DeleteChunks, DeleteStrategies, DeleteLevel, rowVars
    <3> QED BY <1>0, <3>1, <3>2, <3>3, NoLinks
  <2> QED BY <1>7, <2>1, <2>2, <2>3 DEF DeleteStep
<1>8. ASSUME NEW t \in Trace, Request(t) PROVE Goal
  <2>1. ASSUME NEW by \in Book \cup {None}, DeleteAsk(t, by) PROVE Goal
    <3>1. del' = [del EXCEPT ![t] = At("asked", by, {}, {})]
          /\ UNCHANGED <<book, link, home, look>>
      BY <2>1 DEF DeleteAsk, rowVars
    <3>2. \A u \in Trace : del'[u].phase = "sources" => del'[u] = del[u]
      BY <1>0, <3>1 DEF TypeOK, At
    <3> QED BY <1>0, <3>1, <3>2, NoLinks
  <2>2. ASSUME NEW drop \in SUBSET Evidence, MoveTrace(t, drop) PROVE Goal
    <3>1. /\ drop \in SUBSET EvidenceOf(t) /\ ~Locked(t)
          /\ book' = [book EXCEPT ![t] = move[t].to]
          /\ link' = link \ ({t} \X drop)
          /\ home' = [e \in Evidence |-> IF e \in LastLinkOf(t, drop) THEN Gone
                           ELSE IF e \in LastLinkOf(t, EvidenceOf(t) \ drop) THEN move[t].to
                           ELSE home[e]]
          /\ del' = del /\ look' = look
      BY <2>2 DEF MoveTrace, HomeAfterMove
    <3>2. move[t].to \in Book
      BY <1>0, <2>2, MoveGoesToABook
    <3>3. LastLinkOf(t, drop) = drop /\ LastLinkOf(t, EvidenceOf(t) \ drop) = EvidenceOf(t) \ drop
      BY <1>0, <3>1, OnlyLink
    <3>4. EvidenceOf(t) \subseteq Evidence
      BY DEF EvidenceOf
    <3>5. book'[t] = move[t].to /\ \A u \in Trace : u # t => book'[u] = book[u] /\ del'[u] = del[u]
      BY <1>0, <3>1 DEF TypeOK
    <3>6. /\ \A e \in drop : home'[e] = Gone
          /\ \A e \in EvidenceOf(t) \ drop : home'[e] = book'[t]
          /\ \A e \in Evidence \ EvidenceOf(t) : home'[e] = home[e]
      BY <3>1, <3>3, <3>4, <3>5
    <3>7. del'[t].phase # "sources"
      BY <3>1 DEF Locked, LockedBy, InTransaction
    <3> QED BY <3>1, <3>2, <3>5, <3>6, <3>7, Unlinks
  <2>3. ASSUME NEW fresh \in SUBSET Evidence, VerifyResolve(t, fresh) PROVE Goal
    <3>1. /\ look[t] # None /\ ~Locked(t) /\ book[t] \in WriteBooks /\ fresh \subseteq Unborn
          /\ link' = link \cup ({t} \X fresh)
          /\ home' = [e \in Evidence |-> IF e \in fresh THEN look[t] ELSE home[e]]
          /\ look' = [look EXCEPT ![t] = None]
          /\ book' = book /\ del' = del
      BY <2>3 DEF VerifyResolve, MayResolve
    <3>2. look[t] \in WriteBooks /\ WriteBooks \subseteq Book
      BY <1>0, <3>1, IndexAssumption
    <3>3. \A u \in Trace, e \in Evidence : <<u, e>> \in {t} \X fresh <=> u = t /\ e \in fresh
      OBVIOUS
    <3>4. \A e \in Evidence : IF e \in fresh THEN home'[e] = look[t] ELSE home'[e] = home[e]
      BY <3>1
    <3>5. \A u \in Trace : look'[u] \in {look[u], None}
      BY <1>0, <3>1 DEF TypeOK
    <3>6. \A u \in Present : book'[u] = book[u]
      BY <3>1
    <3>7. Links({t} \X fresh)
      BY <3>1, <3>2, <3>3, <3>4, <3>5, <3>6 DEF Links
    <3>8. OneWriteBook => FiledAs({t} \X fresh)
      BY <3>1, <3>2, <3>3, <3>4 DEF FiledAs, OneWriteBook
    <3> QED BY <3>7, <3>8, LinksKeep
  <2>4. CASE VerifyLook(t) \/ VerifyRefused(t)
    <3>1. UNCHANGED <<book, link, home, del>>
      BY <2>4 DEF VerifyLook, VerifyRefused, rowVars
    <3>2. \A u \in Trace : look'[u] # None => look'[u] \in WriteBooks
      BY <1>0, <2>4 DEF VerifyLook, VerifyRefused, TypeOK
    <3> QED BY <3>1, <3>2, NoLinks
  <2>5. CASE (\E to \in Book : MoveAsk(t, to)) \/ MoveRefused(t)
    BY <1>1, <2>5 DEF MoveAsk, MoveRefused, rowVars
  <2> QED BY <1>8, <2>1, <2>2, <2>3, <2>4, <2>5 DEF Request
<1>9. ASSUME UNCHANGED vars PROVE Goal
  BY <1>1, <1>9 DEF vars
<1> HIDE DEF Goal
<1>10. Goal
  BY <1>4, <1>5, <1>6, <1>7, <1>8, <1>9 DEF Next
<1> QED BY <1>10 DEF Goal

LEMMA EvidenceInvariant == Spec /\ ~MayShare => []EvidenceInv /\ (OneWriteBook => []Filed)
<1>1. Init => EvidenceInv /\ Filed
  BY IndexAssumption DEF Init, EvidenceInv, Filed, NoDelete, At
<1>2. CASE ~MayShare
  <2>1. IndexInv /\ EvidenceInv /\ [Next]_vars => EvidenceInv'
    BY <1>2, EvidenceStep
  <2>2. CASE OneWriteBook
    <3>1. IndexInv /\ EvidenceInv /\ Filed /\ [Next]_vars => Filed'
      BY <1>2, <2>2, EvidenceStep
    <3> QED BY <1>1, <2>1, <3>1, IndexInvariant, PTL DEF Spec
  <2>3. CASE ~OneWriteBook
    BY <1>1, <2>1, <2>3, IndexInvariant, PTL DEF Spec
  <2> QED BY <2>2, <2>3
<1> QED BY <1>2

(* Delete and move prune exactly the entries they were the last link to,   *)
(* if no imported file shares one: what a delete reads before it commits   *)
(* is still so when it does, because the trace's lock keeps its links.     *)
THEOREM PrunedWithLastLink == Spec /\ ~MayShare => []EvidencePruned
<1>1. EvidenceInv => EvidencePruned
  BY DEF EvidenceInv, EvidencePruned, Present
<1> QED BY <1>1, EvidenceInvariant, PTL

(* An entry is searchable in its recipe's book through every move, and     *)
(* when a draft is verified, if the verifier writes in one book only.      *)
THEOREM EvidenceFollows == Spec /\ ~MayShare /\ OneWriteBook => []EvidenceInItsBook
<1>1. Filed => EvidenceInItsBook
  BY DEF Filed, EvidenceInItsBook
<1>2. CASE OneWriteBook
  BY <1>1, <1>2, EvidenceInvariant, PTL
<1> QED BY <1>2

-----------------------------------------------------------------------------
(* What the delete and the verifier know when they act, and what the       *)
(* backfill works on: enough to see each step as one of RecipeIndex, or    *)
(* none.  None of it needs evidence to be unshared.                        *)

(* Nothing goes but by a delete, which is then done. *)
GoneByDelete == \A t \in Trace : book[t] = Gone => del[t].phase = "done"

(* A delete about to commit holds chains of its own recipe only, and the   *)
(* entries it is about to prune hang off nothing else.                     *)
HoldsItsOwn ==
  \A t \in Trace : del[t].phase = "sources" =>
    /\ del[t].held \subseteq ChainsOf(t)
    /\ \A e \in del[t].prune : e \in EvidenceOf(t) /\ ~LinkedElsewhere(t, e)

LinkedAreBorn == \A t \in Trace, e \in Evidence : <<t, e>> \in link => home[e] # Absent
ReadersWrite == \A t \in Trace : look[t] # None => look[t] \in WriteBooks
HandlersHaveStrategy == \A w \in Worker : check[w].phase # "idle" => check[w].strategy \in Strategy

RecipeInv == GoneByDelete /\ HoldsItsOwn /\ LinkedAreBorn /\ ReadersWrite /\ HandlersHaveStrategy

(* A step that unlinks nothing of a locked trace, links only what nobody   *)
(* had, and takes from a delete nothing that it holds.                     *)
LEMMA RecipeKept ==
  ASSUME IndexInv, RecipeInv,
         \A t \in Trace : book'[t] = Gone => del'[t].phase = "done",
         \A t \in Trace : del'[t] = del[t] \/ del'[t].phase # "sources",
         \A t \in Trace : Locked(t) /\ del'[t] = del[t] => ChainsOf(t) \subseteq ChainsOf(t)',
         \A t \in Trace, e \in Evidence :
           Locked(t) /\ del'[t] = del[t] /\ <<t, e>> \in link => <<t, e>> \in link',
         \A t \in Trace, e \in Evidence :
           <<t, e>> \in link' => <<t, e>> \in link \/ (home[e] = Absent /\ home'[e] # Absent),
         \A e \in Evidence : home'[e] = Absent => home[e] = Absent,
         ReadersWrite', HandlersHaveStrategy'
  PROVE  RecipeInv'
<1>1. GoneByDelete' BY DEF GoneByDelete
<1>2. LinkedAreBorn' BY DEF RecipeInv, LinkedAreBorn
<1>3. ASSUME NEW t \in Trace, del'[t].phase = "sources"
      PROVE  /\ del'[t].held \subseteq ChainsOf(t)'
             /\ \A e \in del'[t].prune : (e \in EvidenceOf(t))' /\ ~LinkedElsewhere(t, e)'
  <2>1. del'[t] = del[t] /\ Locked(t)
    BY <1>3 DEF Locked, LockedBy, InTransaction
  <2>2. /\ del[t].held \subseteq ChainsOf(t)
        /\ \A e \in del[t].prune : e \in EvidenceOf(t) /\ ~LinkedElsewhere(t, e)
    BY <1>3, <2>1 DEF RecipeInv, HoldsItsOwn
  <2>3. ASSUME NEW e \in del[t].prune PROVE (e \in EvidenceOf(t))' /\ ~LinkedElsewhere(t, e)'
    <3>1. e \in Evidence /\ <<t, e>> \in link /\ \A u \in Trace \ {t} : <<u, e>> \notin link
      BY <2>2 DEF EvidenceOf, LinkedElsewhere
    <3>2. home[e] # Absent
      BY <3>1 DEF RecipeInv, LinkedAreBorn
    <3>3. <<t, e>> \in link' /\ \A u \in Trace \ {t} : <<u, e>> \notin link'
      BY <2>1, <3>1, <3>2
    <3> QED BY <3>1, <3>3 DEF EvidenceOf, LinkedElsewhere
  <2> QED BY <2>1, <2>2, <2>3
<1>4. HoldsItsOwn' BY <1>3 DEF HoldsItsOwn
<1> QED BY <1>1, <1>2, <1>4 DEF RecipeInv

(* A locked trace is there: its delete has not committed. *)
LEMMA LockedArePresent ==
  ASSUME IndexInv, RecipeInv, NEW t \in Trace, Locked(t)
  PROVE  t \in Present
<1>1. del[t] # NoDelete /\ del[t].phase # "done"
  BY DEF Locked, LockedBy, InTransaction, NoDelete, At
<1> QED BY <1>1 DEF IndexInv, TypeOK, DeletesExisting, RecipeInv, GoneByDelete, Present

(* A step that changes neither recipes, links nor chains, and no delete. *)
LEMMA RecipeAsBefore ==
  ASSUME IndexInv, RecipeInv, UNCHANGED <<book, link, home, del>>,
         \A t \in Trace : ChainsOf(t) \subseteq ChainsOf(t)',
         ReadersWrite', HandlersHaveStrategy'
  PROVE  RecipeInv'
<1>1. \A t \in Trace : book'[t] = Gone => del'[t].phase = "done"
  BY DEF RecipeInv, GoneByDelete
<1> QED BY <1>1, RecipeKept

LEMMA NewRecipes == ASSUME IndexInv, RecipeInv, New PROVE RecipeInv'
<1>0. TypeOK /\ Unborn \subseteq Evidence /\ Absent \notin Book /\ Gone \notin Book
      /\ \A e \in Unborn : home[e] = Absent
  BY IndexAssumption DEF IndexInv, Unborn
<1>1. ASSUME NEW t \in Trace, NEW b \in Book, NEW entries \in SUBSET Unborn, NEW d \in BOOLEAN,
             Deposit(t, b, entries, d)
      PROVE  RecipeInv'
  <2>1. /\ book' = [book EXCEPT ![t] = b] /\ link' = link \cup ({t} \X entries)
        /\ home' = [e \in Evidence |-> IF e \in entries THEN b ELSE home[e]]
        /\ del' = del /\ look' = look /\ check' = check
    BY Zenon, <1>1 DEF Deposit
  <2>2. \A u \in Trace : book'[u] = Gone => book[u] = Gone
    BY <1>0, <2>1 DEF TypeOK
  <2>3. \A u \in Trace, e \in Evidence :
          <<u, e>> \in link' => <<u, e>> \in link \/ (home[e] = Absent /\ home'[e] # Absent)
    BY <1>0, <2>1
  <2>4. \A k \in Src : src[k].state = "live" => src'[k] = src[k]
    BY <1>0, <1>1, DepositChains
  <2>5. \A u \in Trace : ChainsOf(u) \subseteq ChainsOf(u)'
    BY <2>4 DEF ChainsOf
  <2>6. \A e \in Evidence : home'[e] = Absent => home[e] = Absent
    BY <1>0, <2>1
  <2> QED BY <2>1, <2>2, <2>3, <2>5, <2>6, RecipeKept DEF RecipeInv, GoneByDelete, ReadersWrite, HandlersHaveStrategy
<1>2. ASSUME NEW ts \in SUBSET Trace, NEW b \in Book, NEW ls \in SUBSET (ts \X Unborn),
             NEW ds \in SUBSET ts, Import(ts, b, ls, ds)
      PROVE  RecipeInv'
  <2>1. /\ book' = [t \in Trace |-> IF t \in ts THEN b ELSE book[t]]
        /\ link' = link \cup ls
        /\ home' = [e \in Evidence |-> IF \E p \in ls : p[2] = e THEN b ELSE home[e]]
        /\ UNCHANGED <<src, del, look, check>>
    BY <1>2 DEF Import
  <2>2. \A u \in Trace : book'[u] = Gone => book[u] = Gone
    BY <1>0, <2>1 DEF TypeOK
  <2>3. \A u \in Trace, e \in Evidence :
          <<u, e>> \in link' => <<u, e>> \in link \/ (home[e] = Absent /\ home'[e] # Absent)
    BY <1>0, <2>1
  <2>4. \A u \in Trace : ChainsOf(u) \subseteq ChainsOf(u)'
    BY <2>1 DEF ChainsOf
  <2>5. \A e \in Evidence : home'[e] = Absent => home[e] = Absent
    BY <1>0, <2>1
  <2> QED BY <2>1, <2>2, <2>3, <2>4, <2>5, RecipeKept DEF RecipeInv, GoneByDelete, ReadersWrite, HandlersHaveStrategy
<1> QED BY <1>1, <1>2 DEF New

LEMMA BackfillRecipes ==
  ASSUME IndexInv, RecipeInv, NEW w \in Worker,
         Backfill(w) \/ Crash(w) \/ (\E s \in Strategy : ListMissing(w, s))
  PROVE  RecipeInv'
<1>0. TypeOK /\ HandlerAims /\ (\A v \in Worker : check[v].phase # "idle" => check[v].strategy \in Strategy)
  BY DEF IndexInv, RecipeInv, HandlersHaveStrategy
<1>1. /\ UNCHANGED <<book, link, home, del, look>>
      /\ \A v \in Worker \ {w} : check'[v] = check[v]
  <2>1. CASE InsertSource(w)
    BY Zenon, <1>0, <2>1 DEF InsertSource, TypeOK
  <2>2. CASE InsertChain(w)
    BY Zenon, <1>0, <2>2 DEF InsertChain, TypeOK
  <2> QED
    BY <1>0, <2>1, <2>2 DEF Backfill, ReadEvidence, Crash, ListMissing, rowVars, TypeOK
<1>2. check'[w].phase # "idle" => check'[w].strategy \in Strategy
  <2>0. check[w] \in Handler
    BY <1>0 DEF TypeOK
  <2>1. NextTrace(check[w]).phase # "idle" => NextTrace(check[w]).strategy = check[w].strategy
    BY DEF NextTrace, Idle
  <2>2. CASE InsertSource(w)
    <3>1. check' = [check EXCEPT ![w] = NextTrace(check[w])]
          \/ \E k : check' = [check EXCEPT ![w] = [check[w] EXCEPT !.phase = "chain", !.src = k]]
      BY <1>0, <2>2, InsertSourceChains
    <3>2. check'[w] = NextTrace(check[w])
          \/ \E k : check'[w] = [check[w] EXCEPT !.phase = "chain", !.src = k]
      BY <1>0, <3>1 DEF TypeOK
    <3>3. check[w].phase # "idle"
      BY <2>2 DEF InsertSource
    <3> QED BY <1>0, <2>0, <2>1, <3>2, <3>3 DEF Handler
  <2>3. CASE InsertChain(w)
    <3>1. check'[w] \in {NextTrace(check[w]), check[w], Idle} /\ check[w].phase # "idle"
      BY <1>0, <2>3 DEF InsertChain, TypeOK
    <3> QED BY <1>0, <2>1, <3>1 DEF Idle
  <2>4. CASE (\E t \in Trace : ReadEvidence(w, t)) \/ Crash(w) \/ (\E s \in Strategy : ListMissing(w, s))
    BY <1>0, <2>4 DEF ReadEvidence, Crash, ListMissing, Idle, TypeOK
  <2> QED BY <2>2, <2>3, <2>4 DEF Backfill
<1>3. \A k \in Src : src[k].state = "live" => src'[k].state = "live" /\ src'[k].trace = src[k].trace
  <2>1. CASE src' = src
    BY <2>1
  <2>2. CASE InsertSource(w)
    <3>1. ASSUME NEW k \in FreeSrc, src' = [src EXCEPT ![k] = SourceFor(check[w])]
          PROVE  \A j \in Src : src[j].state = "live" => src'[j] = src[j]
      BY <1>0, <3>1 DEF FreeSrc, TypeOK
    <3> QED BY <1>0, <2>1, <2>2, <3>1, InsertSourceChains
  <2>3. CASE InsertChain(w)
    BY <1>0, <2>3, InsertChainChains
  <2> QED BY <2>1, <2>2, <2>3 DEF Backfill, ReadEvidence, Crash, ListMissing, rowVars
<1>4. \A t \in Trace : ChainsOf(t) \subseteq ChainsOf(t)'
  BY <1>3 DEF ChainsOf
<1>5. ReadersWrite' /\ HandlersHaveStrategy'
  BY <1>0, <1>1, <1>2 DEF RecipeInv, ReadersWrite, HandlersHaveStrategy
<1> QED BY <1>1, <1>4, <1>5, RecipeAsBefore

LEMMA DeleteRecipes == ASSUME IndexInv, RecipeInv, NEW t \in Trace, DeleteStep(t) PROVE RecipeInv'
<1>0. TypeOK /\ UNCHANGED <<check, look>>
  BY DEF IndexInv, DeleteStep, DeleteLock, DeleteVectors, DeleteChunks, DeleteStrategies, DeleteLevel,
     DeleteSources, DeleteCommit
<1>1. ReadersWrite' /\ HandlersHaveStrategy'
  BY <1>0 DEF RecipeInv, ReadersWrite, HandlersHaveStrategy
<1>2. del[t].phase \notin {"idle", "done"} /\ \A u \in Trace \ {t} : del'[u] = del[u]
  BY <1>0 DEF DeleteStep, DeleteLock, DeleteVectors, DeleteChunks, DeleteStrategies, DeleteLevel,
     DeleteSources, DeleteCommit, TypeOK
<1>3. CASE DeleteCommit(t)
  <2>1. /\ del[t].phase = "sources" /\ book' = [book EXCEPT ![t] = Gone]
        /\ link' = link \ ({t} \X Evidence)
        /\ home' = [e \in Evidence |-> IF e \in del[t].prune THEN Gone ELSE home[e]]
        /\ del'[t] = Ended(del[t], "done")
    BY <1>0, <1>3 DEF DeleteCommit, TypeOK
  <2>2. del'[t].phase = "done"
    BY <2>1 DEF Ended, At
  <2>3. \A u \in Trace : book'[u] = Gone => del'[u].phase = "done"
    BY <1>0, <1>2, <2>1, <2>2 DEF RecipeInv, GoneByDelete, TypeOK
  <2>4. ASSUME NEW u \in Trace \ {t} PROVE ChainsOf(u) \subseteq ChainsOf(u)'
    <3>1. \A k \in del[t].held : k \notin ChainsOf(u)
      BY <2>1 DEF RecipeInv, HoldsItsOwn, ChainsOf
    <3>2. \A k \in ChainsOf(u) : src'[k].state = src[k].state /\ src'[k].trace = src[k].trace
      BY <1>0, <1>3, <3>1, CommitChains DEF ChainsOf
    <3> QED BY <3>2 DEF ChainsOf
  <2>5. \A u \in Trace \ {t}, e \in Evidence : <<u, e>> \in link => <<u, e>> \in link'
    BY <2>1
  <2>6. \A e \in Evidence : home'[e] = Absent => home[e] = Absent
    BY <2>1, IndexAssumption
  <2>7. del'[t] # del[t]
    BY <2>1, <2>2
  <2> QED BY <1>1, <1>2, <2>1, <2>2, <2>3, <2>4, <2>5, <2>6, <2>7, RecipeKept
<1>4. CASE DeleteSources(t)
  <2>1. UNCHANGED <<book, link, home, src>>
    BY <1>4 DEF DeleteSources, rowVars
  <2>2. \/ del'[t] = At("sources", del[t].by, ChainsOf(t), LastLinkOf(t, EvidenceOf(t)))
        \/ del'[t] = Ended(del[t], "failed")
    BY <1>0, <1>4 DEF DeleteSources, TypeOK
  <2>3. del'[t].phase = "sources" =>
          /\ del'[t].held \subseteq ChainsOf(t)
          /\ \A e \in del'[t].prune : e \in EvidenceOf(t) /\ ~LinkedElsewhere(t, e)
    BY <2>2 DEF At, Ended, LastLinkOf
  <2>4. \A u \in Trace : ChainsOf(u)' = ChainsOf(u) /\ EvidenceOf(u)' = EvidenceOf(u)
        /\ \A e : LinkedElsewhere(u, e)' = LinkedElsewhere(u, e)
    BY <2>1 DEF ChainsOf, EvidenceOf, LinkedElsewhere
  <2>5. HoldsItsOwn'
    BY <1>2, <2>3, <2>4 DEF RecipeInv, HoldsItsOwn
  <2>6. GoneByDelete'
    BY <1>2, <2>1 DEF RecipeInv, GoneByDelete
  <2> QED BY <1>1, <2>1, <2>5, <2>6 DEF RecipeInv, LinkedAreBorn
<1>5. CASE DeleteLock(t) \/ DeleteVectors(t) \/ DeleteChunks(t) \/ DeleteStrategies(t)
  <2>1. UNCHANGED <<book, link, home, src>>
    BY <1>5 DEF DeleteLock, DeleteVectors, DeleteChunks, DeleteStrategies, DeleteLevel, rowVars
  <2>2. del'[t].phase # "sources"
    BY <1>0, <1>5 DEF DeleteLock, DeleteVectors, DeleteChunks, DeleteStrategies, DeleteLevel, At, Ended, TypeOK
  <2>3. \A u \in Trace : book'[u] = Gone => del'[u].phase = "done"
    BY <1>2, <2>1 DEF RecipeInv, GoneByDelete
  <2>4. \A u \in Trace : ChainsOf(u)' = ChainsOf(u)
    BY <2>1 DEF ChainsOf
  <2> QED BY <1>1, <1>2, <2>1, <2>2, <2>3, <2>4, RecipeKept
<1> QED BY <1>3, <1>4, <1>5 DEF DeleteStep

LEMMA RequestRecipes == ASSUME IndexInv, RecipeInv, NEW t \in Trace, Request(t) PROVE RecipeInv'
<1>0. TypeOK /\ (\A u \in Trace : look[u] # None => look[u] \in WriteBooks) /\ check' = check
  BY DEF IndexInv, RecipeInv, ReadersWrite, Request, DeleteAsk, MoveAsk, MoveRefused, MoveTrace, VerifyLook,
     VerifyResolve, VerifyRefused
<1>1. HandlersHaveStrategy'
  BY <1>0 DEF RecipeInv, HandlersHaveStrategy
<1>2. ASSUME NEW by \in Book \cup {None}, DeleteAsk(t, by) PROVE RecipeInv'
  <2>1. /\ UNCHANGED <<book, link, home, src, look>> /\ book[t] \in Book
        /\ del'[t].phase = "asked" /\ \A u \in Trace \ {t} : del'[u] = del[u]
    BY <1>0, <1>2 DEF DeleteAsk, rowVars, Present, At, TypeOK
  <2>2. \A u \in Trace : book'[u] = Gone => del'[u].phase = "done"
    BY <2>1, IndexAssumption DEF RecipeInv, GoneByDelete
  <2>3. \A u \in Trace : ChainsOf(u)' = ChainsOf(u)
    BY <2>1 DEF ChainsOf
  <2>4. ReadersWrite'
    BY <1>0, <2>1 DEF ReadersWrite
  <2> QED BY <1>1, <2>1, <2>2, <2>3, <2>4, RecipeKept
<1>3. ASSUME NEW drop \in SUBSET Evidence, MoveTrace(t, drop) PROVE RecipeInv'
  <2>1. /\ ~Locked(t) /\ book' = [book EXCEPT ![t] = move[t].to]
        /\ link' = link \ ({t} \X drop)
        /\ home' = [e \in Evidence |-> IF e \in LastLinkOf(t, drop) THEN Gone
                         ELSE IF e \in LastLinkOf(t, EvidenceOf(t) \ drop) THEN move[t].to
                         ELSE home[e]]
        /\ UNCHANGED <<del, look>>
    BY <1>3 DEF MoveTrace, HomeAfterMove
  <2>2. move[t].to \in Book
    BY <1>0, <1>3, MoveGoesToABook
  <2>3. \A u \in Trace : book'[u] = Gone => del'[u].phase = "done"
    BY <1>0, <2>1, <2>2, IndexAssumption DEF RecipeInv, GoneByDelete, TypeOK
  <2>4. \A u \in Trace : ChainsOf(u) \subseteq ChainsOf(u)'
    BY <1>0, <1>3, MoveChains DEF ChainsOf, SameChain
  <2>5. \A u \in Trace, e \in Evidence :
          /\ Locked(u) /\ <<u, e>> \in link => <<u, e>> \in link'
          /\ <<u, e>> \in link' => <<u, e>> \in link
    BY <2>1
  <2>6. \A e \in Evidence : home'[e] = Absent => home[e] = Absent
    BY <2>1, <2>2, IndexAssumption
  <2>7. ReadersWrite'
    BY <1>0, <2>1 DEF ReadersWrite
  <2> QED BY <1>1, <2>1, <2>3, <2>4, <2>5, <2>6, <2>7, RecipeKept
<1>4. ASSUME NEW fresh \in SUBSET Evidence, VerifyResolve(t, fresh) PROVE RecipeInv'
  <2>1. /\ look[t] # None /\ fresh \subseteq Unborn
        /\ link' = link \cup ({t} \X fresh)
        /\ home' = [e \in Evidence |-> IF e \in fresh THEN look[t] ELSE home[e]]
        /\ look' = [look EXCEPT ![t] = None]
        /\ UNCHANGED <<book, src, del>>
    BY <1>4 DEF VerifyResolve
  <2>2. look[t] # Absent
    BY <1>0, <2>1, IndexAssumption
  <2>3. \A u \in Trace, e \in Evidence :
          <<u, e>> \in link' => <<u, e>> \in link \/ (home[e] = Absent /\ home'[e] # Absent)
    BY <2>1, <2>2 DEF Unborn
  <2>4. \A e \in Evidence : home'[e] = Absent => home[e] = Absent
    BY <2>1, <2>2
  <2>5. ReadersWrite'
    BY <1>0, <2>1 DEF ReadersWrite, TypeOK
  <2>6. \A u \in Trace : ChainsOf(u)' = ChainsOf(u) /\ (book'[u] = Gone => del'[u].phase = "done")
    BY <2>1 DEF ChainsOf, RecipeInv, GoneByDelete
  <2> QED BY <1>1, <2>1, <2>3, <2>4, <2>5, <2>6, RecipeKept
<1>5. CASE (\E to \in Book : MoveAsk(t, to)) \/ MoveRefused(t) \/ VerifyLook(t) \/ VerifyRefused(t)
  <2>1. UNCHANGED <<book, link, home, src, del>>
    BY <1>5 DEF MoveAsk, MoveRefused, VerifyLook, VerifyRefused, rowVars
  <2>2. ReadersWrite'
    BY <1>0, <1>5 DEF MoveAsk, MoveRefused, VerifyLook, VerifyRefused, ReadersWrite, TypeOK
  <2>3. \A u \in Trace : ChainsOf(u)' = ChainsOf(u)
    BY <2>1 DEF ChainsOf
  <2> QED BY <1>1, <2>1, <2>2, <2>3, RecipeAsBefore
<1> QED BY <1>2, <1>3, <1>4, <1>5 DEF Request

LEMMA RecipeInvariant == Spec => []RecipeInv
<1>1. Init => RecipeInv
  BY IndexAssumption DEF Init, RecipeInv, GoneByDelete, HoldsItsOwn, LinkedAreBorn, ReadersWrite,
     HandlersHaveStrategy, NoDelete, At, Idle
<1>2. IndexInv /\ RecipeInv /\ [Next]_vars => RecipeInv'
  <2> SUFFICES ASSUME IndexInv, RecipeInv, [Next]_vars PROVE RecipeInv'
    OBVIOUS
  <2>1. CASE UNCHANGED vars
    <3>1. \A t \in Trace : ChainsOf(t)' = ChainsOf(t)
      BY <2>1 DEF vars, ChainsOf
    <3> QED BY <2>1, <3>1, RecipeAsBefore DEF vars, RecipeInv, ReadersWrite, HandlersHaveStrategy
  <2> QED BY <2>1, NewRecipes, BackfillRecipes, DeleteRecipes, RequestRecipes DEF Next
<1> QED BY <1>1, <1>2, IndexInvariant, PTL DEF Spec

-----------------------------------------------------------------------------
(* Each step is one of RecipeIndex, or none of its.                        *)

(* What a live chain shows. *)
View(c) == [trace |-> c.trace, strategy |-> c.strategy, book |-> c.book, rows |-> c.rows]

LEMMA IndexAt ==
  ASSUME IndexInv, NEW k \in Src
  PROVE  /\ src[k].state = "live" => Index[k] = View(src[k]) /\ Index[k] # NotShown /\ Index[k].trace = src[k].trace
         /\ src[k].state # "live" => Index[k] = NotShown
<1>1. src[k].state = "live" => src[k].trace # None
  BY IndexAssumption DEF IndexInv, Agrees, NoOrphans, Present
<1> QED BY <1>1 DEF Index, View, NotShown

LEMMA IndexAtNext ==
  ASSUME NEW k \in Src
  PROVE  Index'[k] = IF src'[k].state = "live" THEN View(src'[k]) ELSE NotShown
BY DEF Index, View

(* One entry changes. *)
LEMMA IndexChanges ==
  ASSUME NEW k \in Src, NEW row, Index'[k] = row, \A j \in Src \ {k} : Index'[j] = Index[j]
  PROVE  Index' = [Index EXCEPT ![k] = row]
BY DEF Index

LEMMA IndexStays ==
  ASSUME \A k \in Src : (src[k].state = "live" \/ src'[k].state = "live") => src'[k] = src[k]
  PROVE  Index' = Index
BY DEF Index

LEMMA SameSets ==
  ASSUME IndexInv
  PROVE  /\ Recipes!Present = Present /\ Recipes!Unborn = Unborn
         /\ \A t : Recipes!EvidenceOf(t) = EvidenceOf(t)
         /\ \A t \in Trace : Recipes!OnlyOf(t) = LastLinkOf(t, EvidenceOf(t))
         /\ \A t \in Trace : Recipes!EntriesOf(t) = ChainsOf(t)
         /\ FreeSrc \subseteq Recipes!UnusedEntries
<1>1. /\ Recipes!Present = Present /\ Recipes!Unborn = Unborn
      /\ \A t : Recipes!EvidenceOf(t) = EvidenceOf(t)
  BY DEF Recipes!Present, Present, Recipes!Unborn, Unborn, Recipes!EvidenceOf, EvidenceOf
<1>2. \A t \in Trace : Recipes!OnlyOf(t) = LastLinkOf(t, EvidenceOf(t))
  BY <1>1 DEF Recipes!OnlyOf, LastLinkOf, LinkedElsewhere
<1>3. \A t \in Trace : Recipes!EntriesOf(t) = ChainsOf(t)
  BY IndexAt DEF Recipes!EntriesOf, ChainsOf
<1>4. FreeSrc \subseteq Recipes!UnusedEntries
  BY IndexAt DEF FreeSrc, Recipes!UnusedEntries
<1> QED BY <1>1, <1>2, <1>3, <1>4

LEMMA DepositShown ==
  ASSUME IndexInv, NEW t \in Trace, NEW b \in Book, NEW entries \in SUBSET Unborn, NEW d \in BOOLEAN,
         Deposit(t, b, entries, d)
  PROVE  Recipes!Deposit(t, b, entries, d)
<1>1. PICK id \in [DepositStrategies -> FreeSrc] :
        /\ \A s, z \in DepositStrategies : id[s] = id[z] => s = z
        /\ src' = [j \in Src |->
             IF \E s \in DepositStrategies : id[s] = j
             THEN LET s == CHOOSE z \in DepositStrategies : id[z] = j
                  IN Source(t, s, b, IF s \in WithEvidence THEN entries ELSE {}, 3)
             ELSE src[j]]
  BY DEF Deposit
<1>2. id \in [DepositStrategies -> Recipes!UnusedEntries]
  BY SameSets
<1>3. ASSUME NEW k \in Src
      PROVE  Index'[k] = IF \E s \in DepositStrategies : id[s] = k
                         THEN Recipes!Shown(t, CHOOSE s \in DepositStrategies : id[s] = k, b, 3)
                         ELSE Index[k]
  <2>1. CASE \E s \in DepositStrategies : id[s] = k
    <3> DEFINE z == CHOOSE s \in DepositStrategies : id[s] = k
    <3>1. src'[k] = Source(t, z, b, IF z \in WithEvidence THEN entries ELSE {}, 3)
      BY <1>1, <2>1
    <3> HIDE DEF z
    <3>2. Index'[k] = Recipes!Shown(t, z, b, 3)
      BY <3>1, IndexAtNext DEF Source, View, Recipes!Shown
    <3> QED BY <2>1, <3>2 DEF z
  <2>2. CASE ~\E s \in DepositStrategies : id[s] = k
    <3>1. src'[k] = src[k]
      BY <1>1, <2>2
    <3>2. Index'[k] = Index[k]
      BY <3>1, IndexAt, IndexAtNext
    <3> QED BY <2>2, <3>2
  <2> QED BY <2>1, <2>2
<1>4. Index' = [k \in Src |-> IF \E s \in DepositStrategies : id[s] = k
                              THEN Recipes!Shown(t, CHOOSE s \in DepositStrategies : id[s] = k, b, 3)
                              ELSE Index[k]]
  BY <1>3 DEF Index
<1>5. /\ book[t] = Absent /\ book' = [book EXCEPT ![t] = b] /\ link' = link \cup ({t} \X entries)
      /\ draft' = (IF d THEN draft \cup {t} ELSE draft)
      /\ home' = [e \in Evidence |-> IF e \in entries THEN b ELSE home[e]]
  BY Zenon DEF Deposit
<1>6. draft' = draft \cup (IF d THEN {t} ELSE {})
  BY <1>5
<1> QED BY <1>1, <1>2, <1>4, <1>5, <1>6 DEF Recipes!Deposit

LEMMA ImportShown ==
  ASSUME IndexInv, NEW ts, NEW b, NEW ls, NEW ds, Import(ts, b, ls, ds)
  PROVE  Recipes!Import(ts, b, ls, ds)
<1>1. Index' = Index
  BY IndexStays DEF Import
<1> QED BY <1>1 DEF Import, Recipes!Import

(* The source goes to the book the trace is in when it is inserted. *)
LEMMA SourceShown ==
  ASSUME IndexInv, RecipeInv, NEW w \in Worker, InsertSource(w)
  PROVE  \/ \E t \in Trace, s \in Strategy : Recipes!AddEntry(t, s)
         \/ UNCHANGED Recipes!vars
<1>0. TypeOK /\ HandlerAims /\ check[w].strategy \in Strategy
  BY DEF IndexInv, RecipeInv, HandlersHaveStrategy, InsertSource
<1>1. UNCHANGED <<book, draft, link, home>>
  BY Zenon DEF InsertSource
<1>2. CASE src' = src
  BY <1>1, <1>2, IndexStays DEF Recipes!vars
<1>3. ASSUME NEW k \in FreeSrc, src' = [src EXCEPT ![k] = SourceFor(check[w])], check[w].trace \in Present
      PROVE  \E t \in Trace, s \in Strategy : Recipes!AddEntry(t, s)
  <2> DEFINE t == check[w].trace
             s == check[w].strategy
  <2>1. k \in Src /\ k \in Recipes!UnusedEntries /\ t \in Trace /\ t \in Recipes!Present
    BY <1>3, SameSets DEF FreeSrc, Present
  <2>2. Index'[k] = Recipes!Shown(t, s, book[t], 0)
    <3>1. src'[k] = SourceFor(check[w])
      BY <1>0, <1>3, <2>1 DEF TypeOK
    <3> QED BY <2>1, <3>1, IndexAtNext DEF SourceFor, Source, View, Recipes!Shown
  <2>3. \A j \in Src \ {k} : Index'[j] = Index[j]
    <3>1. \A j \in Src \ {k} : src'[j] = src[j]
      BY <1>0, <1>3 DEF TypeOK
    <3> QED BY <3>1, IndexAt, IndexAtNext
  <2>4. Index' = [Index EXCEPT ![k] = Recipes!Shown(t, s, book[t], 0)]
    BY <2>1, <2>2, <2>3, IndexChanges
  <2>5. Recipes!AddEntry(t, s)
    BY <1>1, <2>1, <2>4 DEF Recipes!AddEntry
  <2> QED BY <1>0, <2>1, <2>5
<1> QED BY <1>0, <1>2, <1>3, InsertSourceChains

LEMMA ChainShown ==
  ASSUME IndexInv, NEW w \in Worker, InsertChain(w)
  PROVE  (\E k \in Src : Recipes!AddRow(k)) \/ UNCHANGED Recipes!vars
<1>0. TypeOK /\ HandlerAims /\ UNCHANGED <<book, draft, link, home>>
  BY Zenon DEF IndexInv, InsertChain
<1> DEFINE k == check[w].src
<1>1. k \in Src /\ src[k].rows \in 0..2
  BY <1>0 DEF HandlerAims, InsertChain
<1>2. CASE src[k].state # "live"
  BY <1>0, <1>2, IndexStays DEF InsertChain, Recipes!vars
<1>3. CASE src[k].state = "live"
  <2>1. src' = [src EXCEPT ![k].rows = src[k].rows + 1]
    BY <1>3 DEF InsertChain
  <2>2. src[k] \in Chain
    BY <1>0, <1>1 DEF TypeOK
  <2>3. View(src'[k]) = Recipes!Shown(src[k].trace, src[k].strategy, src[k].book, src[k].rows + 1)
        /\ src'[k].state = "live"
    BY <1>0, <1>1, <1>3, <2>1, <2>2 DEF TypeOK, Chain, View, Recipes!Shown
  <2>4. Index[k] = View(src[k]) /\ Index[k] # NotShown /\ Index[k].rows = src[k].rows
    BY <1>1, <1>3, IndexAt DEF View
  <2>5. Index'[k] = Recipes!Shown(Index[k].trace, Index[k].strategy, Index[k].book, Index[k].rows + 1)
    BY <1>1, <2>3, <2>4, IndexAtNext DEF View
  <2>6. \A j \in Src \ {k} : Index'[j] = Index[j]
    <3>1. \A j \in Src \ {k} : src'[j] = src[j]
      BY <1>0, <2>1 DEF TypeOK
    <3> QED BY <3>1, IndexAt, IndexAtNext
  <2>7. Index' = [Index EXCEPT ![k] =
          Recipes!Shown(Index[k].trace, Index[k].strategy, Index[k].book, Index[k].rows + 1)]
    BY <1>1, <2>5, <2>6, IndexChanges
  <2>8. Recipes!AddRow(k)
    BY <1>0, <1>1, <2>4, <2>7 DEF Recipes!AddRow
  <2> QED BY <1>1, <2>8
<1> QED BY <1>2, <1>3

(* Whatever else ran between its statements, a delete takes the recipe's   *)
(* chains and evidence as they are at its commit.                          *)
LEMMA DeleteShown ==
  ASSUME IndexInv, RecipeInv, MayShare \/ EvidenceInv, NEW t \in Trace, DeleteCommit(t)
  PROVE  Recipes!Delete(t)
<1>1. /\ del[t].phase = "sources" /\ TypeOK
      /\ book' = [book EXCEPT ![t] = Gone] /\ draft' = draft \ {t}
      /\ link' = link \ ({t} \X Evidence)
      /\ home' = [e \in Evidence |-> IF e \in del[t].prune THEN Gone ELSE home[e]]
  BY DEF DeleteCommit, IndexInv
<1>2. t \in Present
  BY <1>1, LockedArePresent DEF Locked, LockedBy, InTransaction
<1>3. del[t].held = ChainsOf(t)
  BY <1>1 DEF IndexInv, HoldsAll, RecipeInv, HoldsItsOwn
<1>4. del[t].prune \subseteq LastLinkOf(t, EvidenceOf(t))
  BY <1>1 DEF RecipeInv, HoldsItsOwn, LastLinkOf
<1>5. MayShare \/ del[t].prune = LastLinkOf(t, EvidenceOf(t))
  BY <1>1, <1>4, OnlyLink DEF EvidenceInv
<1>6. ASSUME NEW k \in Src
      PROVE  Index'[k] = IF k \in Recipes!EntriesOf(t) THEN NotShown ELSE Index[k]
  <2>0. k \in Recipes!EntriesOf(t) <=> k \in del[t].held
    BY <1>3, SameSets
  <2>1. CASE k \in del[t].held
    <3>1. src'[k].state = "dead"
      BY <1>1, <2>1, CommitChains
    <3>2. Index'[k] = NotShown
      BY <3>1, IndexAtNext
    <3> QED BY <2>0, <2>1, <3>2
  <2>2. CASE k \notin del[t].held
    <3>1. src'[k] = src[k]
      BY <2>2 DEF DeleteCommit
    <3>2. Index'[k] = Index[k]
      BY <3>1, IndexAt, IndexAtNext
    <3> QED BY <2>0, <2>2, <3>2
  <2> QED BY <2>1, <2>2
<1>7. Index' = [k \in Src |-> IF k \in Recipes!EntriesOf(t) THEN NotShown ELSE Index[k]]
  BY <1>6 DEF Index
<1> QED BY <1>1, <1>2, <1>4, <1>5, <1>7, SameSets DEF Recipes!Delete

LEMMA MoveShown ==
  ASSUME IndexInv, NEW t \in Trace, NEW drop \in SUBSET Evidence, MoveTrace(t, drop)
  PROVE  \E to \in Book, dropped \in SUBSET Recipes!EvidenceOf(t) : Recipes!Move(t, to, dropped)
<1> DEFINE to == move[t].to
<1>0. TypeOK /\ to \in Book
  BY MoveGoesToABook DEF IndexInv
<1>1. /\ t \in Present /\ drop \subseteq EvidenceOf(t)
      /\ book' = [book EXCEPT ![t] = to] /\ link' = link \ ({t} \X drop)
      /\ home' = [e \in Evidence |-> IF e \in LastLinkOf(t, drop) THEN Gone
                       ELSE IF e \in LastLinkOf(t, EvidenceOf(t) \ drop) THEN to ELSE home[e]]
      /\ draft' = draft
  BY DEF MoveTrace, MayMove, HomeAfterMove
<1> HIDE DEF to
<1>2. home' = [e \in Evidence |-> IF e \notin LastLinkOf(t, EvidenceOf(t)) THEN home[e]
                                  ELSE IF e \in drop THEN Gone ELSE to]
  BY <1>1 DEF LastLinkOf
<1>3. ASSUME NEW k \in Src
      PROVE  Index'[k] = IF k \in Recipes!EntriesOf(t)
                         THEN Recipes!Shown(t, Index[k].strategy, to, Index[k].rows)
                         ELSE Index[k]
  <2>0. src'[k] = Refiled(src[k], t, to) /\ src[k] \in Chain
    BY <1>0 DEF MoveTrace, TypeOK, to
  <2>1. k \in Recipes!EntriesOf(t) <=> src[k].state = "live" /\ src[k].trace = t
    BY SameSets DEF ChainsOf
  <2>2. CASE src[k].state = "live" /\ src[k].trace = t
    <3>1. /\ src'[k].state = "live" /\ src'[k].trace = t /\ src'[k].book = to
          /\ src'[k].strategy = src[k].strategy /\ src'[k].rows = src[k].rows
      BY <2>0, <2>2 DEF Refiled, Chain
    <3>2. Index[k] = View(src[k])
      BY <2>2, IndexAt
    <3>3. Index[k].strategy = src[k].strategy /\ Index[k].rows = src[k].rows
      BY <3>2 DEF View
    <3> QED BY <2>1, <2>2, <3>1, <3>3, IndexAtNext DEF View, Recipes!Shown
  <2>3. CASE ~(src[k].state = "live" /\ src[k].trace = t)
    <3>1. src'[k] = src[k]
      BY <2>0, <2>3 DEF Refiled
    <3>2. Index'[k] = Index[k]
      BY <3>1, IndexAt, IndexAtNext
    <3> QED BY <2>1, <2>3, <3>2
  <2> QED BY <2>2, <2>3
<1>4. Index' = [k \in Src |-> IF k \in Recipes!EntriesOf(t)
                              THEN Recipes!Shown(t, Index[k].strategy, to, Index[k].rows)
                              ELSE Index[k]]
  BY <1>3 DEF Index
<1>5. Recipes!Move(t, to, drop)
  BY <1>1, <1>2, <1>4, SameSets DEF Recipes!Move
<1> QED BY <1>0, <1>1, <1>5, SameSets

LEMMA VerifyShown ==
  ASSUME IndexInv, RecipeInv, NEW t \in Trace, NEW fresh \in SUBSET Evidence, VerifyResolve(t, fresh)
  PROVE  \E new \in SUBSET Recipes!Unborn, b \in WriteBooks : Recipes!Verify(t, new, b)
<1>1. look[t] \in WriteBooks /\ fresh \subseteq Unborn
  BY DEF VerifyResolve, RecipeInv, ReadersWrite
<1>2. Index' = Index
  BY IndexStays DEF VerifyResolve
<1>3. Recipes!Verify(t, fresh, look[t])
  BY <1>2 DEF VerifyResolve, MayResolve, Recipes!Verify
<1> QED BY <1>1, <1>3, SameSets

LEMMA StepShown ==
  ASSUME IndexInv, RecipeInv, MayShare \/ EvidenceInv, [Next]_vars
  PROVE  [Recipes!Next]_(Recipes!vars)
<1>0. ASSUME UNCHANGED rowVars PROVE UNCHANGED Recipes!vars
  BY <1>0, IndexStays DEF rowVars, Recipes!vars
<1>1. ASSUME New PROVE Recipes!Next
  <2>1. ASSUME NEW t \in Trace, NEW b \in Book, NEW entries \in SUBSET Unborn, NEW d \in BOOLEAN,
               Deposit(t, b, entries, d)
        PROVE  Recipes!Next
    <3>1. Recipes!Deposit(t, b, entries, d) /\ entries \in SUBSET Recipes!Unborn
      BY <2>1, DepositShown, SameSets
    <3> QED BY <3>1 DEF Recipes!Next
  <2>2. ASSUME NEW ts \in SUBSET Trace, NEW b \in Book, NEW ls \in SUBSET (ts \X Unborn),
               NEW ds \in SUBSET ts, Import(ts, b, ls, ds)
        PROVE  Recipes!Next
    <3>1. Recipes!Import(ts, b, ls, ds) /\ ls \in SUBSET (ts \X Recipes!Unborn)
      BY <2>2, ImportShown, SameSets
    <3> QED BY <3>1 DEF Recipes!Next
  <2> QED BY <1>1, <2>1, <2>2 DEF New
<1>2. ASSUME NEW w \in Worker, Backfill(w) \/ Crash(w) \/ (\E s \in Strategy : ListMissing(w, s))
      PROVE  [Recipes!Next]_(Recipes!vars)
  <2>1. CASE InsertSource(w)
    BY <2>1, SourceShown DEF Recipes!Next
  <2>2. CASE InsertChain(w)
    BY <2>2, ChainShown DEF Recipes!Next
  <2> QED BY <1>0, <1>2, <2>1, <2>2 DEF Backfill, ReadEvidence, Crash, ListMissing
<1>3. ASSUME NEW t \in Trace, DeleteStep(t) PROVE [Recipes!Next]_(Recipes!vars)
  <2>1. CASE DeleteCommit(t)
    BY <2>1, DeleteShown DEF Recipes!Next
  <2> QED BY <1>0, <1>3, <2>1 DEF DeleteStep, DeleteLock, DeleteVectors, DeleteChunks, DeleteStrategies,
          DeleteLevel, DeleteSources
<1>4. ASSUME NEW t \in Trace, Request(t) PROVE [Recipes!Next]_(Recipes!vars)
  <2>1. ASSUME NEW drop \in SUBSET Evidence, MoveTrace(t, drop) PROVE Recipes!Next
    BY <2>1, MoveShown DEF Recipes!Next
  <2>2. ASSUME NEW fresh \in SUBSET Evidence, VerifyResolve(t, fresh) PROVE Recipes!Next
    BY <2>2, VerifyShown DEF Recipes!Next
  <2> QED BY <1>0, <1>4, <2>1, <2>2 DEF Request, DeleteAsk, MoveAsk, MoveRefused, VerifyLook, VerifyRefused
<1>5. CASE UNCHANGED vars
  BY <1>0, <1>5 DEF vars, rowVars
<1> QED BY <1>1, <1>2, <1>3, <1>4, <1>5 DEF Next

(* Moves, deletes, deposits and verifications change a recipe and all that *)
(* is searchable of it at once, and the backfill adds to it where it is    *)
(* then, however their statements interleave, shared evidence or not.      *)
THEOREM RecipesAreWhole == Spec => ImplementsRecipes
<1>1. Init => Recipes!Init
  BY DEF Init, Recipes!Init, Index, FreeSource
<1>2. CASE MayShare
  <2>1. IndexInv /\ RecipeInv /\ [Next]_vars => [Recipes!Next]_(Recipes!vars)
    BY <1>2, StepShown
  <2> QED BY <1>1, <2>1, IndexInvariant, RecipeInvariant, PTL DEF Spec, ImplementsRecipes, Recipes!Spec
<1>3. CASE ~MayShare
  <2>1. IndexInv /\ RecipeInv /\ EvidenceInv /\ [Next]_vars => [Recipes!Next]_(Recipes!vars)
    BY StepShown
  <2>2. Spec => []EvidenceInv
    BY <1>3, EvidenceInvariant, PTL
  <2> QED BY <1>1, <2>1, <2>2, IndexInvariant, RecipeInvariant, PTL DEF Spec, ImplementsRecipes, Recipes!Spec
<1> QED BY <1>2, <1>3

-----------------------------------------------------------------------------
(* What the promise gives: evidence is searchable as long as a recipe uses *)
(* it, though the last statement of a delete and of a move prunes what it  *)
(* found without another link, and an imported entry may have two.         *)
LinkedIsSearchable ==
  \A t \in Trace, e \in Evidence : <<t, e>> \in link => t \in Present /\ home[e] \in Book
IndexTypes ==
  /\ book \in [Trace -> Book \cup {Absent, Gone}]
  /\ home \in [Evidence -> Book \cup {Absent, Gone}]

LEMMA LinkedStep ==
  ASSUME IndexTypes, LinkedIsSearchable, [Recipes!Next]_(Recipes!vars)
  PROVE  IndexTypes' /\ LinkedIsSearchable'
<1> USE IndexAssumption DEF IndexTypes, LinkedIsSearchable, Present
<1>1. ASSUME NEW ts \in SUBSET Trace, NEW b \in Book, NEW ls \in SUBSET (ts \X Recipes!Unborn),
             NEW ds \in SUBSET ts, Recipes!Import(ts, b, ls, ds)
      PROVE  IndexTypes' /\ LinkedIsSearchable'
  BY <1>1 DEF Recipes!Import, Recipes!Unborn
<1>2. ASSUME NEW t \in Trace, NEW b \in Book, NEW entries \in SUBSET Recipes!Unborn,
             NEW d \in BOOLEAN, Recipes!Deposit(t, b, entries, d)
      PROVE  IndexTypes' /\ LinkedIsSearchable'
  BY <1>2 DEF Recipes!Deposit, Recipes!Unborn
<1>3. ASSUME NEW t \in Trace, NEW s \in Strategy, Recipes!AddEntry(t, s)
      PROVE  IndexTypes' /\ LinkedIsSearchable'
  BY <1>3 DEF Recipes!AddEntry
<1>4. ASSUME NEW t \in Trace, Recipes!Delete(t) PROVE IndexTypes' /\ LinkedIsSearchable'
  <2>1. PICK lost \in SUBSET Recipes!OnlyOf(t) :
          home' = [e \in Evidence |-> IF e \in lost THEN Gone ELSE home[e]]
    BY <1>4 DEF Recipes!Delete
  <2>2. book' = [book EXCEPT ![t] = Gone] /\ link' = link \ ({t} \X Evidence)
    BY <1>4 DEF Recipes!Delete
  <2>3. ASSUME NEW u \in Trace, NEW e \in Evidence, <<u, e>> \in link' PROVE u # t /\ e \notin lost
    BY <2>1, <2>2, <2>3 DEF Recipes!OnlyOf
  <2> QED BY <2>1, <2>2, <2>3
<1>5. ASSUME NEW t \in Trace, NEW to \in Book, NEW drop \in SUBSET Recipes!EvidenceOf(t),
             Recipes!Move(t, to, drop)
      PROVE  IndexTypes' /\ LinkedIsSearchable'
  BY <1>5 DEF Recipes!Move, Recipes!OnlyOf, Recipes!EvidenceOf
<1>6. ASSUME NEW t \in Trace, NEW fresh \in SUBSET Recipes!Unborn, NEW b \in WriteBooks,
             Recipes!Verify(t, fresh, b)
      PROVE  IndexTypes' /\ LinkedIsSearchable'
  BY <1>6 DEF Recipes!Verify, Recipes!Unborn
<1>7. ASSUME NEW k \in Src, Recipes!AddRow(k) PROVE IndexTypes' /\ LinkedIsSearchable'
  BY <1>7 DEF Recipes!AddRow
<1>8. CASE UNCHANGED Recipes!vars
  BY <1>8 DEF Recipes!vars
<1> HIDE DEF IndexTypes, LinkedIsSearchable, Present
<1>9. CASE Recipes!Next
  BY <1>1, <1>2, <1>3, <1>4, <1>5, <1>6, <1>7, <1>9 DEF Recipes!Next
<1> QED BY <1>8, <1>9

LEMMA SearchableInvariant == Spec => []IndexTypes /\ []LinkedIsSearchable
<1>1. Recipes!Init => IndexTypes /\ LinkedIsSearchable
  BY DEF Recipes!Init, IndexTypes, LinkedIsSearchable
<1>2. IndexTypes /\ LinkedIsSearchable /\ [Recipes!Next]_(Recipes!vars)
        => IndexTypes' /\ LinkedIsSearchable'
  BY LinkedStep
<1> QED BY <1>1, <1>2, RecipesAreWhole, PTL DEF ImplementsRecipes, Recipes!Spec

(* No entry is lost or unfiled while a recipe uses it, shared with others  *)
(* or not: what two recipes that share one and go at once may do is leave  *)
(* it behind, because each still sees the other's link when it prunes.     *)
THEOREM LinkedStaysSearchable == Spec => []LinkedIsSearchable
BY SearchableInvariant, PTL

-----------------------------------------------------------------------------
(* Only a redaction leaves text behind.                                    *)

(* No step drops evidence from a recipe that goes on to exist. *)
EvidenceAfter(t) == {e \in Evidence : <<t, e>> \in link'}
DropsNothing == \A t \in Trace : book'[t] \in Book => EvidenceOf(t) \subseteq EvidenceAfter(t)

(* What a handler read is still the recipe's when it inserts. *)
ReadIsCurrent ==
  \A w \in Worker : check[w].phase = "insert" /\ book[check[w].trace] # Gone
                      => check[w].text \subseteq EvidenceOf(check[w].trace)

LEMMA BooksOnce ==
  ASSUME IndexTypes, [Recipes!Next]_(Recipes!vars), NEW t \in Trace
  PROVE  (book[t] = Gone => book'[t] = Gone) /\ (book'[t] = Absent => book[t] = Absent)
<1> DEFINE Once == (book[t] = Gone => book'[t] = Gone) /\ (book'[t] = Absent => book[t] = Absent)
<1> SUFFICES Once
  OBVIOUS
<1> USE IndexAssumption DEF IndexTypes
<1>1. ASSUME NEW ts \in SUBSET Trace, NEW b \in Book, NEW ls \in SUBSET (ts \X Recipes!Unborn),
             NEW ds \in SUBSET ts, Recipes!Import(ts, b, ls, ds)
      PROVE  Once
  BY <1>1 DEF Recipes!Import
<1>2. ASSUME NEW u \in Trace, NEW b \in Book, NEW entries \in SUBSET Recipes!Unborn,
             NEW d \in BOOLEAN, Recipes!Deposit(u, b, entries, d)
      PROVE  Once
  BY <1>2 DEF Recipes!Deposit
<1>3. ASSUME NEW u \in Trace, Recipes!Delete(u) PROVE Once
  BY <1>3 DEF Recipes!Delete, Recipes!Present
<1>4. ASSUME NEW u \in Trace, NEW to \in Book, NEW drop \in SUBSET Recipes!EvidenceOf(u),
             Recipes!Move(u, to, drop)
      PROVE  Once
  BY <1>4 DEF Recipes!Move, Recipes!Present
<1>5. CASE book' = book
  BY <1>5
<1> HIDE DEF IndexTypes, Once
<1>6. CASE Recipes!Next
  BY <1>1, <1>2, <1>3, <1>4, <1>5, <1>6 DEF Recipes!Next, Recipes!AddEntry, Recipes!Verify, Recipes!AddRow
<1> QED BY <1>5, <1>6 DEF Recipes!vars

(* Then a recipe's evidence only grows, until it is deleted for good. *)
LEMMA EvidenceGrows ==
  ASSUME IndexTypes, LinkedIsSearchable, [Recipes!Next]_(Recipes!vars), DropsNothing,
         NEW t \in Trace, book'[t] # Gone
  PROVE  book[t] # Gone /\ EvidenceOf(t) \subseteq EvidenceAfter(t)
<1>1. book'[t] \in Book \cup {Absent}
  BY LinkedStep DEF IndexTypes
<1>2. CASE book'[t] \in Book
  BY <1>2, BooksOnce DEF DropsNothing
<1>3. CASE book'[t] = Absent
  <2>1. book[t] = Absent
    BY <1>3, BooksOnce
  <2>2. EvidenceOf(t) = {}
    BY <2>1, IndexAssumption DEF LinkedIsSearchable, EvidenceOf, Present
  <2> QED BY <2>1, <2>2, IndexAssumption
<1> QED BY <1>1, <1>2, <1>3

LEMMA DepositTexts ==
  ASSUME TypeOK, NEW t \in Trace, NEW b \in Book, NEW entries \in SUBSET Unborn,
         NEW d \in BOOLEAN, Deposit(t, b, entries, d), NEW k \in Src
  PROVE  src'[k] = src[k] \/ src'[k].text \subseteq EvidenceAfter(src'[k].trace)
<1>1. PICK id \in [DepositStrategies -> FreeSrc] :
        src' = [j \in Src |->
          IF \E s \in DepositStrategies : id[s] = j
          THEN LET s == CHOOSE z \in DepositStrategies : id[z] = j
               IN Source(t, s, b, IF s \in WithEvidence THEN entries ELSE {}, 3)
          ELSE src[j]]
  BY DEF Deposit
<1>2. CASE \E s \in DepositStrategies : id[s] = k
  <2>1. \E s : src'[k] = Source(t, s, b, IF s \in WithEvidence THEN entries ELSE {}, 3)
    BY <1>1, <1>2
  <2>2. src'[k].trace = t /\ src'[k].text \subseteq entries
    BY <2>1 DEF Source
  <2>3. entries \subseteq EvidenceAfter(t)
    BY DEF Deposit, EvidenceAfter, Unborn
  <2> QED BY <2>2, <2>3
<1>3. CASE ~\E s \in DepositStrategies : id[s] = k
  BY <1>1, <1>3
<1> QED BY <1>2, <1>3

(* A live chain keeps its text, or is new: from a deposit, with the text   *)
(* of its entries, or from a handler, with the text it read.               *)
TextAfter(k) ==
  \/ src[k].state = "live" /\ src'[k].text = src[k].text /\ src'[k].trace = src[k].trace
  \/ src'[k].text \subseteq EvidenceAfter(src'[k].trace)
  \/ \E w \in Worker : /\ check[w].phase = "insert" /\ check[w].trace \in Present
                        /\ src'[k].text = check[w].text /\ src'[k].trace = check[w].trace

LEMMA TextStep ==
  ASSUME IndexInv, [Next]_vars, NEW k \in Src, src'[k].state = "live"
  PROVE  TextAfter(k)
<1>0. TypeOK /\ HandlerAims
  BY DEF IndexInv
<1>1. CASE src' = src
  BY <1>1 DEF TextAfter
<1>2. ASSUME NEW t \in Trace, NEW b \in Book, NEW entries \in SUBSET Unborn,
             NEW d \in BOOLEAN, Deposit(t, b, entries, d)
      PROVE  TextAfter(k)
  BY <1>0, <1>2, DepositTexts DEF TextAfter
<1>3. ASSUME NEW w \in Worker, InsertSource(w) PROVE TextAfter(k)
  <2>1. ASSUME NEW j \in FreeSrc, src' = [src EXCEPT ![j] = SourceFor(check[w])],
               check[w].trace \in Present
        PROVE  TextAfter(k)
    <3>1. CASE k = j
      <4>1. src'[k] = SourceFor(check[w]) /\ check[w].phase = "insert"
        BY <1>0, <1>3, <2>1, <3>1 DEF InsertSource, TypeOK
      <4> QED BY <2>1, <4>1 DEF TextAfter, SourceFor, Source
    <3>2. CASE k # j
      <4>1. src'[k] = src[k]
        BY <1>0, <2>1, <3>2 DEF TypeOK
      <4> QED BY <4>1 DEF TextAfter
    <3> QED BY <3>1, <3>2
  <2> QED BY <1>0, <1>1, <1>3, <2>1, InsertSourceChains
<1>4. ASSUME NEW w \in Worker, InsertChain(w) PROVE TextAfter(k)
  <2>1. CASE src[check[w].src].state = "live"
    <3>1. src' = [src EXCEPT ![check[w].src].rows = src[check[w].src].rows + 1]
      BY <1>4, <2>1 DEF InsertChain
    <3>2. src[k] \in Chain
      BY <1>0 DEF TypeOK
    <3>3. src'[k].text = src[k].text /\ src'[k].trace = src[k].trace /\ src'[k].state = src[k].state
      BY <1>0, <3>1, <3>2 DEF TypeOK, Chain
    <3> QED BY <3>3 DEF TextAfter
  <2>2. CASE src[check[w].src].state # "live"
    BY <1>1, <1>4, <2>2 DEF InsertChain
  <2> QED BY <2>1, <2>2
<1>5. ASSUME NEW t \in Trace, DeleteCommit(t) PROVE TextAfter(k)
  <2>1. k \notin del[t].held
    BY <1>0, <1>5, CommitChains
  <2>2. src'[k] = src[k]
    BY <1>5, <2>1 DEF DeleteCommit
  <2> QED BY <2>2 DEF TextAfter
<1>6. ASSUME NEW t \in Trace, NEW drop \in SUBSET Evidence, MoveTrace(t, drop) PROVE TextAfter(k)
  <2>1. src'[k] = Refiled(src[k], t, move[t].to) /\ src[k] \in Chain
    BY <1>0, <1>6 DEF MoveTrace, TypeOK
  <2>2. src'[k].text = src[k].text /\ src'[k].trace = src[k].trace /\ src'[k].state = src[k].state
    BY <2>1 DEF Refiled, Chain
  <2> QED BY <2>2 DEF TextAfter
<1>7. ASSUME New PROVE TextAfter(k)
  BY <1>1, <1>2, <1>7 DEF New, Import
<1>8. ASSUME NEW w \in Worker, Backfill(w) \/ Crash(w) \/ (\E s \in Strategy : ListMissing(w, s))
      PROVE  TextAfter(k)
  BY <1>1, <1>3, <1>4, <1>8 DEF Backfill, ReadEvidence, Crash, ListMissing, rowVars
<1>9. ASSUME NEW t \in Trace, DeleteStep(t) PROVE TextAfter(k)
  BY <1>1, <1>5, <1>9 DEF DeleteStep, DeleteLock, DeleteVectors, DeleteChunks, DeleteStrategies,
     DeleteLevel, DeleteSources, rowVars
<1>10. ASSUME NEW t \in Trace, Request(t) PROVE TextAfter(k)
  BY <1>1, <1>6, <1>10 DEF Request, DeleteAsk, MoveAsk, MoveRefused, VerifyLook, VerifyResolve,
     VerifyRefused, rowVars
<1> QED BY <1>1, <1>7, <1>8, <1>9, <1>10 DEF Next, vars

LEMMA ReadStep ==
  ASSUME IndexInv, [Next]_vars, NEW w \in Worker, check'[w].phase = "insert"
  PROVE  /\ check'[w].trace \in Trace
         /\ \/ check'[w] = check[w]
            \/ check'[w].text \subseteq EvidenceAfter(check'[w].trace)
<1>0. TypeOK /\ HandlerAims
  BY DEF IndexInv
<1>1. check'[w].trace \in Trace
  BY <1>0, HandlerStep DEF HandlerAims
<1>2. CASE check' = check
  BY <1>1, <1>2
<1>3. ASSUME NEW v \in Worker, Backfill(v) \/ Crash(v) \/ (\E s \in Strategy : ListMissing(v, s))
      PROVE  check'[w] = check[w] \/ check'[w].text \subseteq EvidenceAfter(check'[w].trace)
  <2>0. check[v] \in Handler
    BY <1>0 DEF TypeOK
  <2>1. ASSUME NEW t \in Trace, ReadEvidence(v, t) PROVE check'[w] = check[w] \/ check'[w].text \subseteq EvidenceAfter(check'[w].trace)
    <3>1. CASE w = v
      <4>1. check'[w].trace = t /\ check'[w].text = TextOf(check[v].strategy, t) /\ link' = link
        BY <1>0, <2>1, <3>1 DEF ReadEvidence, TypeOK, rowVars
      <4> QED BY <4>1 DEF TextOf, EvidenceOf, EvidenceAfter
    <3>2. CASE w # v
      BY <1>0, <2>1, <3>2 DEF ReadEvidence, TypeOK
    <3> QED BY <3>1, <3>2
  <2>2. CASE InsertSource(v)
    <3>1. check' = [check EXCEPT ![v] = NextTrace(check[v])]
          \/ \E k : check' = [check EXCEPT ![v] = [check[v] EXCEPT !.phase = "chain", !.src = k]]
      BY <1>0, <2>2, InsertSourceChains
    <3>2. w # v
      <4> SUFFICES ASSUME w = v PROVE FALSE
        OBVIOUS
      <4>1. check'[v] = NextTrace(check[v])
            \/ \E k : check'[v] = [check[v] EXCEPT !.phase = "chain", !.src = k]
        BY <1>0, <3>1 DEF TypeOK
      <4> QED BY <2>0, <4>1, NextTraceType DEF Handler
    <3> QED BY <1>0, <3>1, <3>2 DEF TypeOK
  <2>3. CASE InsertChain(v)
    <3>1. check[v].phase = "chain" /\ check'[v] \in {NextTrace(check[v]), check[v], Idle}
      BY <1>0, <2>3 DEF InsertChain, TypeOK
    <3>2. w # v
      BY <2>0, <3>1, NextTraceType DEF Idle
    <3> QED BY <1>0, <2>3, <3>2 DEF InsertChain, TypeOK
  <2>4. CASE Crash(v) \/ (\E s \in Strategy : ListMissing(v, s))
    BY <1>0, <2>4 DEF Crash, ListMissing, Idle, TypeOK
  <2> QED BY <1>3, <2>1, <2>2, <2>3, <2>4 DEF Backfill
<1>4. ASSUME New \/ \E t \in Trace : DeleteStep(t) \/ Request(t) PROVE check' = check
  BY <1>4 DEF New, Deposit, Import, DeleteStep, DeleteLock, DeleteVectors, DeleteChunks, DeleteStrategies,
     DeleteLevel, DeleteSources, DeleteCommit, Request, DeleteAsk, MoveAsk, MoveRefused, MoveTrace,
     VerifyLook, VerifyResolve, VerifyRefused
<1> QED BY <1>1, <1>2, <1>3, <1>4 DEF Next, vars

LEMMA CurrentStep ==
  ASSUME IndexInv, IndexInv', IndexTypes, LinkedIsSearchable, TextIsCurrent, ReadIsCurrent,
         [Next]_vars, [Recipes!Next]_(Recipes!vars), DropsNothing
  PROVE  TextIsCurrent' /\ ReadIsCurrent'
<1>1. ASSUME NEW k \in Src, src'[k].state = "live"
      PROVE  src'[k].text \subseteq EvidenceAfter(src'[k].trace)
  <2>1. src'[k].trace \in Trace /\ book'[src'[k].trace] # Gone
    BY <1>1, IndexAssumption DEF IndexInv, Agrees, NoOrphans, Present
  <2>2. EvidenceOf(src'[k].trace) \subseteq EvidenceAfter(src'[k].trace)
    BY <2>1, EvidenceGrows
  <2>3. CASE src[k].state = "live" /\ src'[k].text = src[k].text /\ src'[k].trace = src[k].trace
    BY <2>2, <2>3 DEF TextIsCurrent
  <2>4. ASSUME NEW w \in Worker, check[w].phase = "insert", check[w].trace \in Present,
               src'[k].text = check[w].text, src'[k].trace = check[w].trace
        PROVE  src'[k].text \subseteq EvidenceAfter(src'[k].trace)
    <3>1. book[check[w].trace] # Gone
      BY <2>4, IndexAssumption DEF Present
    <3> QED BY <2>2, <2>4, <3>1 DEF ReadIsCurrent
  <2> QED BY <1>1, <2>3, <2>4, TextStep DEF TextAfter
<1>2. ASSUME NEW w \in Worker, check'[w].phase = "insert", book'[check'[w].trace] # Gone
      PROVE  check'[w].text \subseteq EvidenceAfter(check'[w].trace)
  <2>1. check'[w].trace \in Trace
    BY <1>2, ReadStep
  <2>2. CASE check'[w] = check[w]
    <3>1. book[check[w].trace] # Gone /\ EvidenceOf(check[w].trace) \subseteq EvidenceAfter(check[w].trace)
      BY <1>2, <2>1, <2>2, EvidenceGrows
    <3> QED BY <1>2, <2>2, <3>1 DEF ReadIsCurrent
  <2> QED BY <1>2, <2>2, ReadStep
<1>3. TextIsCurrent'
  BY <1>1 DEF TextIsCurrent, EvidenceOf, EvidenceAfter
<1>4. ReadIsCurrent'
  BY <1>2 DEF ReadIsCurrent, EvidenceOf, EvidenceAfter
<1> QED BY <1>3, <1>4

(* The text a recipe is searched by quotes evidence the recipe has, as     *)
(* long as no move redacts any: a deposit, an import, a verification, a    *)
(* delete and the backfill, which reads the evidence one statement before  *)
(* it inserts the text, never leave text that the recipe does not support. *)
THEOREM OnlyRedactionLeavesText == Spec /\ [][DropsNothing]_vars => []TextIsCurrent
<1>1. Init => TextIsCurrent /\ ReadIsCurrent
  BY DEF Init, TextIsCurrent, ReadIsCurrent, FreeSource, Idle
<1>2. ASSUME IndexInv, IndexInv', IndexTypes, LinkedIsSearchable, TextIsCurrent, ReadIsCurrent,
             [Next]_vars, [Recipes!Next]_(Recipes!vars), [DropsNothing]_vars
      PROVE  TextIsCurrent' /\ ReadIsCurrent'
  <2>1. UNCHANGED vars => DropsNothing
    BY DEF vars, DropsNothing, EvidenceOf, EvidenceAfter
  <2> QED BY <1>2, <2>1, CurrentStep
<1> QED BY <1>1, <1>2, IndexInvariant, SearchableInvariant, RecipesAreWhole, PTL
        DEF Spec, ImplementsRecipes, Recipes!Spec

=============================================================================
