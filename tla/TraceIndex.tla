----------------------------- MODULE TraceIndex -----------------------------
(***************************************************************************)
(* The rows that make a recipe (trace) searchable, and everybody who       *)
(* writes them.  Search does not read traces.group_id: it scopes by        *)
(* embedding_sources.group_id, a copy that no foreign key keeps honest.    *)
(* Under a source hang, by foreign keys without ON DELETE, a strategy row, *)
(* a chunk and its vectors.                                                *)
(*                                                                         *)
(*   deposit, import     one transaction: trace, evidence, their sources   *)
(*   strategy-check      lists traces without a strategy and adds it, one  *)
(*                       autocommitted INSERT after another                *)
(*   delete              one transaction under the trace's row lock, whose *)
(*                       statements the strategy-check runs between        *)
(*   move                one transaction under the trace's row lock        *)
(*   verify              reads a draft's book, then resolves it and adds   *)
(*                       evidence                                          *)
(*                                                                         *)
(* Postgres runs at READ COMMITTED: a statement sees what was committed    *)
(* when it began, and waits only for a row lock it needs.  An INSERT of a  *)
(* child row needs a lock on its parents, so it waits for a transaction    *)
(* that has deleted or locked one of them, and fails if that commits.      *)
(***************************************************************************)
EXTENDS Naturals, FiniteSets

CONSTANTS
  Trace, Book, Evidence,
  Strategy,           \* ALL_STRATEGY_IDS
  WithEvidence,       \* strategies whose text quotes the trace's evidence
  DepositStrategies,  \* strategies a deposit embeds itself
  WriteBooks,         \* the write scope of the key that verifies drafts
  Src,                \* ids of embedding_sources rows of traces (bound)
  Worker,             \* strategy-check handlers that may run at once (bound)
  MayShare,           \* may an imported file link one entry to two recipes
  MaxCrashes,         \* bound on worker crashes
  Absent, Gone,       \* a row that is not there yet; one that was deleted
  None

ASSUME IndexAssumption ==
  /\ WithEvidence \subseteq Strategy
  /\ DepositStrategies \subseteq Strategy
  /\ WriteBooks \subseteq Book
  /\ MayShare \in BOOLEAN
  /\ MaxCrashes \in Nat
  /\ Absent \notin Book /\ Gone \notin Book /\ None \notin Book
  /\ Absent # Gone /\ None \notin Trace /\ None \notin Src /\ None \notin Strategy

VARIABLES
  book,     \* traces.group_id
  draft,    \* traces whose draft_state is unverified
  link,     \* claimnet.trace_evidence
  home,     \* group_id on the embedding source of an evidence row
  src,      \* the embedding chains of traces
  check,    \* strategy-check handlers
  del,      \* the delete of each trace
  move,     \* the move a user asked for, per trace
  look,     \* the book a verifier read for a draft
  crashes

rowVars == <<book, draft, link, home, src>>
vars == <<book, draft, link, home, src, check, del, move, look, crashes>>

(* A chain: its source row, and how many of the rows below it exist:       *)
(* 1 strategy, 2 and its chunk, 3 and the chunk's vector.  `text` is the   *)
(* evidence the text of the source and the chunk quotes.                   *)
Chain == [state : {"free", "live", "dead"}, trace : Trace \cup {None},
          strategy : Strategy \cup {None}, book : Book \cup {None},
          text : SUBSET Evidence, rows : 0..3]
Source(t, s, b, text, rows) ==
  [state |-> "live", trace |-> t, strategy |-> s, book |-> b, text |-> text, rows |-> rows]
FreeSource == [state |-> "free", trace |-> None, strategy |-> None, book |-> None,
               text |-> {}, rows |-> 0]
FreeSrc == {k \in Src : src[k].state = "free"}

Handler == [phase : {"idle", "read", "insert", "chain"}, strategy : Strategy \cup {None},
            todo : SUBSET Trace, trace : Trace \cup {None}, text : SUBSET Evidence,
            src : Src \cup {None}]
Idle == [phase |-> "idle", strategy |-> None, todo |-> {}, trace |-> None, text |-> {},
         src |-> None]

(* A delete: the last statement it ran, the book it was authorised for     *)
(* (None for a system cascade), the chains whose rows it holds locked or   *)
(* deleted, and the evidence it is about to prune.                         *)
InTransaction == {"locked", "vectors", "chunks", "strategies", "sources"}
Delete == [phase : {"idle", "asked", "refused", "failed", "done"} \cup InTransaction,
           by : Book \cup {None}, held : SUBSET Src, prune : SUBSET Evidence]
At(phase, by, held, prune) == [phase |-> phase, by |-> by, held |-> held, prune |-> prune]
NoDelete == At("idle", None, {}, {})
Ended(d, phase) == At(phase, d.by, {}, {})

NoMove == [from |-> None, to |-> None]
Move == [from : Book, to : Book] \cup {NoMove}

Present == {t \in Trace : book[t] \in Book}
LockedBy(d) == d.phase \in InTransaction
NeverLocked(t) == FALSE  \* slip: no row lock up front
Locked(t) == LockedBy(del[t])
ChainsOf(t) == {k \in Src : src[k].state = "live" /\ src[k].trace = t}
Reached(t, rows) == {k \in ChainsOf(t) : src[k].rows >= rows}

EvidenceOf(t) == {e \in Evidence : <<t, e>> \in link}
Unborn == {e \in Evidence : home[e] = Absent}
LinkedElsewhere(t, e) == \E u \in Trace \ {t} : <<u, e>> \in link
NeverLast(t, entries) == {}  \* slip: unlinked, never deleted
LastLinkOf(t, entries) == {e \in entries : ~LinkedElsewhere(t, e)}

TypeOK ==
  /\ book \in [Trace -> Book \cup {Absent, Gone}]
  /\ draft \subseteq Trace
  /\ link \subseteq Trace \X Evidence
  /\ home \in [Evidence -> Book \cup {Absent, Gone}]
  /\ src \in [Src -> Chain]
  /\ check \in [Worker -> Handler]
  /\ del \in [Trace -> Delete]
  /\ move \in [Trace -> Move]
  /\ look \in [Trace -> Book \cup {None}]
  /\ crashes \in 0..MaxCrashes

Init ==
  /\ book = [t \in Trace |-> Absent]
  /\ draft = {}
  /\ link = {}
  /\ home = [e \in Evidence |-> Absent]
  /\ src = [k \in Src |-> FreeSource]
  /\ check = [w \in Worker |-> Idle]
  /\ del = [t \in Trace |-> NoDelete]
  /\ move = [t \in Trace |-> NoMove]
  /\ look = [t \in Trace |-> None]
  /\ crashes = 0

-----------------------------------------------------------------------------
(* New recipes.                                                            *)

TextOf(s, t) == IF s \in WithEvidence THEN EvidenceOf(t) ELSE {}

(* The deposit's transaction: the trace, its evidence with a source each,  *)
(* and a complete chain for every strategy the deposit embeds itself.      *)
Deposit(t, b, entries, isDraft) ==
  /\ book[t] = Absent
  /\ entries \subseteq Unborn
  /\ \E id \in [DepositStrategies -> FreeSrc] :
       /\ \A s, z \in DepositStrategies : id[s] = id[z] => s = z
       /\ src' = [k \in Src |->
            IF \E s \in DepositStrategies : id[s] = k
            THEN LET s == CHOOSE z \in DepositStrategies : id[z] = k
                 IN Source(t, s, b, IF s \in WithEvidence THEN entries ELSE {}, 3)
            ELSE src[k]]
  /\ book' = [book EXCEPT ![t] = b]
  /\ draft' = IF isDraft THEN draft \cup {t} ELSE draft
  /\ link' = link \cup ({t} \X entries)
  /\ home' = [e \in Evidence |-> IF e \in entries THEN b ELSE home[e]]
  /\ UNCHANGED <<check, del, move, look, crashes>>

(* The import's transaction: traces without chains (the backfill finds     *)
(* them), and a source for each entry that hangs off one of them.  The     *)
(* links are the file's.                                                   *)
Import(traces, b, links, drafts) ==
  /\ traces # {}
  /\ \A t \in traces : book[t] = Absent
  /\ links \subseteq traces \X Unborn
  /\ MayShare \/ \A p, q \in links : p[2] = q[2] => p = q
  /\ drafts \subseteq traces
  /\ book' = [t \in Trace |-> IF t \in traces THEN b ELSE book[t]]
  /\ draft' = draft \cup drafts
  /\ link' = link \cup links
  /\ home' = [e \in Evidence |-> IF \E p \in links : p[2] = e THEN b ELSE home[e]]
  /\ UNCHANGED <<src, check, del, move, look, crashes>>

-----------------------------------------------------------------------------
(* Strategy backfill.                                                      *)

HasStrategy(t, s) == \E k \in Reached(t, 1) : src[k].strategy = s
MissingAny(s) == {t \in Present : Reached(t, 1) = {}}  \* slip: strategy_id not joined
Missing(s) == {t \in Present : ~HasStrategy(t, s)}

(* A finished iteration goes on to the next listed trace, if there is one. *)
NextTrace(h) ==
  IF h.todo = {} THEN Idle
  ELSE [phase |-> "read", strategy |-> h.strategy, todo |-> h.todo, trace |-> None,
        text |-> {}, src |-> None]

ListMissing(w, s) ==
  /\ check[w] = Idle
  /\ Missing(s) # {}
  /\ check' = [check EXCEPT ![w] =
       [phase |-> "read", strategy |-> s, todo |-> Missing(s), trace |-> None,
        text |-> {}, src |-> None]]
  /\ UNCHANGED <<rowVars, del, move, look, crashes>>

ReadEvidence(w, t) ==
  LET h == check[w] IN
  /\ h.phase = "read"
  /\ t \in h.todo
  /\ check' = [check EXCEPT ![w] =
       [phase |-> "insert", strategy |-> h.strategy, todo |-> h.todo \ {t}, trace |-> t,
        text |-> TextOf(h.strategy, t), src |-> None]]
  /\ UNCHANGED <<rowVars, del, move, look, crashes>>

(* INSERT .. SELECT FROM traces .. FOR UPDATE: waits for a delete in       *)
(* progress, takes the book from the locked row, and inserts nothing when  *)
(* the trace is gone.                                                      *)
SourceFor(h) == Source(h.trace, h.strategy, book[h.trace], h.text, 0)
InsertAnyway(t) == TRUE  \* slip: a plain VALUES insert
MayInsertFor(t) == t \in Present

InsertSource(w) ==
  LET h == check[w] IN
  /\ h.phase = "insert"
  /\ ~Locked(h.trace)
  /\ IF MayInsertFor(h.trace)
     THEN \E k \in FreeSrc :
            /\ src' = [src EXCEPT ![k] = SourceFor(h)]
            /\ check' = [check EXCEPT ![w] =
                 [h EXCEPT !.phase = "chain", !.src = k]]
     ELSE /\ check' = [check EXCEPT ![w] = NextTrace(h)]
          /\ UNCHANGED src
  /\ UNCHANGED <<book, draft, link, home, del, move, look, crashes>>

(* Does an uncommitted delete hold a parent of the chain's next row?  The  *)
(* chunk is locked before the vectors go; the strategy row only when it is *)
(* deleted, and the source last.                                           *)
Waits(k) ==
  LET d == del[src[k].trace] IN
  \/ d.phase = "sources"
  \/ d.phase \in {"vectors", "chunks"} /\ k \in d.held /\ src[k].rows = 2
  \/ d.phase = "strategies" /\ k \in d.held

(* The next INSERT of the chain: strategy, chunk, vector.  A chain whose   *)
(* source was deleted fails the foreign key, and the handler throws.       *)
InsertChain(w) ==
  LET h == check[w] IN
  /\ h.phase = "chain"
  /\ IF src[h.src].state = "live"
     THEN /\ ~Waits(h.src)
          /\ src' = [src EXCEPT ![h.src].rows = @ + 1]
          /\ check' = [check EXCEPT ![w] = IF src[h.src].rows = 2 THEN NextTrace(h) ELSE h]
     ELSE /\ check' = [check EXCEPT ![w] = Idle]
          /\ UNCHANGED src
  /\ UNCHANGED <<book, draft, link, home, del, move, look, crashes>>

(* The task dies; what its statements committed stays.                     *)
Crash(w) ==
  /\ check[w] # Idle
  /\ crashes < MaxCrashes
  /\ check' = [check EXCEPT ![w] = Idle]
  /\ crashes' = crashes + 1
  /\ UNCHANGED <<rowVars, del, move, look>>

-----------------------------------------------------------------------------
(* Delete: the book is read and judged before the transaction.  One delete *)
(* per trace is modelled; a second one waits for the lock and finds none.  *)

DeleteAsk(t, by) ==
  /\ del[t] = NoDelete
  /\ t \in Present
  /\ by \in {book[t], None}
  /\ del' = [del EXCEPT ![t] = At("asked", by, {}, {})]
  /\ UNCHANGED <<rowVars, check, move, look, crashes>>

DeleteAnyway(t) == TRUE  \* slip: the authorised book is not compared
MayDelete(t) == del[t].by \in {book[t], None}

(* Lock the trace row and compare its book with the authorised one.        *)
DeleteLock(t) ==
  /\ del[t].phase = "asked"
  /\ del' = [del EXCEPT ![t] = IF MayDelete(t) THEN At("locked", @.by, {}, {})
                               ELSE Ended(@, "refused")]
  /\ UNCHANGED <<rowVars, check, move, look, crashes>>

(* Lock the chunks, delete their vectors.                                  *)
DeleteVectors(t) ==
  /\ del[t].phase = "locked"
  /\ del' = [del EXCEPT ![t] = At("vectors", @.by, Reached(t, 2), {})]
  /\ UNCHANGED <<rowVars, check, move, look, crashes>>

(* One level of the chain.  A row that still has a child the transaction   *)
(* has not deleted fails the foreign key, and everything is rolled back.   *)
DeleteLevel(t, from, to, children, rows) ==
  /\ del[t].phase = from
  /\ del' = [del EXCEPT ![t] =
       IF children \subseteq del[t].held
       THEN At(to, @.by, rows, {}) ELSE Ended(@, "failed")]
  /\ UNCHANGED <<rowVars, check, move, look, crashes>>

DeleteChunks(t) == DeleteLevel(t, "vectors", "chunks", Reached(t, 3), Reached(t, 2))
DeleteStrategies(t) == DeleteLevel(t, "chunks", "strategies", Reached(t, 2), Reached(t, 1))

(* The sources, the links, and the question which entries lose their last  *)
(* link; another transaction's uncommitted unlinking is not seen.          *)
DeleteSources(t) ==
  /\ del[t].phase = "strategies"
  /\ del' = [del EXCEPT ![t] =
       IF Reached(t, 1) \subseteq del[t].held
       THEN At("sources", @.by, ChainsOf(t), LastLinkOf(t, EvidenceOf(t)))
       ELSE Ended(@, "failed")]
  /\ UNCHANGED <<rowVars, check, move, look, crashes>>

DeleteCommit(t) ==
  /\ del[t].phase = "sources"
  /\ book' = [book EXCEPT ![t] = Gone]
  /\ draft' = draft \ {t}
  /\ link' = link \ ({t} \X Evidence)
  /\ home' = [e \in Evidence |-> IF e \in del[t].prune THEN Gone ELSE home[e]]
  /\ src' = [k \in Src |-> IF k \in del[t].held THEN [src[k] EXCEPT !.state = "dead"]
                           ELSE src[k]]
  /\ del' = [del EXCEPT ![t] = Ended(@, "done")]
  /\ UNCHANGED <<check, move, look, crashes>>

-----------------------------------------------------------------------------
(* Move: the book is read and judged before the transaction, which is one  *)
(* step: it holds the trace's row lock and inserts no child row.           *)

MoveAsk(t, to) ==
  /\ move[t] = NoMove
  /\ t \in Present
  /\ move' = [move EXCEPT ![t] = [from |-> book[t], to |-> to]]
  /\ UNCHANGED <<rowVars, check, del, look, crashes>>

MayMove(t) == t \in Present /\ book[t] = move[t].from /\ move[t].from # move[t].to

MoveRefused(t) ==
  /\ move[t] # NoMove
  /\ ~Locked(t)
  /\ ~MayMove(t)
  /\ move' = [move EXCEPT ![t] = NoMove]
  /\ UNCHANGED <<rowVars, check, del, look, crashes>>

StaysPut(c, t, to) == c  \* slip: only traces.group_id is moved
Refiled(c, t, to) == IF c.state = "live" /\ c.trace = t THEN [c EXCEPT !.book = to] ELSE c

HomeStays(e, to) == home[e]  \* slip: the entries' sources are not moved
HomeAfterMove(e, to) == to

(* `drop`: the entries the user de-selected.  An entry that hangs off      *)
(* another trace too is only unlinked, and one that is kept stays in the   *)
(* book it was in.                                                         *)
MoveTrace(t, drop) ==
  LET to == move[t].to
      lost == LastLinkOf(t, drop)
      kept == LastLinkOf(t, EvidenceOf(t) \ drop)
  IN
  /\ move[t] # NoMove
  /\ ~Locked(t)
  /\ MayMove(t)
  /\ drop \subseteq EvidenceOf(t)
  /\ book' = [book EXCEPT ![t] = to]
  /\ link' = link \ ({t} \X drop)
  /\ home' = [e \in Evidence |-> IF e \in lost THEN Gone
                                 ELSE IF e \in kept THEN HomeAfterMove(e, to) ELSE home[e]]
  /\ src' = [k \in Src |-> Refiled(src[k], t, to)]
  /\ move' = [move EXCEPT ![t] = NoMove]
  /\ UNCHANGED <<draft, check, del, look, crashes>>

-----------------------------------------------------------------------------
(* verify_draft: the book is read with the draft, the resolving UPDATE     *)
(* judges the book the row is in, and the evidence goes to the one read.   *)

VerifyLook(t) ==
  /\ t \in draft
  /\ look[t] = None
  /\ book[t] \in WriteBooks
  /\ look' = [look EXCEPT ![t] = book[t]]
  /\ UNCHANGED <<rowVars, check, del, move, crashes>>

MayResolve(t) == t \in draft /\ book[t] \in WriteBooks

VerifyResolve(t, fresh) ==
  /\ look[t] # None
  /\ ~Locked(t)
  /\ MayResolve(t)
  /\ fresh \subseteq Unborn
  /\ draft' = draft \ {t}
  /\ link' = link \cup ({t} \X fresh)
  /\ home' = [e \in Evidence |-> IF e \in fresh THEN look[t] ELSE home[e]]
  /\ look' = [look EXCEPT ![t] = None]
  /\ UNCHANGED <<book, src, check, del, move, crashes>>

VerifyRefused(t) ==
  /\ look[t] # None
  /\ ~Locked(t)
  /\ ~MayResolve(t)
  /\ look' = [look EXCEPT ![t] = None]
  /\ UNCHANGED <<rowVars, check, del, move, crashes>>

-----------------------------------------------------------------------------
New ==
  \/ \E t \in Trace, b \in Book, entries \in SUBSET Unborn, d \in BOOLEAN :
       Deposit(t, b, entries, d)
  \/ \E ts \in SUBSET Trace, b \in Book :
       \E ls \in SUBSET (ts \X Unborn), ds \in SUBSET ts : Import(ts, b, ls, ds)

Backfill(w) ==
  \/ \E t \in Trace : ReadEvidence(w, t)
  \/ InsertSource(w)
  \/ InsertChain(w)

DeleteStep(t) ==
  \/ DeleteLock(t)
  \/ DeleteVectors(t)
  \/ DeleteChunks(t)
  \/ DeleteStrategies(t)
  \/ DeleteSources(t)
  \/ DeleteCommit(t)

Request(t) ==
  \/ \E by \in Book \cup {None} : DeleteAsk(t, by)
  \/ \E to \in Book : MoveAsk(t, to)
  \/ MoveRefused(t)
  \/ \E drop \in SUBSET Evidence : MoveTrace(t, drop)
  \/ VerifyLook(t)
  \/ \E fresh \in SUBSET Evidence : VerifyResolve(t, fresh)
  \/ VerifyRefused(t)

Next ==
  \/ New
  \/ \E w \in Worker : Backfill(w) \/ Crash(w) \/ (\E s \in Strategy : ListMissing(w, s))
  \/ \E t \in Trace : DeleteStep(t) \/ Request(t)

Spec == Init /\ [][Next]_vars

(* The sweep runs every minute and sends a check for every strategy it     *)
(* finds missing; a handler that was started runs on, and so does a        *)
(* request's transaction.  Nobody has to ask for anything.                 *)
FairSpec ==
  /\ Spec
  /\ \A w \in Worker : WF_vars(Backfill(w))
  /\ \A s \in Strategy : WF_vars(\E w \in Worker : ListMissing(w, s))
  /\ \A t \in Trace : WF_vars(DeleteStep(t))

-----------------------------------------------------------------------------
(* Properties.                                                             *)

(* A trace's sources are in the trace's book, whatever the backfill read   *)
(* before a move or a delete: else the recipe stays searchable in the old  *)
(* book and is invisible in the new one (trace-move.service.ts).           *)
SourcesInTraceBook ==
  \A k \in Src : src[k].state = "live" /\ src[k].trace \in Present
                   => src[k].book = book[src[k].trace]

(* No source outlives its trace, though no foreign key says so: the        *)
(* cascade and the backfill's guarded INSERT meet on the trace's row lock. *)
NoOrphans == \A k \in Src : src[k].state = "live" => src[k].trace \in Present

(* An evidence entry is searchable in the book of a recipe it hangs off.   *)
EvidenceInItsBook ==
  \A e \in Evidence : home[e] \in Book /\ (\E t \in Trace : <<t, e>> \in link)
                        => \E t \in Trace : <<t, e>> \in link /\ book[t] = home[e]

(* Delete and move prune exactly the evidence they were the last link to.  *)
EvidencePruned ==
  \A e \in Evidence : home[e] \in Book <=> \E t \in Present : <<t, e>> \in link

(* What a chain's text quotes, its recipe still has: evidence redacted in  *)
(* a move is gone, not hidden.                                             *)
TextIsCurrent ==
  \A k \in Src : src[k].state = "live" => src[k].text \subseteq EvidenceOf(src[k].trace)

(* A recipe leaves a book only by a delete or a move that was authorised   *)
(* for that book, though the book may change between the two.              *)
ActsWhereAuthorised ==
  [][\A t \in Present : book'[t] # book[t] =>
       \/ book'[t] = Gone /\ del[t].by \in {book[t], None}
       \/ book'[t] = move[t].to /\ book[t] = move[t].from]_vars

(* Every recipe gets a row in the vector queue for every strategy, however *)
(* it was created and whatever moves or deletes come between, or goes.     *)
Indexed(t, s) == \E k \in Reached(t, 3) : src[k].strategy = s
EveryTraceIndexed ==
  \A t \in Trace, s \in Strategy : (t \in Present) ~> (book[t] = Gone \/ Indexed(t, s))

(* Moves, deletes, deposits and verifications change a recipe and all that *)
(* is searchable of it at once, as the user asked, and the backfill adds   *)
(* to it where it is then: however their statements interleave.            *)
NotShown == [trace |-> None, strategy |-> None, book |-> None, rows |-> 0]
Index ==
  [k \in Src |-> LET c == src[k] IN
     IF c.state = "live"
     THEN [trace |-> c.trace, strategy |-> c.strategy, book |-> c.book, rows |-> c.rows]
     ELSE NotShown]
Recipes == INSTANCE RecipeIndex WITH index <- Index, Entry <- Src, Unused <- NotShown
ImplementsRecipes == Recipes!Spec

=============================================================================
