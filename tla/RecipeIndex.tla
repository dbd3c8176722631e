---------------------------- MODULE RecipeIndex ----------------------------
(***************************************************************************)
(* What the search index promises: a recipe, its evidence and all that is  *)
(* searchable of it change together.  A move takes everything along, a     *)
(* delete leaves nothing, and what is added later goes where the recipe    *)
(* is.  TraceIndex implements this, though its deletes run statement by    *)
(* statement and the backfill, the user and the verifier act on what they  *)
(* read a while before.                                                    *)
(***************************************************************************)
EXTENDS Naturals

CONSTANTS
  Trace, Book, Evidence, Strategy, DepositStrategies, WriteBooks,
  Entry,          \* ids of index entries
  MayShare,       \* may an imported entry of evidence hang off two recipes
  Absent, Gone, Unused

VARIABLES
  book,    \* the book of each recipe
  draft,   \* recipes that are drafts
  link,    \* which evidence a recipe has
  home,    \* the book an entry of evidence is searchable in
  index    \* the searchable entries of recipes: trace, strategy, book, rows

vars == <<book, draft, link, home, index>>

Present == {t \in Trace : book[t] \in Book}
Unborn == {e \in Evidence : home[e] = Absent}
EvidenceOf(t) == {e \in Evidence : <<t, e>> \in link}
OnlyOf(t) == {e \in EvidenceOf(t) : \A u \in Trace \ {t} : <<u, e>> \notin link}
EntriesOf(t) == {k \in Entry : index[k] # Unused /\ index[k].trace = t}
UnusedEntries == {k \in Entry : index[k] = Unused}

Shown(t, s, b, rows) == [trace |-> t, strategy |-> s, book |-> b, rows |-> rows]

Init ==
  /\ book = [t \in Trace |-> Absent]
  /\ draft = {}
  /\ link = {}
  /\ home = [e \in Evidence |-> Absent]
  /\ index = [k \in Entry |-> Unused]

(* A deposit comes with a complete entry for each of its strategies. *)
Deposit(t, b, entries, isDraft) ==
  /\ book[t] = Absent
  /\ \E id \in [DepositStrategies -> UnusedEntries] :
       /\ \A s, z \in DepositStrategies : id[s] = id[z] => s = z
       /\ index' = [k \in Entry |->
            IF \E s \in DepositStrategies : id[s] = k
            THEN Shown(t, CHOOSE s \in DepositStrategies : id[s] = k, b, 3)
            ELSE index[k]]
  /\ book' = [book EXCEPT ![t] = b]
  /\ draft' = draft \cup IF isDraft THEN {t} ELSE {}
  /\ link' = link \cup ({t} \X entries)
  /\ home' = [e \in Evidence |-> IF e \in entries THEN b ELSE home[e]]

Import(traces, b, links, drafts) ==
  /\ \A t \in traces : book[t] = Absent
  /\ MayShare \/ \A p, q \in links : p[2] = q[2] => p = q
  /\ book' = [t \in Trace |-> IF t \in traces THEN b ELSE book[t]]
  /\ draft' = draft \cup drafts
  /\ link' = link \cup links
  /\ home' = [e \in Evidence |-> IF \E p \in links : p[2] = e THEN b ELSE home[e]]
  /\ UNCHANGED index

(* An entry begins in the recipe's book, and a row at a time becomes       *)
(* searchable.                                                             *)
AddEntry(t, s) ==
  /\ t \in Present
  /\ \E k \in UnusedEntries : index' = [index EXCEPT ![k] = Shown(t, s, book[t], 0)]
  /\ UNCHANGED <<book, draft, link, home>>

AddRow(k) ==
  /\ index[k] # Unused /\ index[k].rows < 3
  /\ index' = [index EXCEPT ![k] = Shown(@.trace, @.strategy, @.book, @.rows + 1)]
  /\ UNCHANGED <<book, draft, link, home>>

(* A recipe goes with its entries and with the evidence that is only its.  *)
(* Two recipes that share an entry and go at once may leave it.            *)
Delete(t) ==
  /\ t \in Present
  /\ book' = [book EXCEPT ![t] = Gone]
  /\ draft' = draft \ {t}
  /\ link' = link \ ({t} \X Evidence)
  /\ \E lost \in SUBSET OnlyOf(t) :
       /\ MayShare \/ lost = OnlyOf(t)
       /\ home' = [e \in Evidence |-> IF e \in lost THEN Gone ELSE home[e]]
  /\ index' = [k \in Entry |-> IF k \in EntriesOf(t) THEN Unused ELSE index[k]]

(* `drop`: the evidence that is left behind. *)
Move(t, to, drop) ==
  /\ t \in Present
  /\ book' = [book EXCEPT ![t] = to]
  /\ link' = link \ ({t} \X drop)
  /\ home' = [e \in Evidence |-> IF e \notin OnlyOf(t) THEN home[e]
                                 ELSE IF e \in drop THEN Gone ELSE to]
  /\ index' = [k \in Entry |-> IF k \in EntriesOf(t)
                               THEN Shown(t, index[k].strategy, to, index[k].rows)
                               ELSE index[k]]
  /\ UNCHANGED draft

(* A draft is resolved in a book the verifier writes in, and so is its     *)
(* evidence filed: in the same one, unless the draft moved between two.    *)
Verify(t, fresh, b) ==
  /\ t \in draft /\ book[t] \in WriteBooks
  /\ draft' = draft \ {t}
  /\ link' = link \cup ({t} \X fresh)
  /\ home' = [e \in Evidence |-> IF e \in fresh THEN b ELSE home[e]]
  /\ UNCHANGED <<book, index>>

Next ==
  \/ \E ts \in SUBSET Trace, b \in Book :
       \E ls \in SUBSET (ts \X Unborn), ds \in SUBSET ts : Import(ts, b, ls, ds)
  \/ \E t \in Trace :
       \/ \E b \in Book, entries \in SUBSET Unborn, d \in BOOLEAN : Deposit(t, b, entries, d)
       \/ \E s \in Strategy : AddEntry(t, s)
       \/ Delete(t)
       \/ \E to \in Book, drop \in SUBSET EvidenceOf(t) : Move(t, to, drop)
       \/ \E fresh \in SUBSET Unborn, b \in WriteBooks : Verify(t, fresh, b)
  \/ \E k \in Entry : AddRow(k)

Spec == Init /\ [][Next]_vars

=============================================================================
