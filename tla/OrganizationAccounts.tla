------------------------ MODULE OrganizationAccounts ------------------------
(***************************************************************************)
(* Company organizations: joining under a seat limit, the move of a        *)
(* person's own books into the company, org-wide books, and what a manager *)
(* does to a member (authz/organizations.ts; authz/memberships.ts for the  *)
(* removal of a member from a book).                                       *)
(*                                                                         *)
(* A transaction begins when it has its locks and has read what it decides *)
(* on, and writes at its commit: `tx` is the set of transactions in        *)
(* between.  Who waits for whom is in the guards: the organization's row,  *)
(* the account's row, a book's row, and membership rows.                   *)
(***************************************************************************)
EXTENDS AccountState

CONSTANTS
    MaxTx,         \* bound: transactions open at once
    MaxChanges     \* bound: transactions begun

ASSUME BoundsAssumption == MaxTx \in Nat /\ MaxChanges \in Nat

VARIABLES
    tx,       \* open transactions
    begun     \* transactions begun so far

vars == <<member, ownerOf, place, wide, row, tx, begun>>

(* One record for every kind of transaction: the organization whose row it *)
(* holds, the person and book it is about, and the set it has read.        *)
Kinds == {"join", "disable", "enable", "role", "wide", "private", "remove", "import"}
Tx == [kind : Kinds, org : Companies \cup Users \cup {Nobody}, who : Users \cup {Nobody},
       book : Books \cup {Unmade}, as : OrgRoles \cup {"none"}, read : SUBSET (Books \cup Users)]

TypeOK ==
    /\ member \in [Users -> Membership]
    /\ ownerOf \in [Companies -> Users \cup {Nobody}]
    /\ place \in [Books -> Users \cup Companies \cup {Unmade}]
    /\ wide \in [Books -> BOOLEAN]
    /\ row \in [Books -> [Users -> Row]]
    /\ tx \subseteq Tx
    /\ begun \in 0..MaxChanges

(***************************************************************************)
(* Locks                                                                   *)
(***************************************************************************)

(* slip: the organization's row is not locked *)
NeverHeld(c) == TRUE

(* FOR NO KEY UPDATE on the organization: the joins, the actions on        *)
(* members and the switches of its books come one at a time.               *)
OrgFree(c) == \A t \in tx : t.org = c => t.kind \in {"remove", "import"}

(* slip: a new book does not wait for its owner's join *)
NeverJoining(u) == TRUE

(* FOR SHARE by who creates a book, NO KEY UPDATE by the join. *)
AccountFree(u) == \A t \in tx : ~(t.kind = "join" /\ t.who = u)

(* FOR UPDATE by a removal and by the move of a join; a switch conflicts   *)
(* with both.                                                              *)
BookHeld(b) ==
    \E t \in tx : \/ t.kind \in {"remove", "wide", "private"} /\ t.book = b
                  \/ t.kind = "join" /\ b \in t.read /\ place[b] = t.who

(* A new membership row waits for a FOR UPDATE on its book (foreign key). *)
InsertsWait(b) ==
    \E t \in tx : \/ t.kind = "remove" /\ t.book = b
                  \/ t.kind = "join" /\ b \in t.read /\ place[b] = t.who

(* The rows that a role change has updated and not committed. *)
RowsOf(t) == RowsByOrg(t.org, t.who)
RowHeld(b, u) == \E t \in tx : t.kind = "role" /\ <<b, u>> \in RowsOf(t)

Begin(t) ==
    /\ begun < MaxChanges
    /\ Cardinality(tx) < MaxTx
    /\ begun' = begun + 1
    /\ tx' = tx \cup {t}

End(t) == tx' = tx \ {t}

(***************************************************************************)
(* The join                                                                *)
(***************************************************************************)

(* joinOrganizationInTx, for the operator or on a verified domain.  The    *)
(* books read are the person's own, which it moves, and the org-wide ones. *)
JoinBegin(u, c, as) ==
    /\ AccountFree(u)
    /\ OrgFree(c)
    /\ ownerOf[c] # Nobody
    /\ member[u] = NotMember
    /\ FreeSeat(c)
    /\ \A b \in OwnBooks(u) : ~BookHeld(b)
    /\ Begin([kind |-> "join", org |-> c, who |-> u, book |-> Unmade, as |-> as,
              read |-> OwnBooks(u) \cup OrgWideBooks(c)])
    /\ UNCHANGED <<member, ownerOf, place, wide, row>>

JoinCommit(t) ==
    LET wides == {b \in t.read : place[b] = t.org}
        joined == Joined(row, t.who, t.as, wides)
    IN  /\ t.kind = "join"
        /\ \A b \in wides : ~InsertsWait(b)
        /\ t.as = "owner" => ~InsertsWait(DefaultBook[t.org])
        /\ member' = [member EXCEPT ![t.who] = [org |-> t.org, role |-> t.as, disabled |-> FALSE]]
        /\ place' = [b \in Books |-> IF b \in t.read THEN t.org ELSE place[b]]
        /\ row' = IF t.as = "owner"
                  THEN OwnerSync(joined, t.org, OwnersIn(t.org) \cup {t.who}) ELSE joined
        /\ End(t)
        /\ UNCHANGED <<ownerOf, wide, begun>>

(* createOrganization: the organization, its default book and the owner's  *)
(* join in one transaction, of rows nobody else can see before it commits. *)
CreateOrganization(c, u) ==
    LET d == DefaultBook[c]
    IN  /\ begun < MaxChanges
        /\ ownerOf[c] = Nobody
        /\ AccountFree(u)
        /\ member[u] = NotMember
        /\ FreeSeat(c)
        /\ \A b \in OwnBooks(u) : ~BookHeld(b)
        /\ ownerOf' = [ownerOf EXCEPT ![c] = u]
        /\ member' = [member EXCEPT ![u] = [org |-> c, role |-> "owner", disabled |-> FALSE]]
        /\ place' = [b \in Books |-> IF b = d \/ place[b] = u THEN c ELSE place[b]]
        /\ wide' = [wide EXCEPT ![d] = TRUE]
        /\ row' = [row EXCEPT ![d][u] = [role |-> "owner", via |-> "direct"]]
        /\ begun' = begun + 1
        /\ UNCHANGED tx

(***************************************************************************)
(* Books                                                                   *)
(***************************************************************************)

(* POST /groups.  An org-wide one is a second transaction, SwitchBegin. *)
CreateBook(u, b) ==
    /\ begun < MaxChanges
    /\ AccountFree(u)
    /\ MayCreate(u)
    /\ b \notin Defaults /\ place[b] = Unmade /\ \A t \in tx : t.book # b
    /\ place' = [place EXCEPT ![b] = Home(u)]
    /\ row' = [row EXCEPT ![b][u] = [role |-> "owner", via |-> "direct"]]
    /\ begun' = begun + 1
    /\ UNCHANGED <<member, ownerOf, wide, tx>>

(* An import reads the home organization, makes its book there, and holds  *)
(* nothing of the account's until its last step.                           *)
ImportBegin(u, b) ==
    /\ b \notin Defaults /\ place[b] = Unmade /\ \A t \in tx : t.book # b
    /\ MayCreate(u)
    /\ Begin([kind |-> "import", org |-> Home(u), who |-> u, book |-> b,
              as |-> "none", read |-> {}])
    /\ UNCHANGED <<member, ownerOf, place, wide, row>>

(* slip: the book stays where the import began *)
StaysWhereBegun(t) == t.org

(* settleNewBookInHome *)
Settled(t) == IF t.org = t.who THEN Home(t.who) ELSE t.org

ImportCommit(t) ==
    /\ t.kind = "import"
    /\ AccountFree(t.who)
    /\ place' = [place EXCEPT ![t.book] = Settled(t)]
    /\ row' = [row EXCEPT ![t.book][t.who] = [role |-> "owner", via |-> "direct"]]
    /\ End(t)
    /\ UNCHANGED <<member, ownerOf, wide, begun>>

(* setBookOrgWide, by an owner or admin of the book.  A personal book is   *)
(* refused when it is to be org-wide, and has nothing to change when it is *)
(* to be private; the default book stays org-wide.                         *)
SwitchBegin(u, b, on) ==
    /\ row[b][u].role \in {"owner", "admin"}
    /\ place[b] \in Companies
    /\ on \/ b \notin Defaults
    /\ OrgFree(place[b])
    /\ ~BookHeld(b)
    /\ Begin([kind |-> IF on THEN "wide" ELSE "private", org |-> place[b], who |-> u, book |-> b,
              as |-> "none", read |-> IF on THEN MembersOf(place[b]) ELSE {}])
    /\ UNCHANGED <<member, ownerOf, place, wide, row>>

SwitchCommit(t) ==
    LET b == t.book
    IN  /\ t.kind \in {"wide", "private"}
        /\ wide' = [wide EXCEPT ![b] = t.kind = "wide"]
        /\ row' = [row EXCEPT ![b] = [u \in Users |->
                    IF t.kind = "private"
                    THEN IF @[u].via = "org" THEN NoRow ELSE @[u]
                    ELSE IF u \in t.read /\ @[u] = NoRow
                         THEN [role |-> BookRole(member[u].role), via |-> "org"]
                         ELSE @[u]]]
        /\ End(t)
        /\ UNCHANGED <<member, ownerOf, place, begun>>

(* addMember: an owner or admin adds a person directly. *)
AddDirect(u, b, v) ==
    /\ begun < MaxChanges
    /\ row[b][u].role \in {"owner", "admin"}
    /\ row[b][v] = NoRow
    /\ ~InsertsWait(b)
    /\ row' = [row EXCEPT ![b][v] = [role |-> "member", via |-> "direct"]]
    /\ begun' = begun + 1
    /\ UNCHANGED <<member, ownerOf, place, wide, tx>>

RemoveBegin(u, b, v) ==
    /\ row[b][u].role = "owner"
    /\ row[b][v] # NoRow
    /\ ~BookHeld(b)
    /\ \A w \in BookOwners(b) : ~RowHeld(b, w)
    /\ MayRemove(b, v)
    /\ Begin([kind |-> "remove", org |-> Nobody, who |-> v, book |-> b,
              as |-> "none", read |-> {}])
    /\ UNCHANGED <<member, ownerOf, place, wide, row>>

RemoveCommit(t) ==
    /\ t.kind = "remove"
    /\ ~RowHeld(t.book, t.who)
    /\ row' = [row EXCEPT ![t.book][t.who] = NoRow]
    /\ End(t)
    /\ UNCHANGED <<member, ownerOf, place, wide, begun>>

(***************************************************************************)
(* What a manager does to a member (actOnMember)                           *)
(***************************************************************************)

ActBegin(a, u, kind, as) ==
    /\ MayAct(a, u, as)
    /\ OrgFree(member[u].org)
    /\ kind = "enable" => ~member[u].disabled \/ FreeSeat(member[u].org)
    /\ kind = "role" => \A t \in tx : t.kind = "remove" =>
            \A b \in Books : <<b, u>> \in RowsByOrg(member[u].org, u) =>
                ~(t.book = b /\ (t.who = u \/ row[b][u].role = "owner"))
    /\ Begin([kind |-> kind, org |-> member[u].org, who |-> u, book |-> Unmade,
              as |-> as, read |-> {}])
    /\ UNCHANGED <<member, ownerOf, place, wide, row>>

DisableCommit(t) ==
    /\ t.kind \in {"disable", "enable"}
    /\ member' = [member EXCEPT ![t.who].disabled = t.kind = "disable"]
    /\ End(t)
    /\ UNCHANGED <<ownerOf, place, wide, row, begun>>

(* The rows the role rewrites, then every owner's on the default book; the *)
(* latter waits for a removal there, which has locked its owner rows.      *)
RoleCommit(t) ==
    LET c == t.org
        owners == OwnersAfter(c, t.who, t.as)
    IN  /\ t.kind = "role"
        /\ ~InsertsWait(DefaultBook[c])
        /\ member' = [member EXCEPT ![t.who].role = t.as]
        /\ row' = OwnerSync(Rewritten(c, t.who, t.as), c, owners)
        /\ \E o \in NextOwner(c, owners) : ownerOf' = [ownerOf EXCEPT ![c] = o]
        /\ End(t)
        /\ UNCHANGED <<place, wide, begun>>

(* A removal that wants the row a role change holds, while the role change *)
(* wants the owner rows the removal holds: Postgres ends one of them.      *)
DeadlockVictim(t) ==
    /\ \E r, s \in tx : /\ t \in {r, s}
                        /\ r.kind = "remove" /\ s.kind = "role"
                        /\ <<r.book, r.who>> \in RowsOf(s)
                        /\ r.book = DefaultBook[s.org]
    /\ End(t)
    /\ UNCHANGED <<member, ownerOf, place, wide, row, begun>>

(***************************************************************************)
(* The system                                                              *)
(***************************************************************************)

Init ==
    /\ InitAccounts
    /\ tx = {}
    /\ begun = 0

Begins(u) ==
    \/ \E c \in Companies : \/ CreateOrganization(c, u)
                            \/ \E as \in OrgRoles : JoinBegin(u, c, as)
    \/ \E b \in Books :
        \/ CreateBook(u, b)
        \/ ImportBegin(u, b)
        \/ \E on \in BOOLEAN : SwitchBegin(u, b, on)
        \/ \E v \in Users : AddDirect(u, b, v) \/ RemoveBegin(u, b, v)
    \/ \E v \in Users :
        \/ \E kind \in {"disable", "enable"} : ActBegin(u, v, kind, "none")
        \/ \E as \in OrgRoles : ActBegin(u, v, "role", as)

Ends(t) ==
    \/ JoinCommit(t)
    \/ ImportCommit(t)
    \/ SwitchCommit(t)
    \/ RemoveCommit(t)
    \/ DisableCommit(t)
    \/ RoleCommit(t)
    \/ DeadlockVictim(t)

Next == (\E u \in Users : Begins(u)) \/ (\E t \in tx : Ends(t))

Spec == Init /\ [][Next]_vars

(***************************************************************************)
(* Properties                                                              *)
(***************************************************************************)

(* Two invitations, or an invitation and a re-enable, never share the last *)
(* seat (joinOrganizationInTx, actOnMember).                               *)
SeatsRespected == \A c \in Companies : Cardinality(Active(c)) <= SeatLimit[c]

(* A join leaves no book behind in the personal organization: not one made *)
(* while it ran, nor one an import brought in across it (F169, F174).      *)
NoBookLeftBehind == \A u \in Users : member[u] # NotMember => OwnBooks(u) = {}

(* Every owner of a company is an owner of its default book, and owner_id *)
(* is one of them, whatever roles change and members are removed at once   *)
(* (F141, F150, F153).                                                     *)
OwnersAgree ==
    \A c \in Companies :
        /\ \A u \in OwnersIn(c) : row[DefaultBook[c]][u].role = "owner"
        /\ ownerOf[c] # Nobody => ownerOf[c] \in OwnersIn(c)

(* A row granted through the organization is on an org-wide book of the    *)
(* person's company, and its role is the one their org role gives (F178).  *)
OrgRowsFollow ==
    \A b \in Books : \A u \in Users : row[b][u].via = "org" =>
        /\ wide[b] /\ member[u].org = place[b]
        /\ row[b][u].role \in {BookRole(member[u].role)} \cup
                              (IF b \in Defaults THEN {member[u].role} ELSE {})

(* Whoever becomes a member gets every org-wide book, and a book made      *)
(* org-wide reaches every member, however the two interleave (F178).       *)
OrgWideReachesEveryone ==
    [][\A b \in Books : \A u \in Users :
        /\ wide'[b] /\ place'[b] \in Companies /\ member'[u].org = place'[b]
        /\ ~(wide[b] /\ member[u].org = place[b])
        => row'[b][u] # NoRow]_vars

(* The locks make the requests run one at a time: each acts at its commit  *)
(* on what it read and was allowed by when it began, and both still hold.  *)
Serial == INSTANCE SerialAccounts
ImplementsSerial == Serial!Spec

=============================================================================
