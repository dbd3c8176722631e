--------------------------- MODULE SerialAccounts ---------------------------
(***************************************************************************)
(* What the organization's locks are for: every request runs alone.  It    *)
(* reads, decides and writes in one step, and nothing is ever in between.  *)
(* OrganizationAccounts implements this at the commits of its transactions.*)
(***************************************************************************)
EXTENDS AccountState

vars == <<member, ownerOf, place, wide, row>>

(* createOrganization *)
Found(c, u) ==
    LET d == DefaultBook[c]
    IN  /\ ownerOf[c] = Nobody
        /\ member[u] = NotMember
        /\ FreeSeat(c)
        /\ ownerOf' = [ownerOf EXCEPT ![c] = u]
        /\ member' = [member EXCEPT ![u] = [org |-> c, role |-> "owner", disabled |-> FALSE]]
        /\ place' = [b \in Books |-> IF b \in OwnBooks(u) \cup {d} THEN c ELSE place[b]]
        /\ wide' = [wide EXCEPT ![d] = TRUE]
        /\ row' = [row EXCEPT ![d][u] = [role |-> "owner", via |-> "direct"]]

(* joinOrganizationInTx *)
Join(u, c, as) ==
    LET joined == Joined(row, u, as, OrgWideBooks(c))
    IN  /\ ownerOf[c] # Nobody
        /\ member[u] = NotMember
        /\ FreeSeat(c)
        /\ member' = [member EXCEPT ![u] = [org |-> c, role |-> as, disabled |-> FALSE]]
        /\ place' = [b \in Books |-> IF b \in OwnBooks(u) THEN c ELSE place[b]]
        /\ row' = IF as = "owner" THEN OwnerSync(joined, c, OwnersIn(c) \cup {u}) ELSE joined
        /\ UNCHANGED <<ownerOf, wide>>

(* A new book, or an import's, is in its owner's home.  There is no        *)
(* MayCreate here: an import begun before its account was disabled lands.  *)
Make(u, b) ==
    /\ b \notin Defaults /\ place[b] = Unmade
    /\ place' = [place EXCEPT ![b] = Home(u)]
    /\ row' = [row EXCEPT ![b][u] = [role |-> "owner", via |-> "direct"]]
    /\ UNCHANGED <<member, ownerOf, wide>>

(* setBookOrgWide *)
MayManage(u, b) == row[b][u].role \in {"owner", "admin"}

MakeOrgWide(b) ==
    /\ place[b] \in Companies
    /\ \E u \in Users : MayManage(u, b)
    /\ wide' = [wide EXCEPT ![b] = TRUE]
    /\ row' = [row EXCEPT ![b] = [v \in Users |->
                IF v \in MembersOf(place[b]) /\ @[v] = NoRow
                THEN [role |-> BookRole(member[v].role), via |-> "org"]
                ELSE @[v]]]
    /\ UNCHANGED <<member, ownerOf, place>>

MakePrivate(b) ==
    /\ place[b] \in Companies /\ b \notin Defaults
    /\ \E u \in Users : MayManage(u, b)
    /\ wide' = [wide EXCEPT ![b] = FALSE]
    /\ row' = [row EXCEPT ![b] = [v \in Users |-> IF @[v].via = "org" THEN NoRow ELSE @[v]]]
    /\ UNCHANGED <<member, ownerOf, place>>

(* addMember *)
Add(b, v) ==
    /\ \E u \in Users : MayManage(u, b)
    /\ row[b][v] = NoRow
    /\ row' = [row EXCEPT ![b][v] = [role |-> "member", via |-> "direct"]]
    /\ UNCHANGED <<member, ownerOf, place, wide>>

(* removeMember, by an owner of the book: MayRemove asks for one *)
Remove(b, v) ==
    /\ row[b][v] # NoRow
    /\ MayRemove(b, v)
    /\ row' = [row EXCEPT ![b][v] = NoRow]
    /\ UNCHANGED <<member, ownerOf, place, wide>>

(* actOnMember *)
SetDisabled(u, disabled) ==
    /\ \E a \in Users : MayAct(a, u, "none")
    /\ member[u].disabled /\ ~disabled => FreeSeat(member[u].org)
    /\ member' = [member EXCEPT ![u].disabled = disabled]
    /\ UNCHANGED <<ownerOf, place, wide, row>>

SetRole(u, as) ==
    LET c == member[u].org
        owners == OwnersAfter(c, u, as)
    IN  /\ \E a \in Users : MayAct(a, u, as)
        /\ member' = [member EXCEPT ![u].role = as]
        /\ row' = OwnerSync(Rewritten(c, u, as), c, owners)
        /\ \E o \in NextOwner(c, owners) : ownerOf' = [ownerOf EXCEPT ![c] = o]
        /\ UNCHANGED <<place, wide>>

Next ==
    \/ \E u \in Users :
        \/ \E c \in Companies : Found(c, u) \/ \E as \in OrgRoles : Join(u, c, as)
        \/ \E disabled \in BOOLEAN : SetDisabled(u, disabled)
        \/ \E as \in OrgRoles : SetRole(u, as)
        \/ \E b \in Books : Make(u, b) \/ Add(b, u) \/ Remove(b, u)
    \/ \E b \in Books : MakeOrgWide(b) \/ MakePrivate(b)

Spec == InitAccounts /\ [][Next]_vars

=============================================================================
