---------------------------- MODULE AccountState ----------------------------
(***************************************************************************)
(* Company organizations as the database holds them: who is a member, in   *)
(* which organization a book is, and who has a row on it, with what the    *)
(* code computes from these (authz/organizations.ts, authz/memberships.ts, *)
(* packages/domain/src/organizations.ts).                                  *)
(***************************************************************************)
EXTENDS FiniteSets, Naturals

CONSTANTS
    Users,
    Companies,
    Books,
    DefaultBook,   \* a company's default book (groups.org_default)
    SeatLimit,     \* organizations.seat_limit
    Nobody,
    Unmade         \* the place of a book without a row

ASSUME AccountsAssumption ==
    /\ IsFiniteSet(Users)
    /\ DefaultBook \in [Companies -> Books]
    /\ \A c, d \in Companies : DefaultBook[c] = DefaultBook[d] => c = d
    /\ SeatLimit \in [Companies -> Nat]
    /\ Users \cap Companies = {} /\ Nobody \notin Users \cup Companies
    /\ Unmade \notin Users \cup Companies

VARIABLES
    member,   \* organization_members: organization, role, disabled
    ownerOf,  \* organizations.owner_id, Nobody before the organization exists
    place,    \* groups.organization_id: a person's own organization or a company
    wide,     \* groups.org_wide
    row       \* group_members: role and how it was granted

OrgRoles == {"owner", "admin", "member"}
NotMember == [org |-> Nobody, role |-> "none", disabled |-> FALSE]
Membership == {NotMember} \cup [org : Companies, role : OrgRoles, disabled : BOOLEAN]
NoRow == [role |-> "none", via |-> "none"]
Row == {NoRow} \cup [role : OrgRoles, via : {"direct", "org"}]

(* bookRoleForOrgRole *)
BookRole(orgRole) == IF orgRole \in {"owner", "admin"} THEN "admin" ELSE "member"

MembersOf(c) == {u \in Users : member[u].org = c}
OwnersIn(c) == {u \in MembersOf(c) : member[u].role = "owner"}
Active(c) == {u \in MembersOf(c) : ~member[u].disabled}
BookOwners(b) == {u \in Users : row[b][u].role = "owner"}
OrgWideBooks(c) == {b \in Books : place[b] = c /\ wide[b]}
OwnBooks(u) == {b \in Books : place[b] = u}
Defaults == {DefaultBook[c] : c \in Companies}

(* hasFreeSeat over activeMemberCount *)
FreeSeat(c) == Cardinality(Active(c)) < SeatLimit[c]

(* slip: the default book is left to the org-wide rows *)
NoOwnerSync(rows, c, owners) == rows

(* syncDefaultBookOwners *)
OwnerSync(rows, c, owners) ==
    LET d == DefaultBook[c]
    IN  [rows EXCEPT ![d] = [u \in Users |->
            IF u \notin owners THEN @[u]
            ELSE [role |-> "owner", via |-> IF @[u] = NoRow THEN "org" ELSE @[u].via]]]

(* A row the account already holds stays as it is. *)
Joined(rows, u, as, books) ==
    [b \in Books |->
        IF b \in books /\ rows[b][u] = NoRow
        THEN [rows[b] EXCEPT ![u] = [role |-> BookRole(as), via |-> "org"]]
        ELSE rows[b]]

(* slip: no fallback to the personal organization *)
NoFallback(u) == member[u].org

(* homeOrganizationOf *)
Home(u) == IF member[u] = NotMember THEN u ELSE member[u].org

(* mayCreateBookIn, for the home organization *)
MayCreate(u) == ~member[u].disabled

(* slip: an org owner's row goes like any other *)
RemoveAnyRow(b, v) == TRUE

(* removeMember refuses the last owner, and an org owner on the default    *)
(* book.  Its lock of the owner rows makes it wait for a change of their   *)
(* roles.                                                                  *)
MayRemove(b, v) ==
    /\ ~(BookOwners(b) \subseteq {v})
    /\ ~(b \in Defaults /\ member[v].org = place[b] /\ member[v].role = "owner")

(* orgActionRefusal: admins act on members and admins, and make no owners. *)
MayAct(a, u, as) ==
    /\ a # u /\ ~member[a].disabled
    /\ member[a].org \in Companies /\ member[u].org = member[a].org
    /\ \/ member[a].role = "owner"
       \/ member[a].role = "admin" /\ member[u].role # "owner" /\ as # "owner"

(* slip: owner_id stays with the demoted owner *)
OwnerStays(c, owners) == {ownerOf[c]}

(* owner_id passes to a current owner, an enabled one when there is one. *)
NextOwner(c, owners) ==
    IF ownerOf[c] \in owners THEN {ownerOf[c]}
    ELSE LET enabled == {u \in owners : ~member[u].disabled}
         IN  IF enabled # {} THEN enabled ELSE owners

(* The rows a role in the organization decides: granted through it, and    *)
(* any on its default book.                                                *)
RowsByOrg(c, u) ==
    {<<b, u>> : b \in {d \in Books : /\ place[d] = c
                                     /\ row[d][u] # NoRow
                                     /\ row[d][u].via = "org" \/ d \in Defaults}}

Rewritten(c, u, as) ==
    [b \in Books |-> [v \in Users |->
        IF <<b, v>> \in RowsByOrg(c, u) THEN [row[b][v] EXCEPT !.role = BookRole(as)]
        ELSE row[b][v]]]

OwnersAfter(c, u, as) == (OwnersIn(c) \ {u}) \cup IF as = "owner" THEN {u} ELSE {}

(* A person may already hold a book of their own when the company begins. *)
InitAccounts ==
    /\ member = [u \in Users |-> NotMember]
    /\ ownerOf = [c \in Companies |-> Nobody]
    /\ place \in {p \in [Books -> Users \cup {Unmade}] : \A b \in Defaults : p[b] = Unmade}
    /\ wide = [b \in Books |-> FALSE]
    /\ row = [b \in Books |-> [u \in Users |->
                IF place[b] = u THEN [role |-> "owner", via |-> "direct"] ELSE NoRow]]

=============================================================================
