--------------------------- MODULE BookOwnership ---------------------------
(***************************************************************************)
(* Who holds a recipe book, while people are invited, added and removed,   *)
(* recipes are filed, and accounts are deleted (authz/memberships.ts,      *)
(* authz/book-succession.ts, routes/groups.ts, routes/invitations.ts,      *)
(* services/user-delete.service.ts).                                       *)
(*                                                                         *)
(* A request is authorised by one statement and writes in a later one, so  *)
(* its authorisation can be stale when it writes.  An account deletion is  *)
(* three phases in transactions of their own; its last transaction holds   *)
(* the locks of the books it may change, which membership writes wait for  *)
(* and the filing of a recipe does not.                                    *)
(***************************************************************************)
EXTENDS FiniteSets, Functions, Naturals

CONSTANTS
    Users,         \* accounts; each owns one personal organization, named by its user
    Dormant,       \* accounts that fail activeUserPredicate (unverified or waitlisted)
    Departing,     \* accounts whose owner may ask for deletion
    Company,       \* an organization none of the users owns
    Books,
    Recipes,
    Nobody,
    Unmade, NoBook,  \* a book, or a recipe's book, before its row and after it
    VerifyListed,  \* whether a draft on a deletion's list may still be resolved
    MaxRequests    \* bound: requests made in one behaviour

ASSUME OwnershipAssumption ==
    /\ Dormant \subseteq Users /\ Departing \subseteq Users
    /\ Company \notin Users /\ Nobody \notin Users
    /\ {Unmade, NoBook} \cap (Users \cup Books \cup {Company, Nobody}) = {}
    /\ Unmade # NoBook
    /\ VerifyListed \in BOOLEAN /\ MaxRequests \in Nat

VARIABLES
    org,       \* groups.organization_id, or Unmade or NoBook
    role,      \* group_members.role, "none" without a row
    recipe,    \* traces: author, the person an unverified draft is about, book
    pending,   \* invitations neither answered nor expired
    request,   \* the request a user's client has in flight
    leaving,   \* the deletion of an account
    gone,      \* accounts whose users row is deleted
    asked      \* requests made so far

vars == <<org, role, recipe, pending, request, leaving, gone, asked>>

Orgs == Users \cup {Company}
Roles == {"none", "member", "admin", "owner"}
Blank(b) == [author |-> Nobody, about |-> Nobody, book |-> b]
RecipeRow == [author : Users, about : Users \cup {Nobody}, book : Books]
Invitation == [book : Books, to : Users, by : Users]
Idle == [kind |-> "idle", book |-> NoBook, who |-> Nobody, as |-> "none"]
Kinds == {"accept", "join", "add", "remove", "invite", "file"}
Request == {Idle} \cup
    [kind : Kinds, book : Books, who : Users \cup {Nobody}, as : Roles]

(* Where deleteUserCascade is: books it will hand on, recipes on its list, *)
(* books it has locked, who takes which book, and the books found empty.   *)
Staying == [phase |-> "no", shared |-> {}, list |-> {}, locked |-> {},
            heirs |-> << >>, keepers |-> << >>, empty |-> {}]
Phases == {"no", "hand", "collect", "recipes", "locked", "planned", "decided"}

Exists(b) == org[b] \in Orgs
Members(b) == {u \in Users : role[b][u] # "none"}
Owners(b) == {u \in Users : role[b][u] = "owner"}
Others(b, u) == Members(b) \ {u}
IsRow(t) == recipe[t].book \in Books
LockedBy(b) == {u \in Users : b \in leaving[u].locked \cup leaving[u].empty}
Unlocked(b, u) == LockedBy(b) \subseteq {u}

(* slip: membership writes do not wait for the book's row *)
NeverHeld(b) == TRUE

(* A membership insert takes a key-share lock on the book's row, a removal *)
(* locks it: both wait for a deletion's FOR UPDATE.                        *)
RowFree(b) == LockedBy(b) = {}

(* Type correctness; a membership row needs its book (foreign key). *)
TypeOK ==
    /\ org \in [Books -> Orgs \cup {Unmade, NoBook}]
    /\ role \in [Books -> [Users -> Roles]]
    /\ recipe \in [Recipes -> RecipeRow \cup {Blank(Unmade), Blank(NoBook)}]
    /\ pending \subseteq Invitation
    /\ request \in [Users -> Request]
    /\ \A u \in Users :
        /\ leaving[u].phase \in Phases
        /\ leaving[u].shared \subseteq Books \X Orgs
        /\ leaving[u].list \subseteq Recipes
        /\ leaving[u].locked \subseteq Books
        /\ DOMAIN leaving[u].heirs \subseteq Books
        /\ DOMAIN leaving[u].keepers \subseteq Books
        /\ leaving[u].empty \subseteq Books
    /\ gone \subseteq Users
    /\ \A b \in Books : Members(b) # {} => Exists(b)
    /\ asked \in 0..MaxRequests

(* A book begins with the owner who created it, in the creator's own       *)
(* organization or in the company's, and with members of any other role.   *)
Init ==
    /\ \E creator \in [Books -> Users] :
        /\ org \in {o \in [Books -> Orgs \cup {Unmade}] :
                        \A b \in Books : o[b] \in {creator[b], Company, Unmade}}
        /\ role \in {r \in [Books -> [Users -> Roles]] : \A b \in Books :
                        IF org[b] = Unmade THEN Range(r[b]) = {"none"}
                        ELSE \A u \in Users : (r[b][u] = "owner") = (u = creator[b])}
    /\ recipe = [t \in Recipes |-> Blank(Unmade)]
    /\ pending = {}
    /\ request = [u \in Users |-> Idle]
    /\ leaving = [u \in Users |-> Staying]
    /\ gone = {}
    /\ asked = 0

(***************************************************************************)
(* Requests: the role is read by one statement, the write comes later.     *)
(***************************************************************************)

Send(u, r) ==
    /\ u \notin gone
    /\ request[u] = Idle
    /\ asked < MaxRequests
    /\ asked' = asked + 1
    /\ request' = [request EXCEPT ![u] = r]

Answered(u) == request' = [request EXCEPT ![u] = Idle]

(* POST /groups/:id/members: owners and admins add members or admins. *)
AskAdd(u, b, v, as) ==
    /\ role[b][u] \in {"owner", "admin"}
    /\ v \notin gone
    /\ as \in {"member", "admin"}
    /\ Send(u, [kind |-> "add", book |-> b, who |-> v, as |-> as])
    /\ UNCHANGED <<org, role, recipe, pending, leaving, gone>>

(* slip: the book is not looked up again *)
InsertUnchecked(b, v, as) ==
    /\ RowFree(b)
    /\ role' = IF v \notin gone /\ role[b][v] = "none"
               THEN [role EXCEPT ![b][v] = as] ELSE role

(* A membership row needs its book and its account (foreign keys), waits   *)
(* for whoever holds the book's row, and never changes a role.             *)
InsertMember(b, v, as) ==
    /\ RowFree(b)
    /\ role' = IF Exists(b) /\ v \notin gone /\ role[b][v] = "none"
               THEN [role EXCEPT ![b][v] = as] ELSE role

AddMember(u) ==
    /\ request[u].kind = "add"
    /\ InsertMember(request[u].book, request[u].who, request[u].as)
    /\ Answered(u)
    /\ UNCHANGED <<org, recipe, pending, leaving, gone, asked>>

(* DELETE /groups/:id/members/:userId: owners remove anyone. *)
AskRemove(u, b, v) ==
    /\ role[b][u] = "owner"
    /\ Send(u, [kind |-> "remove", book |-> b, who |-> v, as |-> "none"])
    /\ UNCHANGED <<org, role, recipe, pending, leaving, gone>>

(* slip: the owners are not counted *)
RemovesAnyone(b, v) == TRUE

MayRemove(b, v) == ~(role[b][v] = "owner" /\ Cardinality(Owners(b)) <= 1)

(* removeMember: one transaction under the book's row. *)
RemoveMember(u) ==
    LET b == request[u].book
        v == request[u].who
    IN  /\ request[u].kind = "remove"
        /\ RowFree(b)
        /\ IF role[b][v] # "none" /\ MayRemove(b, v)
           THEN /\ role' = [role EXCEPT ![b][v] = "none"]
                /\ pending' = {i \in pending : ~(i.book = b /\ i.by = v)}
           ELSE UNCHANGED <<role, pending>>
        /\ Answered(u)
        /\ UNCHANGED <<org, recipe, leaving, gone, asked>>

(* POST /groups/:id/invite: the role check, then expire and insert. *)
AskInvite(u, b, v) ==
    /\ role[b][u] \in {"owner", "admin"}
    /\ Send(u, [kind |-> "invite", book |-> b, who |-> v, as |-> "none"])
    /\ UNCHANGED <<org, role, recipe, pending, leaving, gone>>

Invite(u) ==
    LET b == request[u].book
        v == request[u].who
        others == {i \in pending : ~(i.book = b /\ i.to = v)}
    IN  /\ request[u].kind = "invite"
        /\ pending' = IF Exists(b) /\ u \notin gone
                      THEN others \cup {[book |-> b, to |-> v, by |-> u]}
                      ELSE others
        /\ Answered(u)
        /\ UNCHANGED <<org, role, recipe, leaving, gone, asked>>

(* Revoke by an owner or admin, or decline by the invited. *)
CloseInvitation(u, i) ==
    /\ i \in pending
    /\ u \notin gone
    /\ u = i.to \/ role[i.book][u] \in {"owner", "admin"}
    /\ pending' = pending \ {i}
    /\ UNCHANGED <<org, role, recipe, request, leaving, gone, asked>>

(* POST /invitations/:id/accept: read, mark as accepted, insert. *)
AskAccept(u, i) ==
    /\ i \in pending
    /\ i.to = u
    /\ Send(u, [kind |-> "accept", book |-> i.book, who |-> i.by, as |-> "member"])
    /\ UNCHANGED <<org, role, recipe, pending, leaving, gone>>

MarkAccepted(u) ==
    LET r == request[u]
    IN  /\ r.kind = "accept"
        /\ pending' = pending \ {[book |-> r.book, to |-> u, by |-> r.who]}
        /\ request' = [request EXCEPT ![u].kind = "join"]
        /\ UNCHANGED <<org, role, recipe, leaving, gone, asked>>

JoinAccepted(u) ==
    /\ request[u].kind = "join"
    /\ InsertMember(request[u].book, u, "member")
    /\ Answered(u)
    /\ UNCHANGED <<org, recipe, pending, leaving, gone, asked>>

(* POST /groups: the book and its owner in one transaction. *)
CreateBook(u, b) ==
    /\ u \notin gone
    /\ asked < MaxRequests
    /\ org[b] = Unmade
    /\ org' = [org EXCEPT ![b] = u]
    /\ role' = [role EXCEPT ![b][u] = "owner"]
    /\ asked' = asked + 1
    /\ UNCHANGED <<recipe, pending, request, leaving, gone>>

(* A deposit takes no lock on its book and has no foreign key to it. *)
AskFile(u, b, about) ==
    /\ role[b][u] # "none"
    /\ about = Nobody \/ (about # u /\ about \in Members(b))
    /\ Send(u, [kind |-> "file", book |-> b, who |-> about, as |-> "none"])
    /\ UNCHANGED <<org, role, recipe, pending, leaving, gone>>

File(u, t) ==
    /\ request[u].kind = "file"
    /\ recipe[t].book = Unmade
    /\ recipe' = [recipe EXCEPT ![t] =
                    [author |-> u, about |-> request[u].who, book |-> request[u].book]]
    /\ Answered(u)
    /\ UNCHANGED <<org, role, pending, leaving, gone, asked>>

(* resolveDraft: only the subject, with a membership in the draft's book;  *)
(* a verified draft becomes its subject's recipe.                          *)
Resolve(u, t, verified) ==
    /\ u \notin gone
    /\ VerifyListed \/ \A v \in Users : t \notin leaving[v].list
    /\ IsRow(t) /\ recipe[t].about = u
    /\ role[recipe[t].book][u] # "none"
    /\ recipe' = [recipe EXCEPT ![t].about = Nobody,
                                ![t].author = IF verified THEN u ELSE @]
    /\ UNCHANGED <<org, role, pending, request, leaving, gone, asked>>

(***************************************************************************)
(* Account deletion                                                        *)
(***************************************************************************)

(* sharedBooksOwnedBy: with another member, and in an organization of the  *)
(* user's or owned by the user as a member.                                *)
SharedBooksOwnedBy(u) ==
    {b \in Books : /\ Exists(b)
                   /\ org[b] = u \/ role[b][u] = "owner"
                   /\ Others(b, u) # {}}

(* pickSuccessor: accounts that can act come first, then the highest role; *)
(* among those the longest-standing, which is any of them here.            *)
Successors(b, u) ==
    LET able == Others(b, u) \ Dormant
        pool == IF able = {} THEN Others(b, u) ELSE able
        with(r) == {v \in pool : role[b][v] = r}
    IN  IF with("owner") # {} THEN with("owner")
        ELSE IF with("admin") # {} THEN with("admin") ELSE pool

(* draftAwaitingReviewBy *)
Awaits(t, u) == IsRow(t) /\ recipe[t].about = u

(* memberlessBooksWithOthersRecipes, with the authors whose organization   *)
(* the book may move to.                                                   *)
AuthorsLeftIn(b, u) ==
    {recipe[t].author : t \in {s \in Recipes : IsRow(s) /\ recipe[s].book = b /\ ~Awaits(s, u)}}
        \ (gone \cup {u})

MemberlessBooks(u) ==
    {b \in Books : org[b] = u /\ Others(b, u) = {} /\ AuthorsLeftIn(b, u) # {}}

(* Every outcome of handOverSharedBooks over the books S: the successor in *)
(* each shared book, and whose organization keeps each memberless book.    *)
(* A successor who owns the book already takes nothing unless it moves.    *)
HandOvers(u, S) ==
    LET shared == {b \in S : Others(b, u) # {}}
    IN  {[heirs |-> h, keepers |-> k] :
            h \in {f \in [shared -> Users] : \A b \in shared : f[b] \in Successors(b, u)},
            k \in {f \in [MemberlessBooks(u) -> Users] :
                      \A b \in MemberlessBooks(u) : f[b] \in AuthorsLeftIn(b, u)}}

RoleAfter(heirs) ==
    [b \in Books |-> IF b \in DOMAIN heirs THEN [role[b] EXCEPT ![heirs[b]] = "owner"] ELSE role[b]]

(* A book in the user's organization moves to the heir's or the keeper's. *)
OrgAfter(u, heirs, keepers) ==
    [b \in Books |-> IF org[b] = u /\ b \in DOMAIN heirs THEN heirs[b]
                     ELSE IF b \in DOMAIN keepers THEN keepers[b]
                     ELSE org[b]]

(* DELETE /auth/me, or the purge of stale waitlisted accounts: the first   *)
(* statement of phase 0 finds the shared books; it waits for their rows.   *)
AskDelete(u) ==
    /\ u \in Departing \ gone
    /\ leaving[u].phase = "no"
    /\ leaving' = [leaving EXCEPT ![u].phase = "hand",
                                  ![u].shared = {<<b, org[b]>> : b \in SharedBooksOwnedBy(u)}]
    /\ UNCHANGED <<org, role, recipe, pending, request, gone, asked>>

(* Phase 0.  A book that moved while its row was waited for drops out. *)
HandOver(u) ==
    LET still == {b \in Books : <<b, org[b]>> \in leaving[u].shared}
    IN  /\ leaving[u].phase = "hand"
        /\ \A b \in still \cup MemberlessBooks(u) : LockedBy(b) = {}
        /\ \E out \in HandOvers(u, still) :
            /\ role' = RoleAfter(out.heirs)
            /\ org' = OrgAfter(u, out.heirs, out.keepers)
        /\ leaving' = [leaving EXCEPT ![u].phase = "collect", ![u].shared = {}]
        /\ UNCHANGED <<recipe, pending, request, gone, asked>>

(* slip: whoever wrote them *)
AllInSoleMemberBooks(u) ==
    {t \in Recipes : /\ IsRow(t)
                     /\ Exists(recipe[t].book) /\ org[recipe[t].book] = u
                     /\ Others(recipe[t].book, u) = {}}

(* traceIdsInSoleMemberBooksOwnedBy: never the recipe of another person    *)
(* who still has an account.                                               *)
InSoleMemberBooks(u) ==
    {t \in Recipes : /\ IsRow(t)
                     /\ Exists(recipe[t].book) /\ org[recipe[t].book] = u
                     /\ Others(recipe[t].book, u) = {}
                     /\ recipe[t].author \in gone \cup {u}}

UserRecipes(u) ==
    {t \in Recipes : IsRow(t) /\ (recipe[t].author = u \/ Awaits(t, u))} \cup InSoleMemberBooks(u)

CollectRecipes(u) ==
    /\ leaving[u].phase = "collect"
    /\ leaving' = [leaving EXCEPT ![u].phase = "recipes", ![u].list = UserRecipes(u)]
    /\ UNCHANGED <<org, role, recipe, pending, request, gone, asked>>

(* Phase 1: a transaction per recipe on the list. *)
DeleteRecipe(u, t) ==
    /\ leaving[u].phase = "recipes"
    /\ t \in leaving[u].list
    /\ recipe' = [recipe EXCEPT ![t] = Blank(NoBook)]
    /\ leaving' = [leaving EXCEPT ![u].list = @ \ {t}]
    /\ UNCHANGED <<org, role, pending, request, gone, asked>>

(* Phase 2 is one transaction: its writes take effect at its commit. *)
LockBooks(u) ==
    LET mine == {b \in Books : Exists(b) /\ (org[b] = u \/ role[b][u] # "none")}
    IN  /\ leaving[u].phase = "recipes"
        /\ leaving[u].list = {}
        /\ \A b \in mine : LockedBy(b) = {}
        /\ leaving' = [leaving EXCEPT ![u].phase = "locked", ![u].locked = mine]
        /\ UNCHANGED <<org, role, recipe, pending, request, gone, asked>>

(* The second hand-over, which locks what it changes, and the stragglers. *)
PlanTeardown(u) ==
    LET wanted == SharedBooksOwnedBy(u) \cup MemberlessBooks(u)
    IN  /\ leaving[u].phase = "locked"
        /\ \A b \in wanted : Unlocked(b, u)
        /\ \E out \in HandOvers(u, SharedBooksOwnedBy(u)) :
            leaving' = [leaving EXCEPT ![u].phase = "planned",
                                       ![u].heirs = out.heirs,
                                       ![u].keepers = out.keepers,
                                       ![u].list = UserRecipes(u),
                                       ![u].locked = @ \cup wanted]
        /\ UNCHANGED <<org, role, recipe, pending, request, gone, asked>>

StillOwned(u) ==
    {b \in Books : OrgAfter(u, leaving[u].heirs, leaving[u].keepers)[b] = u}

(* The books of the user's organizations that hold no recipe once the      *)
(* stragglers are gone.  Their delete waits for whoever holds their rows,  *)
(* and holds them until the commit.                                        *)
EmptyBooks(u) ==
    {b \in StillOwned(u) : \A t \in Recipes \ leaving[u].list : recipe[t].book # b}

FindEmptyBooks(u) ==
    /\ leaving[u].phase = "planned"
    /\ \A b \in EmptyBooks(u) : Unlocked(b, u)
    /\ leaving' = [leaving EXCEPT ![u].phase = "decided", ![u].empty = EmptyBooks(u)]
    /\ UNCHANGED <<org, role, recipe, pending, request, gone, asked>>

(* What another deletion has written and not committed holds the rows of u *)
(* it touched: the organization a book moves into (its foreign key), and   *)
(* the membership of the successor it picked (FOR UPDATE).                 *)
MovesInto(v, u) ==
    \E b \in Books : /\ OrgAfter(v, leaving[v].heirs, leaving[v].keepers)[b] = u
                     /\ org[b] # u

HoldsRowsOf(v, u) ==
    /\ v # u
    /\ leaving[v].phase \in {"planned", "decided"}
    /\ MovesInto(v, u) \/ u \in Range(leaving[v].heirs)

OwnRowsFree(u) == \A v \in Users : ~HoldsRowsOf(v, u)

(* slip: the organization is deleted over a book that is left *)
NeverBlocked(u) == FALSE

(* A book left in the organization stops its delete: the transaction rolls *)
(* back and the account can ask again.                                     *)
Blocked(u) == ~(StillOwned(u) \subseteq leaving[u].empty)

RollBack(u) ==
    /\ leaving[u].phase = "decided"
    /\ OwnRowsFree(u)
    /\ Blocked(u)
    /\ leaving' = [leaving EXCEPT ![u] = Staying]
    /\ UNCHANGED <<org, role, recipe, pending, request, gone, asked>>

Commit(u) ==
    LET out == leaving[u]
        roles == RoleAfter(out.heirs)
    IN  /\ out.phase = "decided"
        /\ OwnRowsFree(u)
        /\ ~Blocked(u)
        /\ org' = [b \in Books |-> IF b \in out.empty THEN NoBook
                                   ELSE OrgAfter(u, out.heirs, out.keepers)[b]]
        /\ role' = [b \in Books |-> [v \in Users |->
                        IF v = u \/ b \in out.empty THEN "none" ELSE roles[b][v]]]
        /\ recipe' = [t \in Recipes |-> IF t \in out.list THEN Blank(NoBook) ELSE recipe[t]]
        /\ pending' = {i \in pending : i.by # u /\ i.book \notin out.empty}
        /\ gone' = gone \cup {u}
        /\ leaving' = [leaving EXCEPT ![u] = Staying]
        /\ UNCHANGED <<request, asked>>

Requests(u) ==
    \/ \E b \in Books :
        \/ CreateBook(u, b)
        \/ \E v \in Users :
            \/ \E as \in {"member", "admin"} : AskAdd(u, b, v, as)
            \/ AskRemove(u, b, v)
            \/ AskInvite(u, b, v)
        \/ \E about \in Users \cup {Nobody} : AskFile(u, b, about)
    \/ \E i \in pending : CloseInvitation(u, i) \/ AskAccept(u, i)
    \/ \E t \in Recipes : \E verified \in BOOLEAN : Resolve(u, t, verified)

Writes(u) ==
    \/ AddMember(u)
    \/ RemoveMember(u)
    \/ Invite(u)
    \/ MarkAccepted(u)
    \/ JoinAccepted(u)
    \/ \E t \in Recipes : File(u, t)

Deletion(u) ==
    \/ HandOver(u)
    \/ CollectRecipes(u)
    \/ \E t \in Recipes : DeleteRecipe(u, t)
    \/ LockBooks(u)
    \/ PlanTeardown(u)
    \/ FindEmptyBooks(u)
    \/ RollBack(u)
    \/ Commit(u)

Next == \E u \in Users : Requests(u) \/ Writes(u) \/ AskDelete(u) \/ Deletion(u)

Spec == Init /\ [][Next]_vars

(***************************************************************************)
(* Properties                                                              *)
(***************************************************************************)

(* A step that takes the last owner from a book leaves no member in it:    *)
(* removals are refused, and a deletion that holds the book's row hands it *)
(* on to a member it finds under the lock.                                 *)
LastOwnerLeavesNobody ==
    [][\A b \in Books :
        /\ Owners(b) # {} /\ Owners(b)' = {}
        /\ \A u \in gone' \ gone : b \in leaving[u].locked
        => Members(b)' = {}]_vars

(* A recipe that a deletion takes is the departing person's: theirs by     *)
(* author, a draft about them, or left by an author without an account.    *)
TakesOnlyTheirs ==
    [][\A t \in Recipes : IsRow(t) /\ ~IsRow(t)' =>
        \E u \in Departing :
            /\ leaving[u] # leaving'[u]
            /\ recipe[t].author \in gone \cup {u} \/ recipe[t].about = u]_vars

(* Nothing of a deleted account is left that would give it access or that  *)
(* another person's row depends on, whatever joins, leaves and hand-overs  *)
(* of others came between the statements of its deletion.                  *)
GoneLeavesNothing ==
    \A u \in gone :
        /\ \A b \in Books : role[b][u] = "none" /\ org[b] # u
        /\ \A i \in pending : i.by # u

(* Only a book with no member but the departing user goes with an account, *)
(* of the books it holds locked: nobody can join between the hand-over's   *)
(* second look and the delete.                                             *)
SharedBooksSurvive ==
    [][\A b \in Books : Exists(b) /\ ~Exists(b)' =>
        \E u \in gone' \ gone : b \in leaving[u].locked => Members(b) \subseteq {u}]_vars

=============================================================================
