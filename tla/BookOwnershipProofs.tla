------------------------ MODULE BookOwnershipProofs ------------------------
(* Every property of BookOwnership, for any accounts, books, recipes and   *)
(* requests.  What a deletion decides is still right when it commits,      *)
(* because the books it changes are held and the people it chose cannot go *)
(* before it: DeletionInv says so, and the properties follow from it.      *)
EXTENDS BookOwnership, FiniteSetTheorems, TLAPS

(* The deletion of an account, as its record is typed. *)
HandedTo == UNION {[S -> Users] : S \in SUBSET Books}
Leaving == [phase : Phases, shared : SUBSET (Books \X Orgs), list : SUBSET Recipes,
            locked : SUBSET Books, heirs : HandedTo, keepers : HandedTo, empty : SUBSET Books]

Held(u) == leaving[u].locked \cup leaving[u].empty
Planned(u) == leaving[u].phase \in {"planned", "decided"}

(* A request that names a person names an account. *)
Named(u) ==
    request[u].kind \in {"accept", "join", "add", "remove", "invite"} => request[u].who \in Users

(* What a deletion carries belongs to its phase. *)
InPhase(u) ==
    /\ leaving[u].phase # "no" => u \in Departing \ gone
    /\ leaving[u].phase \notin {"locked", "planned", "decided"} => leaving[u].locked = {}
    /\ ~Planned(u) => leaving[u].heirs = << >> /\ leaving[u].keepers = << >>
    /\ leaving[u].phase # "decided" => leaving[u].empty = {}

(* A recipe on a deletion's list was a row, and if it still is, it is the  *)
(* departing person's or of an author without an account.                  *)
Listed(u) ==
    \A t \in leaving[u].list :
        /\ recipe[t].book # Unmade
        /\ ~VerifyListed /\ IsRow(t) => recipe[t].author \in gone \cup {u} \/ recipe[t].about = u

(* A book is held by one deletion at a time, and stays while it is held. *)
HeldByOne == \A u, v \in Users : u # v => Held(u) \cap Held(v) = {}
HeldExist == \A u \in Users : \A b \in Held(u) : Exists(b)

(* What is planned is still right at the commit: it changes books that are *)
(* held, hands them to people who are there, and a held book that nobody   *)
(* takes over has no other member.                                         *)
PlanHolds(u) ==
    Planned(u) =>
        LET heirs == leaving[u].heirs
            keepers == leaving[u].keepers
        IN  /\ DOMAIN heirs \cup DOMAIN keepers \subseteq leaving[u].locked
            /\ DOMAIN heirs \cap DOMAIN keepers = {}
            /\ \A b \in DOMAIN heirs : heirs[b] \in Users \ (gone \cup {u})
            /\ \A b \in DOMAIN keepers : keepers[b] \in Users \ (gone \cup {u}) /\ org[b] = u
            /\ \A b \in leaving[u].locked \ DOMAIN heirs :
                    org[b] = u \/ role[b][u] = "owner" => Others(b, u) = {}
            /\ leaving[u].empty \subseteq StillOwned(u)

DeletionInv ==
    /\ leaving \in [Users -> Leaving]
    /\ \A u \in Users : Named(u) /\ InPhase(u) /\ Listed(u) /\ PlanHolds(u)
    /\ HeldByOne /\ HeldExist
    /\ GoneLeavesNothing

RowTypes ==
    /\ org \in [Books -> Orgs \cup {Unmade, NoBook}]
    /\ role \in [Books -> [Users -> Roles]]
    /\ recipe \in [Recipes -> RecipeRow \cup {Blank(Unmade), Blank(NoBook)}]
    /\ pending \subseteq Invitation
    /\ request \in [Users -> Request]
    /\ gone \subseteq Users
    /\ \A b \in Books : Members(b) # {} => Exists(b)
    /\ asked \in 0..MaxRequests

OwnershipInv == RowTypes /\ DeletionInv

(* What the three action properties say of a step. *)
OwnerStep ==
    \A b \in Books :
        /\ Owners(b) # {} /\ Owners(b)' = {}
        /\ \A u \in gone' \ gone : b \in leaving[u].locked
        => Members(b)' = {}

TakeStep ==
    \A t \in Recipes : IsRow(t) /\ ~IsRow(t)' =>
        \E u \in Departing :
            /\ leaving[u] # leaving'[u]
            /\ recipe[t].author \in gone \cup {u} \/ recipe[t].about = u

KeepStep ==
    \A b \in Books : Exists(b) /\ ~Exists(b)' =>
        \E u \in gone' \ gone : b \in leaving[u].locked => Members(b) \subseteq {u}

Steps == OwnerStep /\ (~VerifyListed => TakeStep) /\ KeepStep

HeldKept == \A u \in Users : \A b \in Held(u) : org'[b] = org[b] /\ role'[b] = role[b]

---------------------------------------------------------------------------
(* Constants and rows.                                                     *)
LEMMA Names ==
    /\ \A u \in Users : u # Nobody /\ u # Company /\ u # Unmade /\ u # NoBook /\ u \in Orgs
    /\ Unmade \notin Orgs /\ NoBook \notin Orgs /\ Unmade # NoBook
    /\ Unmade \notin Books /\ NoBook \notin Books
    /\ Departing \subseteq Users
BY OwnershipAssumption DEF Orgs

LEMMA TypesOfInv == OwnershipInv => TypeOK
<1> SUFFICES ASSUME OwnershipInv PROVE TypeOK
  OBVIOUS
<1>1. \A u \in Users : leaving[u] \in Leaving BY DEF OwnershipInv, DeletionInv
<1>2. \A f \in HandedTo : DOMAIN f \subseteq Books BY DEF HandedTo
<1>3. QED BY <1>1, <1>2 DEF OwnershipInv, RowTypes, TypeOK, Leaving

(* A deletion is not disturbed by a step that leaves its books alone and   *)
(* whom it chose.                                                          *)
LEMMA PlanKept ==
    ASSUME NEW v \in Users, PlanHolds(v), leaving'[v] = leaving[v], v \notin gone,
           \A b \in DOMAIN leaving[v].heirs : leaving[v].heirs[b] \notin gone',
           \A b \in DOMAIN leaving[v].keepers : leaving[v].keepers[b] \notin gone',
           leaving[v].empty \subseteq Books, leaving[v].locked \subseteq Books,
           \A b \in Held(v) : /\ org'[b] = org[b] /\ role'[b][v] = role[b][v]
                              /\ Members(b)' \subseteq Members(b)
    PROVE  PlanHolds(v)'
<1> SUFFICES ASSUME Planned(v) PROVE PlanHolds(v)'
  BY DEF PlanHolds, Planned
<1>1. ASSUME NEW b \in leaving[v].empty PROVE b \in StillOwned(v)'
  <2>1. b \in StillOwned(v) /\ org'[b] = org[b] BY DEF PlanHolds, Held
  <2>2. QED BY <2>1 DEF StillOwned, OrgAfter
<1>2. \A b \in leaving[v].locked : Others(b, v)' \subseteq Others(b, v) BY DEF Others, Held
<1>3. \A b \in DOMAIN leaving[v].keepers : org'[b] = org[b] BY DEF PlanHolds, Held
<1>4. \A b \in leaving[v].locked : org'[b] = org[b] /\ role'[b][v] = role[b][v] BY DEF Held
<1>5. QED BY <1>1, <1>2, <1>3, <1>4 DEF PlanHolds, Planned

(* A step that belongs to no deletion. *)
LEMMA Quiet ==
    ASSUME OwnershipInv, UNCHANGED <<leaving, gone>>, RowTypes', \A u \in Users : Named(u)',
           \A u \in Users : Listed(u)', GoneLeavesNothing', HeldKept
    PROVE  OwnershipInv'
<1> USE DEF OwnershipInv, DeletionInv
<1>1. ASSUME NEW v \in Users PROVE PlanHolds(v)'
  <2> SUFFICES ASSUME Planned(v) PROVE PlanHolds(v)'
    BY DEF PlanHolds, Planned
  <2>1. v \notin gone BY DEF InPhase, Planned
  <2>2. \A b \in Held(v) : Members(b)' \subseteq Members(b) BY DEF HeldKept, Members
  <2>3. leaving[v] \in Leaving OBVIOUS
  <2>4. leaving[v].empty \subseteq Books /\ leaving[v].locked \subseteq Books BY <2>3 DEF Leaving
  <2>5. /\ \A b \in DOMAIN leaving[v].heirs : leaving[v].heirs[b] \notin gone'
        /\ \A b \in DOMAIN leaving[v].keepers : leaving[v].keepers[b] \notin gone'
    BY DEF PlanHolds
  <2>6. QED BY <2>1, <2>2, <2>4, <2>5, PlanKept DEF HeldKept
<1>2. \A v \in Users : InPhase(v)' BY DEF InPhase, Planned
<1>3. HeldByOne' /\ HeldExist' BY DEF HeldByOne, HeldExist, Held, Exists, HeldKept
<1>4. QED BY <1>1, <1>2, <1>3

LEMMA QuietSteps ==
    ASSUME \A b \in Books : (Owners(b) # {} => Owners(b)' # {}) /\ (Exists(b) => Exists(b)'),
           \A t \in Recipes : IsRow(t) => IsRow(t)'
    PROVE  Steps
BY DEF Steps, OwnerStep, TakeStep, KeepStep

---------------------------------------------------------------------------
(* Requests and their writes.                                              *)

(* A request that is made names an account. *)
LEMMA Asks ==
    ASSUME OwnershipInv, NEW u \in Users, NEW r \in Request, Send(u, r),
           r.kind \in {"accept", "join", "add", "remove", "invite"} => r.who \in Users,
           UNCHANGED <<org, role, recipe, pending, leaving, gone>>
    PROVE  OwnershipInv' /\ Steps
<1> USE DEF OwnershipInv, DeletionInv
<1>1. request' \in [Users -> Request] /\ request' = [request EXCEPT ![u] = r]
  BY DEF RowTypes, Send
<1>2. \A v \in Users : Named(v)' BY <1>1 DEF Named, RowTypes
<1>3. asked' \in 0..MaxRequests BY OwnershipAssumption DEF RowTypes, Send
<1>4. RowTypes' BY <1>1, <1>3 DEF RowTypes, Members, Exists
<1>5. \A v \in Users : Listed(v)' BY DEF Listed, IsRow
<1>6. GoneLeavesNothing' BY DEF GoneLeavesNothing
<1>7. HeldKept BY DEF HeldKept
<1>8. OwnershipInv' BY <1>2, <1>4, <1>5, <1>6, <1>7, Quiet
<1>9. Steps BY QuietSteps DEF Owners, Exists, IsRow
<1>10. QED BY <1>8, <1>9

(* A step that only answers a request, or closes invitations, or both. *)
LEMMA Answers ==
    ASSUME OwnershipInv, request' \in [Users -> Request], \A v \in Users : Named(v)',
           pending' \subseteq Invitation,
           \A i \in pending' : i \in pending \/ i.by \notin gone,
           UNCHANGED <<org, role, recipe, leaving, gone, asked>>
    PROVE  OwnershipInv' /\ Steps
<1> USE DEF OwnershipInv, DeletionInv
<1>1. RowTypes' BY DEF RowTypes, Members, Exists
<1>2. \A v \in Users : Listed(v)' BY DEF Listed, IsRow
<1>3. GoneLeavesNothing' BY DEF GoneLeavesNothing
<1>4. HeldKept BY DEF HeldKept
<1>5. OwnershipInv' BY <1>1, <1>2, <1>3, <1>4, Quiet
<1>6. Steps BY QuietSteps DEF Owners, Exists, IsRow
<1>7. QED BY <1>5, <1>6

LEMMA AnswerTypes ==
    ASSUME OwnershipInv, NEW u \in Users, Answered(u)
    PROVE  request' \in [Users -> Request] /\ \A v \in Users : Named(v)'
<1>1. Idle \in Request /\ Idle.kind = "idle" BY DEF Request, Idle
<1>2. request' = [request EXCEPT ![u] = Idle] BY DEF Answered
<1>3. request \in [Users -> Request] BY DEF OwnershipInv, RowTypes
<1>4. QED BY <1>1, <1>2, <1>3 DEF Named, OwnershipInv, DeletionInv

(* A step that gives a role in a book nobody holds, and takes none. *)
LEMMA Joins ==
    ASSUME OwnershipInv, NEW c \in Books, NEW v \in Users, NEW as \in Roles,
           RowFree(c), Exists(c)', v \notin gone,
           role' = [role EXCEPT ![c][v] = as], role[c][v] = "none",
           \A b \in Books : org'[b] = org[b] \/ (b = c /\ ~Exists(c) /\ org'[c] \notin gone),
           org' \in [Books -> Orgs \cup {Unmade, NoBook}],
           request' \in [Users -> Request], \A w \in Users : Named(w)',
           asked' \in 0..MaxRequests,
           UNCHANGED <<recipe, pending, leaving, gone>>
    PROVE  OwnershipInv' /\ Steps
<1> USE DEF OwnershipInv, DeletionInv
<1>1. role' \in [Books -> [Users -> Roles]] BY DEF RowTypes
<1>2. \A b \in Books : \A w \in Users : role'[b][w] = IF b = c /\ w = v THEN as ELSE role[b][w]
  BY DEF RowTypes
<1>3. \A b \in Books : b # c => role'[b] = role[b] /\ Members(b)' = Members(b)
  BY DEF RowTypes, Members
<1>4. \A b \in Books : b # c => org'[b] = org[b] OBVIOUS
<1>5. \A b \in Books : Members(b)' # {} => Exists(b)' BY <1>3, <1>4 DEF RowTypes, Exists
<1>6. RowTypes' BY <1>1, <1>5 DEF RowTypes
<1>7. \A w \in Users : Listed(w)' BY DEF Listed, IsRow
<1>8. GoneLeavesNothing'
  <2>1. \A w \in gone : w \in Users /\ w # v BY DEF RowTypes
  <2>2. ASSUME NEW w \in gone, NEW b \in Books PROVE role'[b][w] = "none" /\ org'[b] # w
    <3>1. w \in Users /\ w # v /\ role[b][w] = "none" /\ org[b] # w BY <2>1 DEF GoneLeavesNothing
    <3>2. role'[b][w] = role[b][w] BY <1>2, <3>1
    <3>3. QED BY <3>1, <3>2
  <2>3. QED BY <2>2 DEF GoneLeavesNothing
<1>9. \A w \in Users : c \notin Held(w) BY DEF RowFree, LockedBy, Held
<1>10. \A w \in Users : Held(w) \subseteq Books
  <2>1. \A w \in Users : leaving[w] \in Leaving OBVIOUS
  <2>2. QED BY <2>1 DEF Leaving, Held
<1>11. HeldKept BY <1>3, <1>4, <1>9, <1>10 DEF HeldKept
<1>12. OwnershipInv' BY <1>6, <1>7, <1>8, <1>11, Quiet
<1>13. ASSUME NEW b \in Books PROVE Owners(b) # {} => Owners(b)' # {}
  <2>1. \A w \in Users : role[b][w] = "owner" => role'[b][w] = "owner" BY <1>2
  <2>2. QED BY <2>1 DEF Owners
<1>14. \A b \in Books : Exists(b) => Exists(b)' BY DEF Exists
<1>15. Steps BY <1>13, <1>14, QuietSteps DEF IsRow
<1>16. QED BY <1>12, <1>15

LEMMA Inserts ==
    ASSUME OwnershipInv, NEW u \in Users, NEW c \in Books, NEW v \in Users, NEW as \in Roles,
           InsertMember(c, v, as), Answered(u), UNCHANGED <<org, recipe, pending, leaving, gone, asked>>
    PROVE  OwnershipInv' /\ Steps
<1>1. request' \in [Users -> Request] /\ \A w \in Users : Named(w)' BY AnswerTypes
<1>2. asked' \in 0..MaxRequests /\ pending' \subseteq Invitation
      /\ org' \in [Books -> Orgs \cup {Unmade, NoBook}]
  BY DEF OwnershipInv, RowTypes
<1>3. CASE Exists(c) /\ v \notin gone /\ role[c][v] = "none"
  <2>1. role' = [role EXCEPT ![c][v] = as] BY <1>3 DEF InsertMember
  <2>2. RowFree(c) /\ Exists(c)' BY <1>3 DEF InsertMember, Exists
  <2>3. QED BY <1>1, <1>2, <1>3, <2>1, <2>2, Joins
<1>4. CASE ~(Exists(c) /\ v \notin gone /\ role[c][v] = "none")
  <2>1. role' = role BY <1>4 DEF InsertMember
  <2>2. QED BY <1>1, <1>2, <2>1, Answers
<1>5. QED BY <1>3, <1>4

LEMMA RequestTypes ==
    ASSUME OwnershipInv, NEW u \in Users, request[u].kind # "idle"
    PROVE  request[u].book \in Books /\ request[u].as \in Roles
<1>1. request[u] \in Request /\ Idle.kind = "idle" BY DEF OwnershipInv, RowTypes, Idle
<1>2. QED BY <1>1 DEF Request

LEMMA AddMemberKeeps ==
    ASSUME OwnershipInv, NEW u \in Users, AddMember(u) PROVE OwnershipInv' /\ Steps
<1>1. request[u].kind = "add" BY DEF AddMember
<1>2. request[u].book \in Books /\ request[u].as \in Roles BY <1>1, RequestTypes
<1>3. request[u].who \in Users BY <1>1 DEF OwnershipInv, DeletionInv, Named
<1>4. QED BY <1>2, <1>3, Inserts DEF AddMember

LEMMA JoinAcceptedKeeps ==
    ASSUME OwnershipInv, NEW u \in Users, JoinAccepted(u) PROVE OwnershipInv' /\ Steps
<1>1. request[u].kind = "join" BY DEF JoinAccepted
<1>2. request[u].book \in Books BY <1>1, RequestTypes
<1>3. "member" \in Roles BY DEF Roles
<1>4. QED BY <1>2, <1>3, Inserts DEF JoinAccepted

(* The last owner of a book is not removed from it. *)
LEMMA OwnerStays ==
    ASSUME NEW c \in Books, NEW v \in Users, MayRemove(c, v), Owners(c) # {}
    PROVE  \E w \in Owners(c) : w # v
<1> SUFFICES ASSUME \A w \in Owners(c) : w = v PROVE FALSE
  OBVIOUS
<1>1. Owners(c) = {v} /\ role[c][v] = "owner" BY DEF Owners
<1>2. Cardinality({v}) = 1 BY FS_Singleton
<1>3. ~(1 <= 1) BY <1>1, <1>2 DEF MayRemove
<1>4. QED BY <1>3

LEMMA RemoveMemberKeeps ==
    ASSUME OwnershipInv, NEW u \in Users, RemoveMember(u) PROVE OwnershipInv' /\ Steps
<1> USE DEF OwnershipInv, DeletionInv
<1>1. request[u].kind = "remove" /\ Answered(u) BY DEF RemoveMember
<1>2. request' \in [Users -> Request] /\ \A w \in Users : Named(w)' BY <1>1, AnswerTypes
<1>3. PICK c \in Books, v \in Users : c = request[u].book /\ v = request[u].who
  <2>1. request[u].book \in Books BY <1>1, RequestTypes
  <2>2. request[u].who \in Users BY <1>1 DEF Named
  <2>3. QED BY <2>1, <2>2
<1>4. UNCHANGED <<org, recipe, leaving, gone, asked>> /\ RowFree(c) BY <1>3 DEF RemoveMember
<1>5. CASE ~(role[c][v] # "none" /\ MayRemove(c, v))
  <2>1. UNCHANGED <<role, pending>> BY <1>3, <1>5 DEF RemoveMember
  <2>2. pending' \subseteq Invitation BY <2>1 DEF RowTypes
  <2>3. QED BY <1>2, <1>4, <2>1, <2>2, Answers
<1>6. CASE role[c][v] # "none" /\ MayRemove(c, v)
  <2>1. /\ role' = [role EXCEPT ![c][v] = "none"]
        /\ pending' \subseteq pending
    BY <1>3, <1>6 DEF RemoveMember
  <2>2. role' \in [Books -> [Users -> Roles]] BY <2>1 DEF RowTypes, Roles
  <2>3. \A b \in Books : \A w \in Users : role'[b][w] = IF b = c /\ w = v THEN "none" ELSE role[b][w]
    BY <2>1 DEF RowTypes
  <2>4. \A b \in Books : Members(b)' \subseteq Members(b) BY <2>3 DEF Members
  <2>5. \A b \in Books : Members(b)' # {} => Exists(b)' BY <2>4, <1>4 DEF RowTypes, Exists
  <2>6. RowTypes' BY <1>2, <1>4, <2>1, <2>2, <2>5 DEF RowTypes
  <2>7. \A w \in Users : Listed(w)' BY <1>4 DEF Listed, IsRow
  <2>8. GoneLeavesNothing'
    <3>1. ASSUME NEW w \in gone, NEW b \in Books PROVE role'[b][w] = "none" /\ org'[b] # w
      <4>1. w \in Users /\ role[b][w] = "none" /\ org[b] # w BY DEF GoneLeavesNothing, RowTypes
      <4>2. QED BY <4>1, <2>3, <1>4
    <3>2. \A w \in gone : \A i \in pending' : i.by # w BY <2>1 DEF GoneLeavesNothing
    <3>3. QED BY <3>1, <3>2, <1>4 DEF GoneLeavesNothing
  <2>9. \A w \in Users : c \notin Held(w) BY <1>4 DEF RowFree, LockedBy, Held
  <2>10. \A w \in Users : Held(w) \subseteq Books
    <3>1. \A w \in Users : leaving[w] \in Leaving OBVIOUS
    <3>2. QED BY <3>1 DEF Leaving, Held
  <2>11. \A b \in Books : b # c => role'[b] = role[b] BY <2>1 DEF RowTypes
  <2>12. HeldKept BY <2>9, <2>10, <2>11, <1>4 DEF HeldKept
  <2>13. OwnershipInv' BY <1>2, <1>4, <2>6, <2>7, <2>8, <2>12, Quiet
  <2>14. ASSUME NEW b \in Books, Owners(b) # {} PROVE Owners(b)' # {}
    <3>1. CASE b # c
      <4>1. PICK w \in Users : role[b][w] = "owner" BY <2>14 DEF Owners
      <4>2. role'[b][w] = "owner" BY <4>1, <3>1, <2>3
      <4>3. QED BY <4>2 DEF Owners
    <3>2. CASE b = c
      <4>1. PICK w \in Owners(c) : w # v BY <1>6, <2>14, <3>2, OwnerStays
      <4>2. w \in Users /\ role[c][w] = "owner" BY DEF Owners
      <4>3. role'[b][w] = "owner" BY <4>1, <4>2, <3>2, <2>3
      <4>4. QED BY <4>2, <4>3 DEF Owners
    <3>3. QED BY <3>1, <3>2
  <2>15. Steps BY <2>14, <1>4, QuietSteps DEF Exists, IsRow
  <2>16. QED BY <2>13, <2>15
<1>7. QED BY <1>5, <1>6

LEMMA InviteKeeps ==
    ASSUME OwnershipInv, NEW u \in Users, Invite(u) PROVE OwnershipInv' /\ Steps
<1>1. request[u].kind = "invite" /\ Answered(u) BY DEF Invite
<1>2. request' \in [Users -> Request] /\ \A w \in Users : Named(w)' BY <1>1, AnswerTypes
<1>3. PICK c \in Books, v \in Users : c = request[u].book /\ v = request[u].who
  <2>1. request[u].book \in Books BY <1>1, RequestTypes
  <2>2. request[u].who \in Users BY <1>1 DEF OwnershipInv, DeletionInv, Named
  <2>3. QED BY <2>1, <2>2
<1>4. PICK i \in Invitation : i = [book |-> c, to |-> v, by |-> u] BY DEF Invitation
<1>5. pending' \subseteq pending \cup {i} /\ (i \in pending' /\ i \notin pending => u \notin gone)
  BY <1>3, <1>4 DEF Invite
<1>6. pending' \subseteq Invitation BY <1>5 DEF OwnershipInv, RowTypes
<1>7. \A j \in pending' : j \in pending \/ j.by \notin gone BY <1>4, <1>5
<1>8. QED BY <1>2, <1>6, <1>7, Answers DEF Invite

LEMMA CloseInvitationKeeps ==
    ASSUME OwnershipInv, NEW u \in Users, NEW i \in pending, CloseInvitation(u, i)
    PROVE  OwnershipInv' /\ Steps
<1>1. request' \in [Users -> Request] /\ (\A v \in Users : Named(v)') /\ pending' \subseteq pending
      /\ pending' \subseteq Invitation
  BY DEF CloseInvitation, OwnershipInv, DeletionInv, RowTypes, Named
<1>2. QED BY <1>1, Answers DEF CloseInvitation

LEMMA MarkAcceptedKeeps ==
    ASSUME OwnershipInv, NEW u \in Users, MarkAccepted(u) PROVE OwnershipInv' /\ Steps
<1> USE DEF OwnershipInv, DeletionInv
<1>1. request[u].kind = "accept" BY DEF MarkAccepted
<1>2. request[u] \in Request /\ Idle.kind = "idle" BY DEF RowTypes, Idle
<1>3. PICK q \in Request : q = [request[u] EXCEPT !.kind = "join"] BY <1>1, <1>2 DEF Request, Kinds
<1>4. request' = [request EXCEPT ![u] = q] BY <1>3 DEF MarkAccepted
<1>5. q.who \in Users
  <2>1. request[u].who \in Users BY <1>1 DEF Named
  <2>2. request[u] \in [kind : Kinds, book : Books, who : Users \cup {Nobody}, as : Roles]
    BY <1>1, <1>2 DEF Request
  <2>3. QED BY <1>3, <2>1, <2>2
<1>6. request' \in [Users -> Request] BY <1>4 DEF RowTypes
<1>7. \A v \in Users : Named(v)' BY <1>4, <1>5 DEF Named, RowTypes
<1>8. pending' \subseteq pending /\ pending' \subseteq Invitation BY DEF MarkAccepted, RowTypes
<1>9. QED BY <1>6, <1>7, <1>8, Answers DEF MarkAccepted

LEMMA CreateBookKeeps ==
    ASSUME OwnershipInv, NEW u \in Users, NEW c \in Books, CreateBook(u, c)
    PROVE  OwnershipInv' /\ Steps
<1> USE DEF OwnershipInv, DeletionInv
<1>1. /\ u \notin gone /\ org[c] = Unmade
      /\ org' = [org EXCEPT ![c] = u]
      /\ role' = [role EXCEPT ![c][u] = "owner"]
      /\ UNCHANGED <<recipe, pending, request, leaving, gone>>
  BY DEF CreateBook
<1>2. ~Exists(c) BY <1>1, Names DEF Exists
<1>3. role[c][u] = "none" BY <1>2 DEF RowTypes, Members
<1>4. RowFree(c) BY <1>2 DEF RowFree, LockedBy, HeldExist, Held
<1>5. Exists(c)' BY <1>1, Names DEF Exists, RowTypes
<1>6. \A b \in Books : org'[b] = org[b] \/ (b = c /\ ~Exists(c) /\ org'[c] \notin gone)
  BY <1>1, <1>2 DEF RowTypes
<1>7. org' \in [Books -> Orgs \cup {Unmade, NoBook}] BY <1>1, Names DEF RowTypes
<1>8. request' \in [Users -> Request] /\ \A w \in Users : Named(w)' BY <1>1 DEF Named, RowTypes
<1>9. asked' \in 0..MaxRequests BY OwnershipAssumption DEF CreateBook, RowTypes
<1>10. "owner" \in Roles BY DEF Roles
<1>11. QED BY <1>1, <1>3, <1>4, <1>5, <1>6, <1>7, <1>8, <1>9, <1>10, Joins

(* A step that writes recipes only, and takes none. *)
LEMMA Writing ==
    ASSUME OwnershipInv, request' \in [Users -> Request], \A v \in Users : Named(v)',
           recipe' \in [Recipes -> RecipeRow \cup {Blank(Unmade), Blank(NoBook)}],
           \A t \in Recipes : IsRow(t) => IsRow(t)',
           \A v \in Users : Listed(v)',
           UNCHANGED <<org, role, pending, leaving, gone, asked>>
    PROVE  OwnershipInv' /\ Steps
<1> USE DEF OwnershipInv, DeletionInv
<1>1. RowTypes' BY DEF RowTypes, Members, Exists
<1>2. GoneLeavesNothing' BY DEF GoneLeavesNothing
<1>3. HeldKept BY DEF HeldKept
<1>4. OwnershipInv' BY <1>1, <1>2, <1>3, Quiet
<1>5. Steps BY QuietSteps DEF Owners, Exists
<1>6. QED BY <1>4, <1>5

LEMMA FileKeeps ==
    ASSUME OwnershipInv, NEW u \in Users, NEW t \in Recipes, File(u, t)
    PROVE  OwnershipInv' /\ Steps
<1> USE DEF OwnershipInv, DeletionInv
<1>1. request[u].kind = "file" /\ Answered(u) /\ recipe[t].book = Unmade BY DEF File
<1>2. request' \in [Users -> Request] /\ \A w \in Users : Named(w)' BY <1>1, AnswerTypes
<1>3. request[u] \in Request /\ Idle.kind = "idle" BY DEF RowTypes, Idle
<1>4. PICK row \in RecipeRow : row = [author |-> u, about |-> request[u].who, book |-> request[u].book]
  BY <1>1, <1>3 DEF Request, RecipeRow
<1>5. recipe' = [recipe EXCEPT ![t] = row] BY <1>4 DEF File
<1>6. recipe' \in [Recipes -> RecipeRow \cup {Blank(Unmade), Blank(NoBook)}]
  BY <1>5 DEF RowTypes
<1>7. \A s \in Recipes : s # t => recipe'[s] = recipe[s] BY <1>5 DEF RowTypes
<1>8. ~IsRow(t) BY <1>1, Names DEF IsRow
<1>9. \A s \in Recipes : IsRow(s) => IsRow(s)' BY <1>7, <1>8 DEF IsRow
<1>10. ASSUME NEW v \in Users PROVE Listed(v)'
  <2>1. t \notin leaving[v].list BY <1>1 DEF Listed
  <2>2. leaving[v].list \subseteq Recipes
    <3>1. leaving[v] \in Leaving OBVIOUS
    <3>2. QED BY <3>1 DEF Leaving
  <2>3. UNCHANGED <<leaving, gone>> BY DEF File
  <2>4. QED BY <2>1, <2>2, <2>3, <1>7 DEF Listed, IsRow
<1>11. QED BY <1>2, <1>6, <1>9, <1>10, Writing DEF File

LEMMA ResolveKeeps ==
    ASSUME OwnershipInv, NEW u \in Users, NEW t \in Recipes, NEW verified \in BOOLEAN,
           Resolve(u, t, verified)
    PROVE  OwnershipInv' /\ Steps
<1> USE DEF OwnershipInv, DeletionInv
<1>1. request' \in [Users -> Request] /\ \A w \in Users : Named(w)'
  BY DEF Resolve, RowTypes, Named
<1>2. IsRow(t) BY DEF Resolve
<1>3. recipe[t] \in RecipeRow
  <2>1. recipe[t] \in RecipeRow \cup {Blank(Unmade), Blank(NoBook)} BY DEF RowTypes
  <2>2. Blank(Unmade).book \notin Books /\ Blank(NoBook).book \notin Books BY Names DEF Blank
  <2>3. QED BY <1>2, <2>1, <2>2 DEF IsRow
<1>4. PICK a \in Users : a = (IF verified THEN u ELSE recipe[t].author) BY <1>3 DEF RecipeRow
<1>5. PICK row \in RecipeRow : row = [recipe[t] EXCEPT !.about = Nobody, !.author = a]
  BY <1>3 DEF RecipeRow
<1>6. recipe' = [recipe EXCEPT ![t] = row] BY <1>4, <1>5 DEF Resolve, RowTypes
<1>7. recipe' \in [Recipes -> RecipeRow \cup {Blank(Unmade), Blank(NoBook)}]
  BY <1>6 DEF RowTypes
<1>8. row.book = recipe[t].book BY <1>3, <1>5 DEF RecipeRow
<1>9. \A s \in Recipes : recipe'[s].book = recipe[s].book BY <1>6, <1>8 DEF RowTypes
<1>10. ASSUME NEW v \in Users PROVE Listed(v)'
  <2>1. leaving[v].list \subseteq Recipes
    <3>1. leaving[v] \in Leaving OBVIOUS
    <3>2. QED BY <3>1 DEF Leaving
  <2>2. \A s \in Recipes : s # t => recipe'[s] = recipe[s] BY <1>6 DEF RowTypes
  <2>3. ~VerifyListed => t \notin leaving[v].list BY DEF Resolve
  <2>4. UNCHANGED <<leaving, gone>> BY DEF Resolve
  <2>5. QED BY <2>1, <2>2, <2>3, <2>4, <1>9 DEF Listed, IsRow
<1>11. \A s \in Recipes : IsRow(s) => IsRow(s)' BY <1>9 DEF IsRow
<1>12. QED BY <1>1, <1>7, <1>10, <1>11, Writing DEF Resolve

LEMMA RequestsKeep ==
    ASSUME OwnershipInv, NEW u \in Users, Requests(u) PROVE OwnershipInv' /\ Steps
<1>1. ASSUME NEW b \in Books, CreateBook(u, b) PROVE OwnershipInv' /\ Steps
  BY <1>1, CreateBookKeeps
<1>2. ASSUME NEW b \in Books, NEW v \in Users, NEW as \in {"member", "admin"}, AskAdd(u, b, v, as)
      PROVE  OwnershipInv' /\ Steps
  <2>1. PICK r \in Request : r = [kind |-> "add", book |-> b, who |-> v, as |-> as]
    BY DEF Request, Kinds, Roles
  <2>2. QED BY <1>2, <2>1, Asks DEF AskAdd
<1>3. ASSUME NEW b \in Books, NEW v \in Users, AskRemove(u, b, v) PROVE OwnershipInv' /\ Steps
  <2>1. PICK r \in Request : r = [kind |-> "remove", book |-> b, who |-> v, as |-> "none"]
    BY DEF Request, Kinds, Roles
  <2>2. QED BY <1>3, <2>1, Asks DEF AskRemove
<1>4. ASSUME NEW b \in Books, NEW v \in Users, AskInvite(u, b, v) PROVE OwnershipInv' /\ Steps
  <2>1. PICK r \in Request : r = [kind |-> "invite", book |-> b, who |-> v, as |-> "none"]
    BY DEF Request, Kinds, Roles
  <2>2. QED BY <1>4, <2>1, Asks DEF AskInvite
<1>5. ASSUME NEW b \in Books, NEW a \in Users \cup {Nobody}, AskFile(u, b, a)
      PROVE  OwnershipInv' /\ Steps
  <2>1. PICK r \in Request : r = [kind |-> "file", book |-> b, who |-> a, as |-> "none"]
    BY DEF Request, Kinds, Roles
  <2>2. QED BY <1>5, <2>1, Asks DEF AskFile
<1>6. ASSUME NEW i \in pending, CloseInvitation(u, i) PROVE OwnershipInv' /\ Steps
  BY <1>6, CloseInvitationKeeps
<1>7. ASSUME NEW i \in pending, AskAccept(u, i) PROVE OwnershipInv' /\ Steps
  <2>1. i \in Invitation BY DEF OwnershipInv, RowTypes
  <2>2. PICK r \in Request : r = [kind |-> "accept", book |-> i.book, who |-> i.by, as |-> "member"]
    BY <2>1 DEF Request, Kinds, Roles, Invitation
  <2>3. r.who \in Users BY <2>1, <2>2 DEF Invitation
  <2>4. QED BY <1>7, <2>2, <2>3, Asks DEF AskAccept
<1>8. ASSUME NEW t \in Recipes, NEW verified \in BOOLEAN, Resolve(u, t, verified)
      PROVE  OwnershipInv' /\ Steps
  BY <1>8, ResolveKeeps
<1>9. QED BY <1>1, <1>2, <1>3, <1>4, <1>5, <1>6, <1>7, <1>8 DEF Requests

LEMMA WritesKeep ==
    ASSUME OwnershipInv, NEW u \in Users, Writes(u) PROVE OwnershipInv' /\ Steps
BY AddMemberKeeps, RemoveMemberKeeps, InviteKeeps, MarkAcceptedKeeps, JoinAcceptedKeeps, FileKeeps
   DEF Writes

---------------------------------------------------------------------------
(* Steps of a deletion that write nothing but what it has found.           *)

LEMMA Finds ==
    ASSUME OwnershipInv, NEW u \in Users, NEW d \in Leaving, leaving' = [leaving EXCEPT ![u] = d],
           InPhase(u)', Listed(u)', PlanHolds(u)',
           \A b \in Held(u)' : b \in Held(u) \/ (Exists(b) /\ Unlocked(b, u)),
           UNCHANGED <<org, role, recipe, pending, request, gone, asked>>
    PROVE  OwnershipInv' /\ Steps
<1> USE DEF OwnershipInv, DeletionInv
<1>1. leaving' \in [Users -> Leaving] OBVIOUS
<1>2. \A v \in Users : v # u => leaving'[v] = leaving[v] OBVIOUS
<1>3. RowTypes' BY DEF RowTypes, Members, Exists
<1>4. GoneLeavesNothing' BY DEF GoneLeavesNothing
<1>5. \A v \in Users : Named(v)' BY DEF Named
<1>6. ASSUME NEW v \in Users, v # u PROVE InPhase(v)' /\ Listed(v)' /\ PlanHolds(v)'
  <2>1. leaving'[v] = leaving[v] BY <1>2, <1>6
  <2>2. InPhase(v)' BY <2>1 DEF InPhase, Planned
  <2>3. Listed(v)' BY <2>1 DEF Listed, IsRow
  <2>4. PlanHolds(v)'
    <3> SUFFICES ASSUME Planned(v) PROVE PlanHolds(v)'
      BY <2>1 DEF PlanHolds, Planned
    <3>1. v \notin gone BY DEF InPhase, Planned
    <3>2. leaving[v].empty \subseteq Books /\ leaving[v].locked \subseteq Books
      <4>1. leaving[v] \in Leaving OBVIOUS
      <4>2. QED BY <4>1 DEF Leaving
    <3>3. /\ \A b \in DOMAIN leaving[v].heirs : leaving[v].heirs[b] \notin gone'
          /\ \A b \in DOMAIN leaving[v].keepers : leaving[v].keepers[b] \notin gone'
      BY DEF PlanHolds
    <3>4. \A b \in Books : Members(b)' = Members(b) BY DEF Members
    <3>5. Held(v) \subseteq Books BY <3>2 DEF Held
    <3>6. QED BY <2>1, <3>1, <3>2, <3>3, <3>4, <3>5, PlanKept
  <2>5. QED BY <2>2, <2>3, <2>4
<1>7. \A v \in Users : InPhase(v)' /\ Listed(v)' /\ PlanHolds(v)' BY <1>6
<1>8. \A v \in Users : v # u => Held(v)' = Held(v) BY <1>2 DEF Held
<1>9. ASSUME NEW v \in Users, v # u PROVE Held(u)' \cap Held(v) = {}
  <2>1. \A b \in Held(v) : b \notin Held(u) BY <1>9 DEF HeldByOne
  <2>2. \A b \in Held(v) : ~Unlocked(b, u) BY <1>9 DEF Unlocked, LockedBy, Held
  <2>3. QED BY <2>1, <2>2
<1>10. HeldByOne' BY <1>8, <1>9 DEF HeldByOne
<1>11. HeldExist' BY <1>8 DEF HeldExist, Exists
<1>12. OwnershipInv' BY <1>1, <1>3, <1>4, <1>5, <1>7, <1>10, <1>11
<1>13. Steps BY QuietSteps DEF Owners, Exists, IsRow
<1>14. QED BY <1>12, <1>13

LEMMA AskDeleteKeeps ==
    ASSUME OwnershipInv, NEW u \in Users, AskDelete(u) PROVE OwnershipInv' /\ Steps
<1> USE DEF OwnershipInv, DeletionInv
<1>1. leaving[u] \in Leaving /\ leaving[u].phase = "no" /\ u \in Departing \ gone BY DEF AskDelete
<1>2. ASSUME NEW b \in SharedBooksOwnedBy(u) PROVE <<b, org[b]>> \in Books \X Orgs
  BY DEF SharedBooksOwnedBy, Exists
<1>3. PICK s \in SUBSET (Books \X Orgs) : s = {<<b, org[b]>> : b \in SharedBooksOwnedBy(u)}
  BY <1>2
<1>4. PICK d \in Leaving : d = [leaving[u] EXCEPT !.phase = "hand", !.shared = s]
  BY <1>1 DEF Leaving, Phases
<1>5. leaving' = [leaving EXCEPT ![u] = d] BY <1>3, <1>4 DEF AskDelete
<1>6. leaving'[u] = d BY <1>5
<1>7. /\ d.phase = "hand" /\ d.list = leaving[u].list /\ d.locked = leaving[u].locked
      /\ d.heirs = leaving[u].heirs /\ d.keepers = leaving[u].keepers /\ d.empty = leaving[u].empty
  BY <1>1, <1>4 DEF Leaving
<1>8. UNCHANGED <<org, role, recipe, pending, request, gone, asked>> BY DEF AskDelete
<1>9. InPhase(u)' BY <1>1, <1>6, <1>7, <1>8 DEF InPhase, Planned
<1>10. Listed(u)' BY <1>6, <1>7, <1>8 DEF Listed, IsRow
<1>11. PlanHolds(u)' BY <1>6, <1>7 DEF PlanHolds, Planned
<1>12. Held(u)' = Held(u) BY <1>6, <1>7 DEF Held
<1>13. QED BY <1>5, <1>8, <1>9, <1>10, <1>11, <1>12, Finds

LEMMA StayingType == Staying \in Leaving
<1>1. << >> \in HandedTo
  <2>1. << >> \in [{} -> Users] OBVIOUS
  <2>2. QED BY <2>1 DEF HandedTo
<1>2. QED BY <1>1 DEF Staying, Leaving, Phases

LEMMA CollectRecipesKeeps ==
    ASSUME OwnershipInv, NEW u \in Users, CollectRecipes(u) PROVE OwnershipInv' /\ Steps
<1> USE DEF OwnershipInv, DeletionInv
<1>1. leaving[u] \in Leaving /\ leaving[u].phase = "collect" BY DEF CollectRecipes
<1>2. UserRecipes(u) \subseteq Recipes BY DEF UserRecipes, InSoleMemberBooks
<1>3. PICK d \in Leaving : d = [leaving[u] EXCEPT !.phase = "recipes", !.list = UserRecipes(u)]
  BY <1>1, <1>2 DEF Leaving, Phases
<1>4. leaving' = [leaving EXCEPT ![u] = d] BY <1>3 DEF CollectRecipes
<1>5. leaving'[u] = d BY <1>4
<1>6. /\ d.phase = "recipes" /\ d.list = UserRecipes(u) /\ d.locked = leaving[u].locked
      /\ d.heirs = leaving[u].heirs /\ d.keepers = leaving[u].keepers /\ d.empty = leaving[u].empty
  BY <1>1, <1>3 DEF Leaving
<1>7. UNCHANGED <<org, role, recipe, pending, request, gone, asked>> BY DEF CollectRecipes
<1>8. InPhase(u)' BY <1>1, <1>5, <1>6, <1>7 DEF InPhase, Planned
<1>9. \A t \in UserRecipes(u) : /\ IsRow(t)
                                /\ recipe[t].author \in gone \cup {u} \/ recipe[t].about = u
  BY DEF UserRecipes, InSoleMemberBooks, Awaits
<1>10. \A t \in Recipes : IsRow(t) => recipe[t].book # Unmade BY Names DEF IsRow
<1>11. Listed(u)' BY <1>2, <1>5, <1>6, <1>7, <1>9, <1>10 DEF Listed, IsRow
<1>12. PlanHolds(u)' BY <1>5, <1>6 DEF PlanHolds, Planned
<1>13. Held(u)' = Held(u) BY <1>5, <1>6 DEF Held
<1>14. QED BY <1>4, <1>7, <1>8, <1>11, <1>12, <1>13, Finds

LEMMA LockBooksKeeps ==
    ASSUME OwnershipInv, NEW u \in Users, LockBooks(u) PROVE OwnershipInv' /\ Steps
<1> USE DEF OwnershipInv, DeletionInv
<1>1. leaving[u] \in Leaving /\ leaving[u].phase = "recipes" BY DEF LockBooks
<1>2. PICK m \in SUBSET Books : m = {b \in Books : Exists(b) /\ (org[b] = u \/ role[b][u] # "none")}
  OBVIOUS
<1>3. PICK d \in Leaving : d = [leaving[u] EXCEPT !.phase = "locked", !.locked = m]
  BY <1>1 DEF Leaving, Phases
<1>4. leaving' = [leaving EXCEPT ![u] = d] BY <1>2, <1>3 DEF LockBooks
<1>5. leaving'[u] = d BY <1>4
<1>6. /\ d.phase = "locked" /\ d.list = leaving[u].list /\ d.locked = m
      /\ d.heirs = leaving[u].heirs /\ d.keepers = leaving[u].keepers /\ d.empty = leaving[u].empty
  BY <1>1, <1>3 DEF Leaving
<1>7. UNCHANGED <<org, role, recipe, pending, request, gone, asked>> BY DEF LockBooks
<1>8. InPhase(u)' BY <1>1, <1>5, <1>6, <1>7 DEF InPhase, Planned
<1>9. Listed(u)' BY <1>5, <1>6, <1>7 DEF Listed, IsRow
<1>10. PlanHolds(u)' BY <1>5, <1>6 DEF PlanHolds, Planned
<1>11. leaving[u].empty = {} BY <1>1 DEF InPhase
<1>12. Held(u)' = m BY <1>5, <1>6, <1>11 DEF Held
<1>13. \A b \in m : Exists(b) /\ Unlocked(b, u) BY <1>2 DEF LockBooks, Unlocked
<1>14. QED BY <1>4, <1>7, <1>8, <1>9, <1>10, <1>12, <1>13, Finds

(* A hand-over gives a book to a member, or to an author, who is there. *)
LEMMA HandedOver ==
    ASSUME OwnershipInv, NEW u \in Users, NEW S \in SUBSET Books, NEW out \in HandOvers(u, S)
    PROVE  /\ out.heirs \in HandedTo /\ out.keepers \in HandedTo
           /\ DOMAIN out.heirs = {b \in S : Others(b, u) # {}}
           /\ DOMAIN out.keepers = MemberlessBooks(u)
           /\ \A b \in DOMAIN out.heirs :
                /\ out.heirs[b] \in Users \ (gone \cup {u})
                /\ role[b][out.heirs[b]] # "none"
           /\ \A b \in DOMAIN out.keepers : out.keepers[b] \in Users \ (gone \cup {u})
<1> DEFINE shared == {b \in S : Others(b, u) # {}}
<1>1. PICK h \in [shared -> Users], k \in [MemberlessBooks(u) -> Users] :
        /\ out = [heirs |-> h, keepers |-> k]
        /\ \A b \in shared : h[b] \in Successors(b, u)
        /\ \A b \in MemberlessBooks(u) : k[b] \in AuthorsLeftIn(b, u)
  <2> DEFINE A == {f \in [shared -> Users] : \A b \in shared : f[b] \in Successors(b, u)}
             B == {f \in [MemberlessBooks(u) -> Users] :
                      \A b \in MemberlessBooks(u) : f[b] \in AuthorsLeftIn(b, u)}
  <2>0. HandOvers(u, S) = {[heirs |-> h, keepers |-> k] : h \in A, k \in B} BY DEF HandOvers
  <2>1. PICK h \in A, k \in B : out = [heirs |-> h, keepers |-> k]
    <3> HIDE DEF A, B
    <3>1. QED BY <2>0
  <2>2. QED BY <2>1
<1>2. out.heirs = h /\ out.keepers = k BY <1>1
<1>3. shared \subseteq Books /\ MemberlessBooks(u) \subseteq Books BY DEF MemberlessBooks
<1>4. h \in HandedTo /\ k \in HandedTo BY <1>3 DEF HandedTo
<1>5. \A b \in Books : Successors(b, u) \subseteq Others(b, u) BY DEF Successors
<1>6. ASSUME NEW b \in Books, NEW v \in Others(b, u)
      PROVE  v \in Users \ (gone \cup {u}) /\ role[b][v] # "none"
  BY DEF Others, Members, OwnershipInv, DeletionInv, GoneLeavesNothing
<1>7. \A b \in Books : AuthorsLeftIn(b, u) \cap (gone \cup {u}) = {} BY DEF AuthorsLeftIn
<1>8. \A b \in shared : h[b] \in Users \ (gone \cup {u}) /\ role[b][h[b]] # "none"
  BY <1>1, <1>3, <1>5, <1>6
<1>9. \A b \in MemberlessBooks(u) : k[b] \in Users \ (gone \cup {u}) BY <1>1, <1>3, <1>7
<1>10. QED BY <1>2, <1>4, <1>8, <1>9

LEMMA PlanTeardownKeeps ==
    ASSUME OwnershipInv, NEW u \in Users, PlanTeardown(u) PROVE OwnershipInv' /\ Steps
<1> USE DEF OwnershipInv, DeletionInv
<1>1. leaving[u] \in Leaving /\ leaving[u].phase = "locked" BY DEF PlanTeardown
<1>2. PICK S \in SUBSET Books : S = SharedBooksOwnedBy(u) BY DEF SharedBooksOwnedBy
<1>3. PICK W \in SUBSET Books : W = S \cup MemberlessBooks(u) BY DEF MemberlessBooks
<1>4. UserRecipes(u) \subseteq Recipes BY DEF UserRecipes, InSoleMemberBooks
<1>5. PICK out \in HandOvers(u, S) :
        leaving' = [leaving EXCEPT ![u].phase = "planned",
                                   ![u].heirs = out.heirs,
                                   ![u].keepers = out.keepers,
                                   ![u].list = UserRecipes(u),
                                   ![u].locked = @ \cup W]
  BY <1>2, <1>3 DEF PlanTeardown
<1>6. /\ out.heirs \in HandedTo /\ out.keepers \in HandedTo
      /\ DOMAIN out.heirs = {b \in S : Others(b, u) # {}}
      /\ DOMAIN out.keepers = MemberlessBooks(u)
      /\ \A b \in DOMAIN out.heirs : out.heirs[b] \in Users \ (gone \cup {u})
      /\ \A b \in DOMAIN out.keepers : out.keepers[b] \in Users \ (gone \cup {u})
  BY HandedOver
<1>7. PICK d \in Leaving : d = [leaving[u] EXCEPT !.phase = "planned", !.heirs = out.heirs,
                                    !.keepers = out.keepers, !.list = UserRecipes(u),
                                    !.locked = @ \cup W]
  BY <1>1, <1>4, <1>6 DEF Leaving, Phases
<1>8. leaving' = [leaving EXCEPT ![u] = d] BY <1>5, <1>7
<1>9. leaving'[u] = d BY <1>8
<1>10. /\ d.phase = "planned" /\ d.list = UserRecipes(u) /\ d.locked = leaving[u].locked \cup W
       /\ d.heirs = out.heirs /\ d.keepers = out.keepers /\ d.empty = leaving[u].empty
  BY <1>1, <1>7 DEF Leaving
<1>11. UNCHANGED <<org, role, recipe, pending, request, gone, asked>> BY DEF PlanTeardown
<1>12. InPhase(u)' BY <1>1, <1>9, <1>10, <1>11 DEF InPhase, Planned
<1>13. \A t \in UserRecipes(u) : /\ IsRow(t)
                                 /\ recipe[t].author \in gone \cup {u} \/ recipe[t].about = u
  BY DEF UserRecipes, InSoleMemberBooks, Awaits
<1>14. \A t \in Recipes : IsRow(t) => recipe[t].book # Unmade BY Names DEF IsRow
<1>15. Listed(u)' BY <1>4, <1>9, <1>10, <1>11, <1>13, <1>14 DEF Listed, IsRow
<1>16. leaving[u].empty = {} /\ leaving[u].locked \subseteq Books BY <1>1 DEF InPhase, Leaving
<1>17. \A b \in W : Exists(b) BY <1>2, <1>3, Names DEF SharedBooksOwnedBy, MemberlessBooks, Exists
<1>18. \A b \in leaving[u].locked : Exists(b) BY DEF HeldExist, Held
<1>19. ASSUME NEW b \in d.locked, b \notin DOMAIN out.heirs, org[b] = u \/ role[b][u] = "owner"
       PROVE  Others(b, u) = {}
  <2>1. b \in Books /\ Exists(b) BY <1>10, <1>16, <1>17, <1>18
  <2>2. QED BY <2>1, <1>2, <1>6, <1>19 DEF SharedBooksOwnedBy
<1>20. \A b \in MemberlessBooks(u) : org[b] = u /\ Others(b, u) = {} BY DEF MemberlessBooks
<1>21. /\ DOMAIN d.heirs \cup DOMAIN d.keepers \subseteq d.locked
       /\ DOMAIN d.heirs \cap DOMAIN d.keepers = {}
  BY <1>3, <1>6, <1>10, <1>20
<1>22. \A b \in Books : Others(b, u)' = Others(b, u) BY <1>11 DEF Others, Members
<1>23. PlanHolds(u)'
  <2>1. /\ leaving[u]'.heirs = out.heirs /\ leaving[u]'.keepers = out.keepers
        /\ leaving[u]'.locked = d.locked /\ leaving[u]'.empty = {}
    BY <1>9, <1>10, <1>16
  <2>2. d.locked \subseteq Books BY <1>10, <1>16
  <2>3. QED BY <2>1, <2>2, <1>6, <1>10, <1>11, <1>19, <1>20, <1>21, <1>22 DEF PlanHolds
<1>24. \A b \in W : Unlocked(b, u) BY <1>2, <1>3 DEF PlanTeardown
<1>25. \A b \in Held(u)' : b \in Held(u) \/ b \in W BY <1>9, <1>10 DEF Held
<1>26. QED BY <1>8, <1>11, <1>12, <1>15, <1>17, <1>23, <1>24, <1>25, Finds

(* A book that stays in the organization was in it. *)
LEMMA StillOwnedWas ==
    ASSUME OwnershipInv, NEW u \in Users, Planned(u), NEW b \in StillOwned(u)
    PROVE  b \in Books /\ org[b] = u /\ Exists(b)
<1>1. b \in Books /\ OrgAfter(u, leaving[u].heirs, leaving[u].keepers)[b] = u BY DEF StillOwned
<1>2. /\ \A c \in DOMAIN leaving[u].heirs : leaving[u].heirs[c] # u
      /\ \A c \in DOMAIN leaving[u].keepers : leaving[u].keepers[c] # u
  BY DEF OwnershipInv, DeletionInv, PlanHolds
<1>3. org[b] = u BY <1>1, <1>2 DEF OrgAfter
<1>4. QED BY <1>1, <1>3, Names DEF Exists

LEMMA FindEmptyBooksKeeps ==
    ASSUME OwnershipInv, NEW u \in Users, FindEmptyBooks(u) PROVE OwnershipInv' /\ Steps
<1> USE DEF OwnershipInv, DeletionInv
<1>1. leaving[u] \in Leaving /\ leaving[u].phase = "planned" BY DEF FindEmptyBooks
<1>2. PICK e \in SUBSET Books : e = EmptyBooks(u) BY DEF EmptyBooks, StillOwned
<1>3. PICK d \in Leaving : d = [leaving[u] EXCEPT !.phase = "decided", !.empty = e]
  BY <1>1 DEF Leaving, Phases
<1>4. leaving' = [leaving EXCEPT ![u] = d] BY <1>2, <1>3 DEF FindEmptyBooks
<1>5. leaving'[u] = d BY <1>4
<1>6. /\ d.phase = "decided" /\ d.list = leaving[u].list /\ d.locked = leaving[u].locked
      /\ d.heirs = leaving[u].heirs /\ d.keepers = leaving[u].keepers /\ d.empty = e
  BY <1>1, <1>3 DEF Leaving
<1>7. UNCHANGED <<org, role, recipe, pending, request, gone, asked>> BY DEF FindEmptyBooks
<1>8. Planned(u) BY <1>1 DEF Planned
<1>9. InPhase(u)' BY <1>1, <1>5, <1>6, <1>7 DEF InPhase, Planned
<1>10. Listed(u)' BY <1>5, <1>6, <1>7 DEF Listed, IsRow
<1>11. e \subseteq StillOwned(u) BY <1>2 DEF EmptyBooks
<1>12. StillOwned(u)' = StillOwned(u) BY <1>5, <1>6, <1>7 DEF StillOwned, OrgAfter
<1>13. \A b \in Books : Others(b, u)' = Others(b, u) BY <1>7 DEF Others, Members
<1>14. leaving[u].locked \subseteq Books BY <1>1 DEF Leaving
<1>15. PlanHolds(u)' BY <1>5, <1>6, <1>7, <1>8, <1>11, <1>12, <1>13, <1>14 DEF PlanHolds
<1>16. \A b \in e : Exists(b) /\ Unlocked(b, u) BY <1>2, <1>8, <1>11, StillOwnedWas DEF FindEmptyBooks
<1>17. \A b \in Held(u)' : b \in Held(u) \/ b \in e BY <1>5, <1>6 DEF Held
<1>18. QED BY <1>4, <1>7, <1>9, <1>10, <1>15, <1>16, <1>17, Finds

LEMMA RollBackKeeps ==
    ASSUME OwnershipInv, NEW u \in Users, RollBack(u) PROVE OwnershipInv' /\ Steps
<1> USE DEF OwnershipInv, DeletionInv
<1>1. leaving' = [leaving EXCEPT ![u] = Staying] BY DEF RollBack
<1>2. leaving'[u] = Staying BY <1>1
<1>3. UNCHANGED <<org, role, recipe, pending, request, gone, asked>> BY DEF RollBack
<1>4. InPhase(u)' BY <1>2 DEF InPhase, Planned, Staying
<1>5. Listed(u)' BY <1>2 DEF Listed, Staying
<1>6. PlanHolds(u)' BY <1>2 DEF PlanHolds, Planned, Staying
<1>7. Held(u)' = {} BY <1>2 DEF Held, Staying
<1>8. QED BY <1>1, <1>3, <1>4, <1>5, <1>6, <1>7, StayingType, Finds

---------------------------------------------------------------------------
(* Steps of a deletion that change books, recipes and accounts.            *)

(* The deletion of another account is not disturbed. *)
LEMMA OtherDeletions ==
    ASSUME OwnershipInv, NEW u \in Users, NEW v \in Users, v # u, leaving'[v] = leaving[v],
           gone' \subseteq gone \cup {u},
           Planned(v) => /\ \A b \in DOMAIN leaving[v].heirs : leaving[v].heirs[b] \notin gone'
                         /\ \A b \in DOMAIN leaving[v].keepers : leaving[v].keepers[b] \notin gone',
           \A b \in Held(v) : /\ org'[b] = org[b] /\ role'[b][v] = role[b][v]
                              /\ Members(b)' \subseteq Members(b)
    PROVE  InPhase(v)' /\ PlanHolds(v)'
<1> USE DEF OwnershipInv, DeletionInv
<1>1. InPhase(v)' BY DEF InPhase, Planned
<1>2. PlanHolds(v)'
  <2> SUFFICES ASSUME Planned(v) PROVE PlanHolds(v)'
    BY DEF PlanHolds, Planned
  <2>1. v \notin gone BY DEF InPhase, Planned
  <2>2. leaving[v].empty \subseteq Books /\ leaving[v].locked \subseteq Books
    <3>1. leaving[v] \in Leaving OBVIOUS
    <3>2. QED BY <3>1 DEF Leaving
  <2>3. QED BY <2>1, <2>2, PlanKept
<1>3. QED BY <1>1, <1>2

LEMMA HeldBooks ==
    ASSUME OwnershipInv, NEW u \in Users
    PROVE  leaving[u].locked \subseteq Books /\ leaving[u].empty \subseteq Books /\ Held(u) \subseteq Books
           /\ leaving[u].list \subseteq Recipes
<1>1. leaving[u] \in Leaving BY DEF OwnershipInv, DeletionInv
<1>2. QED BY <1>1 DEF Leaving, Held

(* The heirs and keepers that a deletion planned stay. *)
LEMMA PlannedStay ==
    ASSUME OwnershipInv, NEW v \in Users, Planned(v)
    PROVE  /\ \A b \in DOMAIN leaving[v].heirs : leaving[v].heirs[b] \notin gone
           /\ \A b \in DOMAIN leaving[v].keepers : leaving[v].keepers[b] \notin gone
BY DEF OwnershipInv, DeletionInv, PlanHolds

LEMMA HandOverKeeps ==
    ASSUME OwnershipInv, NEW u \in Users, HandOver(u) PROVE OwnershipInv' /\ Steps
<1> USE DEF OwnershipInv, DeletionInv
<1>1. leaving[u] \in Leaving /\ leaving[u].phase = "hand" BY DEF HandOver
<1>2. PICK S \in SUBSET Books : S = {b \in Books : <<b, org[b]>> \in leaving[u].shared} OBVIOUS
<1>3. UNCHANGED <<recipe, pending, request, gone, asked>> BY DEF HandOver
<1>4. PICK out \in HandOvers(u, S) :
        role' = RoleAfter(out.heirs) /\ org' = OrgAfter(u, out.heirs, out.keepers)
  BY <1>2 DEF HandOver
<1>5. PICK heirs \in HandedTo, keepers \in HandedTo : heirs = out.heirs /\ keepers = out.keepers
  BY HandedOver
<1>6. /\ DOMAIN heirs \subseteq S /\ DOMAIN keepers = MemberlessBooks(u)
      /\ \A b \in DOMAIN heirs : heirs[b] \in Users \ (gone \cup {u})
      /\ \A b \in DOMAIN keepers : keepers[b] \in Users \ (gone \cup {u})
  BY <1>5, HandedOver
<1>7. PICK T \in SUBSET Books : T = S \cup MemberlessBooks(u) BY DEF MemberlessBooks
<1>8. \A b \in T : LockedBy(b) = {} BY <1>2, <1>7 DEF HandOver
<1>9. \A b \in T : Exists(b)
  <2>1. \A b \in S : org[b] \in Orgs BY <1>1, <1>2 DEF Leaving
  <2>2. \A b \in MemberlessBooks(u) : org[b] \in Orgs BY Names DEF MemberlessBooks
  <2>3. QED BY <2>1, <2>2, <1>7 DEF Exists
<1>10. DOMAIN heirs \cup DOMAIN keepers \subseteq T BY <1>6, <1>7
<1>11. \A b \in Books : role'[b] = IF b \in DOMAIN heirs THEN [role[b] EXCEPT ![heirs[b]] = "owner"]
                                   ELSE role[b]
  BY <1>4, <1>5 DEF RoleAfter
<1>12. \A b \in Books \ T : role'[b] = role[b] BY <1>10, <1>11
<1>13. ASSUME NEW b \in Books, NEW v \in Users
       PROVE  role'[b][v] = IF b \in DOMAIN heirs /\ v = heirs[b] THEN "owner" ELSE role[b][v]
  <2>1. role[b] \in [Users -> Roles] BY DEF RowTypes
  <2>2. QED BY <2>1, <1>11
<1>14. role' \in [Books -> [Users -> Roles]]
  <2>1. ASSUME NEW b \in Books PROVE role'[b] \in [Users -> Roles]
    <3>1. role[b] \in [Users -> Roles] /\ "owner" \in Roles BY DEF RowTypes, Roles
    <3>2. QED BY <3>1, <1>11
  <2>2. role' = [b \in Books |-> role'[b]] BY <1>4 DEF RoleAfter
  <2>3. QED BY <2>1, <2>2
<1>15. \A b \in Books : org'[b] = IF org[b] = u /\ b \in DOMAIN heirs THEN heirs[b]
                                  ELSE IF b \in DOMAIN keepers THEN keepers[b] ELSE org[b]
  BY <1>4, <1>5 DEF OrgAfter
<1>16. \A b \in Books \ T : org'[b] = org[b] BY <1>10, <1>15
<1>17. \A b \in Books : org'[b] = org[b] \/ org'[b] \in Users \ gone BY <1>6, <1>15
<1>18. \A b \in Books : org'[b] \in Orgs \cup {Unmade, NoBook} BY <1>17, Names DEF RowTypes
<1>19. org' \in [Books -> Orgs \cup {Unmade, NoBook}]
  <2>1. org' = [b \in Books |-> org'[b]] BY <1>4 DEF OrgAfter
  <2>2. QED BY <2>1, <1>18
<1>20. \A b \in Books : Exists(b) => Exists(b)' BY <1>17, Names DEF Exists
<1>21. \A b \in Books : Members(b)' # {} => Exists(b)'
  <2>1. \A b \in Books \ T : Members(b)' = Members(b) BY <1>12 DEF Members
  <2>2. QED BY <2>1, <1>9, <1>20 DEF RowTypes
<1>22. RowTypes' BY <1>3, <1>14, <1>19, <1>21 DEF RowTypes
<1>23. GoneLeavesNothing'
  <2>1. ASSUME NEW w \in gone, NEW b \in Books PROVE role'[b][w] = "none" /\ org'[b] # w
    <3>1. w \in Users /\ role[b][w] = "none" /\ org[b] # w BY DEF GoneLeavesNothing, RowTypes
    <3>2. b \in DOMAIN heirs => heirs[b] # w BY <1>6
    <3>3. QED BY <3>1, <3>2, <1>13, <1>17
  <2>2. QED BY <2>1, <1>3 DEF GoneLeavesNothing
<1>24. PICK d \in Leaving : d = [leaving[u] EXCEPT !.phase = "collect", !.shared = {}]
  BY <1>1 DEF Leaving, Phases
<1>25. leaving' = [leaving EXCEPT ![u] = d] BY <1>24 DEF HandOver
<1>26. leaving'[u] = d /\ \A v \in Users : v # u => leaving'[v] = leaving[v] BY <1>25
<1>27. /\ d.phase = "collect" /\ d.list = leaving[u].list /\ d.locked = leaving[u].locked
       /\ d.heirs = leaving[u].heirs /\ d.keepers = leaving[u].keepers /\ d.empty = leaving[u].empty
  BY <1>1, <1>24 DEF Leaving
<1>28. InPhase(u)' BY <1>1, <1>3, <1>26, <1>27 DEF InPhase, Planned
<1>29. PlanHolds(u)' BY <1>26, <1>27 DEF PlanHolds, Planned
<1>30. \A v \in Users : Held(v)' = Held(v) BY <1>26, <1>27 DEF Held
<1>31. \A v \in Users : leaving'[v].list = leaving[v].list BY <1>26, <1>27
<1>32. \A v \in Users : Listed(v)' BY <1>3, <1>31 DEF Listed, IsRow
<1>33. \A v \in Users : Named(v)' BY <1>3 DEF Named
<1>34. ASSUME NEW v \in Users, v # u PROVE InPhase(v)' /\ PlanHolds(v)'
  <2>1. \A b \in Held(v) : b \in Books \ T
    BY <1>8, HeldBooks DEF LockedBy, Held
  <2>2. \A b \in Held(v) : org'[b] = org[b] /\ role'[b] = role[b] BY <2>1, <1>12, <1>16
  <2>3. \A b \in Held(v) : Members(b)' \subseteq Members(b) BY <2>2 DEF Members
  <2>4. QED BY <2>2, <2>3, <1>3, <1>26, <1>34, PlannedStay, OtherDeletions
<1>35. \A v \in Users : InPhase(v)' /\ PlanHolds(v)' BY <1>28, <1>29, <1>34
<1>36. leaving' \in [Users -> Leaving] BY <1>25
<1>37. HeldByOne' BY <1>30 DEF HeldByOne
<1>38. HeldExist' BY <1>20, <1>30, HeldBooks DEF HeldExist
<1>39. OwnershipInv' BY <1>22, <1>23, <1>32, <1>33, <1>35, <1>36, <1>37, <1>38
<1>40. ASSUME NEW b \in Books, Owners(b) # {} PROVE Owners(b)' # {}
  <2>1. PICK w \in Users : role[b][w] = "owner" BY <1>40 DEF Owners
  <2>2. role'[b][w] = "owner" BY <2>1, <1>13
  <2>3. QED BY <2>2 DEF Owners
<1>41. Steps BY <1>3, <1>20, <1>40, QuietSteps DEF IsRow
<1>42. QED BY <1>39, <1>41

LEMMA DeleteRecipeKeeps ==
    ASSUME OwnershipInv, NEW u \in Users, NEW t \in Recipes, DeleteRecipe(u, t)
    PROVE  OwnershipInv' /\ Steps
<1> USE DEF OwnershipInv, DeletionInv
<1>1. /\ leaving[u] \in Leaving /\ leaving[u].phase = "recipes" /\ t \in leaving[u].list
      /\ UNCHANGED <<org, role, pending, request, gone, asked>>
  BY DEF DeleteRecipe
<1>2. PICK d \in Leaving : d = [leaving[u] EXCEPT !.list = @ \ {t}] BY <1>1 DEF Leaving
<1>3. leaving' = [leaving EXCEPT ![u] = d] BY <1>2 DEF DeleteRecipe
<1>4. leaving'[u] = d /\ \A v \in Users : v # u => leaving'[v] = leaving[v] BY <1>3
<1>5. /\ d.phase = "recipes" /\ d.list = leaving[u].list \ {t} /\ d.locked = leaving[u].locked
      /\ d.heirs = leaving[u].heirs /\ d.keepers = leaving[u].keepers /\ d.empty = leaving[u].empty
  BY <1>1, <1>2 DEF Leaving
<1>6. /\ recipe' \in [Recipes -> RecipeRow \cup {Blank(Unmade), Blank(NoBook)}]
      /\ recipe'[t] = Blank(NoBook)
      /\ \A s \in Recipes : s # t => recipe'[s] = recipe[s]
  BY DEF DeleteRecipe, RowTypes
<1>7. ~IsRow(t)' /\ recipe'[t].book # Unmade BY <1>6, Names DEF IsRow, Blank
<1>8. RowTypes' BY <1>1, <1>6 DEF RowTypes, Members, Exists
<1>9. GoneLeavesNothing' BY <1>1 DEF GoneLeavesNothing
<1>10. \A v \in Users : leaving'[v].list \subseteq leaving[v].list BY <1>4, <1>5
<1>11. ASSUME NEW v \in Users PROVE Listed(v)'
  <2>1. leaving[v].list \subseteq Recipes BY HeldBooks
  <2>2. QED BY <2>1, <1>1, <1>6, <1>7, <1>10 DEF Listed, IsRow
<1>12. InPhase(u)' BY <1>1, <1>4, <1>5 DEF InPhase, Planned
<1>13. PlanHolds(u)' BY <1>4, <1>5 DEF PlanHolds, Planned
<1>14. \A v \in Users : Held(v)' = Held(v) BY <1>4, <1>5 DEF Held
<1>15. \A v \in Users : Named(v)' BY <1>1 DEF Named
<1>16. ASSUME NEW v \in Users, v # u PROVE InPhase(v)' /\ PlanHolds(v)'
  <2>1. \A b \in Books : Members(b)' = Members(b) BY <1>1 DEF Members
  <2>2. QED BY <2>1, <1>1, <1>4, <1>16, HeldBooks, PlannedStay, OtherDeletions
<1>17. \A v \in Users : InPhase(v)' /\ PlanHolds(v)' BY <1>12, <1>13, <1>16
<1>18. leaving' \in [Users -> Leaving] BY <1>3
<1>19. HeldByOne' /\ HeldExist' BY <1>1, <1>14 DEF HeldByOne, HeldExist, Exists
<1>20. OwnershipInv' BY <1>8, <1>9, <1>11, <1>15, <1>17, <1>18, <1>19
<1>21. OwnerStep /\ KeepStep BY <1>1 DEF OwnerStep, KeepStep, Owners, Exists
<1>22. ~VerifyListed => TakeStep
  <2>1. SUFFICES ASSUME ~VerifyListed, NEW s \in Recipes, IsRow(s), ~IsRow(s)'
        PROVE  \E w \in Departing : /\ leaving[w] # leaving'[w]
                                    /\ recipe[s].author \in gone \cup {w} \/ recipe[s].about = w
    BY DEF TakeStep
  <2>2. s = t BY <2>1, <1>6 DEF IsRow
  <2>3. u \in Departing BY <1>1 DEF InPhase
  <2>4. leaving[u] # leaving'[u] BY <1>1, <1>4, <1>5
  <2>5. recipe[t].author \in gone \cup {u} \/ recipe[t].about = u
    BY <1>1, <2>1, <2>2 DEF Listed
  <2>6. QED BY <2>2, <2>3, <2>4, <2>5
<1>23. QED BY <1>20, <1>21, <1>22 DEF Steps

LEMMA CommitKeeps ==
    ASSUME OwnershipInv, NEW u \in Users, Commit(u) PROVE OwnershipInv' /\ Steps
<1> USE DEF OwnershipInv, DeletionInv
<1>1. PICK heirs \in HandedTo, keepers \in HandedTo, empty \in SUBSET Books, list \in SUBSET Recipes :
        /\ heirs = leaving[u].heirs /\ keepers = leaving[u].keepers
        /\ empty = leaving[u].empty /\ list = leaving[u].list
  <2>1. leaving[u] \in Leaving OBVIOUS
  <2>2. QED BY <2>1 DEF Leaving
<1>2. /\ leaving[u].phase = "decided" /\ Planned(u) /\ u \in Departing /\ u \notin gone
      /\ OwnRowsFree(u) /\ StillOwned(u) \subseteq empty
  BY <1>1 DEF Commit, Planned, InPhase, Blocked
<1>3. UNCHANGED <<request, asked>> /\ gone' = gone \cup {u} BY DEF Commit
<1>4. /\ DOMAIN heirs \cup DOMAIN keepers \subseteq leaving[u].locked
      /\ DOMAIN heirs \cap DOMAIN keepers = {}
      /\ \A b \in DOMAIN heirs : heirs[b] \in Users \ (gone \cup {u})
      /\ \A b \in DOMAIN keepers : keepers[b] \in Users \ (gone \cup {u}) /\ org[b] = u
      /\ \A b \in leaving[u].locked \ DOMAIN heirs :
              org[b] = u \/ role[b][u] = "owner" => Others(b, u) = {}
      /\ empty \subseteq StillOwned(u)
  BY <1>1, <1>2 DEF PlanHolds
<1>5. \A b \in Books : OrgAfter(u, heirs, keepers)[b] =
          IF org[b] = u /\ b \in DOMAIN heirs THEN heirs[b]
          ELSE IF b \in DOMAIN keepers THEN keepers[b] ELSE org[b]
  BY DEF OrgAfter
<1>6. /\ org' \in [Books -> {org'[b] : b \in Books}]
      /\ \A b \in Books : b \in empty => org'[b] = NoBook
      /\ \A b \in Books : b \notin empty => org'[b] = OrgAfter(u, heirs, keepers)[b]
  BY <1>1 DEF Commit
<1>7. \A b \in Books : b \notin empty =>
          /\ org'[b] # u
          /\ org'[b] = org[b] \/ org'[b] \in Users \ gone
  BY <1>1, <1>2, <1>4, <1>5, <1>6 DEF StillOwned
<1>8. \A b \in Books : b \notin Held(u) => org'[b] = org[b]
  BY <1>1, <1>4, <1>5, <1>6 DEF Held
<1>9. \A b \in Books : \A v \in Users :
          RoleAfter(heirs)[b][v] = IF b \in DOMAIN heirs /\ v = heirs[b] THEN "owner" ELSE role[b][v]
  <2>1. ASSUME NEW b \in Books, NEW v \in Users
        PROVE  RoleAfter(heirs)[b][v] = IF b \in DOMAIN heirs /\ v = heirs[b] THEN "owner" ELSE role[b][v]
    <3>1. RoleAfter(heirs)[b] = IF b \in DOMAIN heirs THEN [role[b] EXCEPT ![heirs[b]] = "owner"]
                                ELSE role[b]
      BY DEF RoleAfter
    <3>2. role[b] \in [Users -> Roles] BY DEF RowTypes
    <3>3. QED BY <3>1, <3>2
  <2>2. QED BY <2>1
<1>10. role' = [b \in Books |-> [v \in Users |->
                    IF v = u \/ b \in empty THEN "none" ELSE RoleAfter(heirs)[b][v]]]
  BY <1>1 DEF Commit
<1>11. /\ \A b \in Books : \A v \in Users : v = u \/ b \in empty => role'[b][v] = "none"
       /\ \A b \in Books : \A v \in Users : b \in DOMAIN heirs /\ b \notin empty /\ v = heirs[b]
              => role'[b][v] = "owner"
       /\ \A b \in Books : \A v \in Users :
              v # u /\ b \notin empty /\ ~(b \in DOMAIN heirs /\ v = heirs[b]) => role'[b][v] = role[b][v]
  BY <1>4, <1>9, <1>10
<1>12. \A b \in Books : \A v \in Users : role'[b][v] \in Roles
  <2>1. "none" \in Roles /\ "owner" \in Roles BY DEF Roles
  <2>2. \A b \in Books : \A v \in Users : role[b][v] \in Roles BY DEF RowTypes
  <2>3. QED BY <2>1, <2>2, <1>11
<1>13. role' \in [Books -> [Users -> Roles]]
  <2>1. \A b \in Books : role'[b] = [v \in Users |-> role'[b][v]] BY <1>10
  <2>2. \A b \in Books : role'[b] \in [Users -> Roles] BY <2>1, <1>12
  <2>3. role' = [b \in Books |-> role'[b]] BY <1>10
  <2>4. QED BY <2>2, <2>3
<1>14. \A b \in Books : org'[b] \in Orgs \cup {Unmade, NoBook}
  BY <1>6, <1>7, Names DEF RowTypes
<1>15. org' \in [Books -> Orgs \cup {Unmade, NoBook}] BY <1>6, <1>14
<1>16. \A b \in Books : Exists(b) /\ b \notin empty => Exists(b)'
  BY <1>7, Names DEF Exists
<1>17. leaving[u].locked \subseteq Books /\ \A b \in Held(u) : Exists(b) BY HeldBooks DEF HeldExist
<1>18. ASSUME NEW b \in Books, Members(b)' # {} PROVE Exists(b)'
  <2>1. PICK v \in Users : role'[b][v] # "none" BY <1>18 DEF Members
  <2>2. v # u /\ b \notin empty BY <2>1, <1>11
  <2>3. CASE b \in DOMAIN heirs
    <3>1. Exists(b) BY <2>3, <1>4, <1>17 DEF Held
    <3>2. QED BY <3>1, <2>2, <1>16
  <2>4. CASE b \notin DOMAIN heirs
    <3>1. role[b][v] # "none" BY <2>1, <2>2, <2>4, <1>11
    <3>2. Exists(b) BY <3>1 DEF RowTypes, Members
    <3>3. QED BY <3>2, <2>2, <1>16
  <2>5. QED BY <2>3, <2>4
<1>19. \A t \in Recipes : IF t \in list THEN recipe'[t] = Blank(NoBook) ELSE recipe'[t] = recipe[t]
  BY <1>1 DEF Commit
<1>20. recipe' \in [Recipes -> RecipeRow \cup {Blank(Unmade), Blank(NoBook)}]
  <2>1. recipe' = [t \in Recipes |-> recipe'[t]] BY DEF Commit
  <2>2. \A t \in Recipes : recipe'[t] \in RecipeRow \cup {Blank(Unmade), Blank(NoBook)}
    BY <1>19 DEF RowTypes
  <2>3. QED BY <2>1, <2>2
<1>21. pending' \subseteq pending /\ \A i \in pending' : i.by # u BY DEF Commit
<1>22. RowTypes' BY <1>3, <1>13, <1>15, <1>18, <1>20, <1>21 DEF RowTypes
<1>23. GoneLeavesNothing'
  <2>1. ASSUME NEW w \in gone', NEW b \in Books PROVE role'[b][w] = "none" /\ org'[b] # w
    <3>1. CASE w = u BY <3>1, <1>6, <1>7, <1>11, Names
    <3>2. CASE w # u
      <4>1. w \in Users /\ w \in gone /\ role[b][w] = "none" /\ org[b] # w
        BY <2>1, <3>2, <1>3 DEF GoneLeavesNothing, RowTypes
      <4>2. org'[b] # w BY <4>1, <1>6, <1>7, Names
      <4>3. ~(b \in DOMAIN heirs /\ w = heirs[b]) BY <4>1, <1>4
      <4>4. QED BY <3>2, <4>1, <4>2, <4>3, <1>11
    <3>3. QED BY <3>1, <3>2
  <2>2. \A w \in gone' : \A i \in pending' : i.by # w BY <1>3, <1>21 DEF GoneLeavesNothing
  <2>3. QED BY <2>1, <2>2 DEF GoneLeavesNothing
<1>24. leaving' = [leaving EXCEPT ![u] = Staying] BY DEF Commit
<1>25. leaving'[u] = Staying /\ \A v \in Users : v # u => leaving'[v] = leaving[v] BY <1>24
<1>26. leaving' \in [Users -> Leaving] BY <1>24, StayingType
<1>27. InPhase(u)' BY <1>25 DEF InPhase, Planned, Staying
<1>28. PlanHolds(u)' BY <1>25 DEF PlanHolds, Planned, Staying
<1>29. Held(u)' = {} /\ \A v \in Users : v # u => Held(v)' = Held(v) BY <1>25 DEF Held, Staying
<1>30. \A t \in Recipes : IsRow(t)' => recipe'[t] = recipe[t] /\ IsRow(t)
  <2>1. Blank(NoBook).book = NoBook BY DEF Blank
  <2>2. QED BY <2>1, <1>19, Names DEF IsRow
<1>31. \A t \in Recipes : recipe[t].book # Unmade => recipe'[t].book # Unmade
  <2>1. Blank(NoBook).book = NoBook BY DEF Blank
  <2>2. QED BY <2>1, <1>19, Names
<1>32. ASSUME NEW v \in Users PROVE Listed(v)'
  <2>1. CASE v = u BY <2>1, <1>25 DEF Listed, Staying
  <2>2. CASE v # u
    <3>1. leaving'[v].list = leaving[v].list /\ leaving[v].list \subseteq Recipes
      BY <2>2, <1>25, HeldBooks
    <3>2. QED BY <3>1, <1>3, <1>30, <1>31 DEF Listed
  <2>3. QED BY <2>1, <2>2
<1>33. \A v \in Users : Named(v)' BY <1>3 DEF Named
<1>34. ASSUME NEW v \in Users, v # u, Planned(v)
       PROVE  /\ \A b \in DOMAIN leaving[v].heirs : leaving[v].heirs[b] # u
              /\ \A b \in DOMAIN leaving[v].keepers : leaving[v].keepers[b] # u
  <2>1. ~MovesInto(v, u) /\ u \notin Range(leaving[v].heirs)
    BY <1>2, <1>34 DEF OwnRowsFree, HoldsRowsOf, Planned
  <2>2. \A b \in DOMAIN leaving[v].heirs : leaving[v].heirs[b] # u BY <2>1 DEF Range
  <2>3. ASSUME NEW b \in DOMAIN leaving[v].keepers PROVE leaving[v].keepers[b] # u
    <3>1. b \in leaving[v].locked /\ b \notin DOMAIN leaving[v].heirs /\ org[b] = v
      BY <1>34 DEF PlanHolds
    <3>2. b \in Books BY <3>1, HeldBooks
    <3>3. OrgAfter(v, leaving[v].heirs, leaving[v].keepers)[b] = leaving[v].keepers[b]
      BY <3>1, <3>2 DEF OrgAfter
    <3>4. QED BY <2>1, <3>1, <3>2, <3>3, <1>34 DEF MovesInto
  <2>4. QED BY <2>2, <2>3
<1>35. ASSUME NEW v \in Users, v # u PROVE InPhase(v)' /\ PlanHolds(v)'
  <2>1. \A b \in Held(v) : b \in Books /\ b \notin Held(u) BY <1>35, HeldBooks DEF HeldByOne
  <2>2. \A b \in Held(v) : org'[b] = org[b] BY <2>1, <1>8
  <2>3. \A b \in Held(v) : \A w \in Users : w # u => role'[b][w] = role[b][w]
    BY <2>1, <1>1, <1>4, <1>11 DEF Held
  <2>4. \A b \in Held(v) : Members(b)' \subseteq Members(b)
    BY <2>1, <2>3, <1>11 DEF Members
  <2>5. Planned(v) =>
          /\ \A b \in DOMAIN leaving[v].heirs : leaving[v].heirs[b] \notin gone'
          /\ \A b \in DOMAIN leaving[v].keepers : leaving[v].keepers[b] \notin gone'
    BY <1>3, <1>34, <1>35, PlannedStay
  <2>6. QED BY <2>2, <2>3, <2>4, <2>5, <1>3, <1>25, <1>35, OtherDeletions
<1>36. \A v \in Users : InPhase(v)' /\ PlanHolds(v)' BY <1>27, <1>28, <1>35
<1>37. HeldByOne' BY <1>29 DEF HeldByOne
<1>38. HeldExist'
  <2>1. ASSUME NEW v \in Users, NEW b \in Held(v)' PROVE Exists(b)'
    <3>1. v # u /\ b \in Held(v) BY <1>29
    <3>2. b \in Books /\ b \notin empty /\ Exists(b)
      BY <3>1, <1>1, HeldBooks DEF HeldByOne, HeldExist, Held
    <3>3. QED BY <3>2, <1>16
  <2>2. QED BY <2>1 DEF HeldExist
<1>39. OwnershipInv' BY <1>22, <1>23, <1>26, <1>32, <1>33, <1>36, <1>37, <1>38
<1>40. u \in gone' \ gone /\ \A w \in gone' \ gone : w = u BY <1>2, <1>3
<1>41. OwnerStep
  <2>1. SUFFICES ASSUME NEW b \in Books, Owners(b) # {}, Owners(b)' = {}, b \in leaving[u].locked
        PROVE  Members(b)' = {}
    BY <1>40 DEF OwnerStep
  <2>2. CASE b \in empty BY <2>2, <1>11 DEF Members
  <2>3. CASE b \notin empty
    <3>1. \A v \in Users : role'[b][v] # "owner" BY <2>1 DEF Owners
    <3>2. b \notin DOMAIN heirs BY <2>3, <3>1, <1>4, <1>11
    <3>3. \A v \in Users : v # u => role'[b][v] = role[b][v] BY <2>3, <3>2, <1>11
    <3>4. role[b][u] = "owner" BY <2>1, <3>1, <3>3 DEF Owners
    <3>5. Others(b, u) = {} BY <2>1, <3>2, <3>4, <1>4
    <3>6. \A v \in Users : role'[b][v] = "none" BY <3>3, <3>5, <1>11 DEF Others, Members
    <3>7. QED BY <3>6 DEF Members
  <2>4. QED BY <2>2, <2>3
<1>42. ~VerifyListed => TakeStep
  <2>1. SUFFICES ASSUME ~VerifyListed, NEW t \in Recipes, IsRow(t), ~IsRow(t)'
        PROVE  \E w \in Departing : /\ leaving[w] # leaving'[w]
                                    /\ recipe[t].author \in gone \cup {w} \/ recipe[t].about = w
    BY DEF TakeStep
  <2>2. t \in leaving[u].list BY <2>1, <1>1, <1>19 DEF IsRow
  <2>3. leaving[u] # leaving'[u] BY <1>2, <1>25 DEF Staying
  <2>4. recipe[t].author \in gone \cup {u} \/ recipe[t].about = u BY <2>1, <2>2 DEF Listed
  <2>5. QED BY <2>3, <2>4, <1>2
<1>43. KeepStep
  <2>1. SUFFICES ASSUME NEW b \in Books, Exists(b), ~Exists(b)', b \in leaving[u].locked
        PROVE  Members(b) \subseteq {u}
    BY <1>40 DEF KeepStep
  <2>2. b \in empty /\ b \in StillOwned(u) BY <2>1, <1>4, <1>16
  <2>3. org[b] = u /\ OrgAfter(u, heirs, keepers)[b] = u
    BY <2>2, <1>1, <1>2, StillOwnedWas DEF StillOwned
  <2>4. b \notin DOMAIN heirs BY <2>3, <1>4, <1>5
  <2>5. Others(b, u) = {} BY <2>1, <2>3, <2>4, <1>4
  <2>6. QED BY <2>5 DEF Others
<1>44. QED BY <1>39, <1>41, <1>42, <1>43 DEF Steps

---------------------------------------------------------------------------
(* Every behaviour.                                                        *)

LEMMA NextKeeps == OwnershipInv /\ Next => OwnershipInv' /\ Steps
<1> SUFFICES ASSUME OwnershipInv, NEW u \in Users,
                    Requests(u) \/ Writes(u) \/ AskDelete(u) \/ Deletion(u)
             PROVE  OwnershipInv' /\ Steps
  BY DEF Next
<1>1. CASE Requests(u) BY <1>1, RequestsKeep
<1>2. CASE Writes(u) BY <1>2, WritesKeep
<1>3. CASE AskDelete(u) BY <1>3, AskDeleteKeeps
<1>4. CASE Deletion(u)
  BY <1>4, HandOverKeeps, CollectRecipesKeeps, DeleteRecipeKeeps, LockBooksKeeps,
     PlanTeardownKeeps, FindEmptyBooksKeeps, RollBackKeeps, CommitKeeps
  DEF Deletion
<1>5. QED BY <1>1, <1>2, <1>3, <1>4

LEMMA StutterKeeps == OwnershipInv /\ UNCHANGED vars => OwnershipInv' /\ Steps
<1> SUFFICES ASSUME OwnershipInv, UNCHANGED vars PROVE OwnershipInv' /\ Steps
  OBVIOUS
<1>1. request' \in [Users -> Request] /\ (\A v \in Users : Named(v)') /\ pending' \subseteq Invitation
  BY DEF OwnershipInv, DeletionInv, RowTypes, Named, vars
<1>2. QED BY <1>1, Answers DEF vars

LEMMA Starts == Init => OwnershipInv
<1> SUFFICES ASSUME Init PROVE OwnershipInv
  OBVIOUS
<1>1. PICK creator \in [Books -> Users] :
        /\ org \in [Books -> Orgs \cup {Unmade}]
        /\ role \in [Books -> [Users -> Roles]]
        /\ \A b \in Books : IF org[b] = Unmade THEN Range(role[b]) = {"none"}
                            ELSE \A u \in Users : (role[b][u] = "owner") = (u = creator[b])
  BY DEF Init
<1>2. ASSUME NEW b \in Books, Members(b) # {} PROVE Exists(b)
  <2>1. PICK u \in Users : role[b][u] # "none" BY <1>2 DEF Members
  <2>2. role[b][u] \in Range(role[b]) BY <1>1 DEF Range
  <2>3. org[b] # Unmade BY <1>1, <2>1, <2>2
  <2>4. QED BY <1>1, <2>3 DEF Exists
<1>3. Idle \in Request /\ Idle.kind = "idle" BY DEF Request, Idle
<1>4. request \in [Users -> Request] /\ \A u \in Users : Named(u) BY <1>3 DEF Init, Named
<1>5. RowTypes BY <1>1, <1>2, <1>4, OwnershipAssumption DEF Init, RowTypes
<1>6. leaving \in [Users -> Leaving] /\ \A u \in Users : leaving[u] = Staying
  BY StayingType DEF Init
<1>7. \A u \in Users : Held(u) = {} BY <1>6 DEF Held, Staying
<1>8. \A u \in Users : InPhase(u) /\ Listed(u) /\ PlanHolds(u)
  BY <1>6 DEF InPhase, Listed, PlanHolds, Planned, Staying
<1>9. HeldByOne /\ HeldExist BY <1>7 DEF HeldByOne, HeldExist
<1>10. GoneLeavesNothing BY DEF Init, GoneLeavesNothing
<1>11. QED BY <1>4, <1>5, <1>6, <1>8, <1>9, <1>10 DEF OwnershipInv, DeletionInv

LEMMA AlwaysOwnership == Spec => []OwnershipInv /\ [][Steps]_vars
<1>1. OwnershipInv /\ [Next]_vars => OwnershipInv' /\ Steps BY NextKeeps, StutterKeeps
<1>2. QED BY Starts, <1>1, PTL DEF Spec

(* Books, memberships, recipes, invitations, requests and deletions have   *)
(* the shape of their rows: a membership has its book, whatever deletion   *)
(* takes the book while requests for it are in flight.                     *)
THEOREM OwnershipTypes == Spec => []TypeOK
BY AlwaysOwnership, TypesOfInv, PTL

(* Nothing of a deleted account is left: no membership, no organization    *)
(* with a book, no invitation it made, for any number of accounts deleted  *)
(* side by side.                                                           *)
THEOREM NothingIsLeft == Spec => []GoneLeavesNothing
<1>1. OwnershipInv => GoneLeavesNothing BY DEF OwnershipInv, DeletionInv
<1>2. QED BY <1>1, AlwaysOwnership, PTL

(* A book that loses its last owner has no member left: removeMember       *)
(* refuses the last owner, and the hand-over that a deletion planned is    *)
(* still right when the deletion commits.                                  *)
THEOREM OwnerIsReplaced == Spec => LastOwnerLeavesNobody
<1>1. Steps =>
        \A b \in Books :
            /\ Owners(b) # {} /\ Owners(b)' = {}
            /\ \A u \in gone' \ gone : b \in leaving[u].locked
            => Members(b)' = {}
  BY DEF Steps, OwnerStep
<1>2. QED BY <1>1, AlwaysOwnership, PTL DEF LastOwnerLeavesNobody

(* A deletion takes recipes of the departing person, drafts about them and *)
(* recipes of authors without an account, and nobody else's, if a draft on *)
(* its list is not resolved while it runs.                                 *)
THEOREM OthersKeepTheirRecipes == ~VerifyListed /\ Spec => TakesOnlyTheirs
<1>1. ~VerifyListed /\ Steps =>
        \A t \in Recipes : IsRow(t) /\ ~IsRow(t)' =>
            \E u \in Departing :
                /\ leaving[u] # leaving'[u]
                /\ recipe[t].author \in gone \cup {u} \/ recipe[t].about = u
  BY DEF Steps, TakeStep
<1>2. CASE ~VerifyListed
  <2>1. Steps =>
          \A t \in Recipes : IsRow(t) /\ ~IsRow(t)' =>
              \E u \in Departing :
                  /\ leaving[u] # leaving'[u]
                  /\ recipe[t].author \in gone \cup {u} \/ recipe[t].about = u
    BY <1>1, <1>2
  <2>2. QED BY <2>1, AlwaysOwnership, PTL DEF TakesOnlyTheirs
<1>3. QED BY <1>2

(* A book that goes with an account had no other member: nobody joins      *)
(* between the last look of the deletion and its commit.                   *)
THEOREM BooksOfOthersSurvive == Spec => SharedBooksSurvive
<1>1. Steps =>
        \A b \in Books : Exists(b) /\ ~Exists(b)' =>
            \E u \in gone' \ gone : b \in leaving[u].locked => Members(b) \subseteq {u}
  BY DEF Steps, KeepStep
<1>2. QED BY <1>1, AlwaysOwnership, PTL DEF SharedBooksSurvive

---------------------------------------------------------------------------
(* One deletion at a time.                                                 *)

(* Nobody asks for the deletion of an account while another one runs. *)
OneAtATime == \A u, v \in Users : leaving[u].phase # "no" /\ leaving[v].phase # "no" => u = v

(* A step never takes the last owner from a book and leaves a member in    *)
(* it, whether a deletion holds the book or not.                           *)
OwnersReplaced ==
    [][\A b \in Books : Owners(b) # {} /\ Owners(b)' = {} => Members(b)' = {}]_vars

(* What a departing person owns after the books are locked is locked, or   *)
(* was made since, and then it stops the deletion or goes with it.         *)
Locking(u) == leaving[u].phase \in {"locked", "planned", "decided"}
OwnedAreLocked ==
    \A u \in Users : Locking(u) =>
        \A b \in Books : role[b][u] = "owner" => b \in leaving[u].locked \/ org[b] = u
AddsNoOwner == \A u \in Users : request[u].kind = "add" => request[u].as # "owner"
OwnedInv == OwnedAreLocked /\ AddsNoOwner

LEMMA OwnedKept ==
    ASSUME OwnedAreLocked,
           \A u \in Users : Locking(u)' => Locking(u) /\ leaving[u].locked \subseteq leaving'[u].locked,
           \A u \in Users : \A b \in Books : Locking(u) /\ role'[b][u] = "owner" =>
               (role[b][u] = "owner" /\ org'[b] = org[b]) \/ org'[b] = u
    PROVE  OwnedAreLocked'
<1> SUFFICES ASSUME NEW u \in Users, NEW b \in Books, Locking(u)', role'[b][u] = "owner"
             PROVE  b \in leaving'[u].locked \/ org'[b] = u
  BY DEF OwnedAreLocked
<1>1. Locking(u) /\ leaving[u].locked \subseteq leaving'[u].locked OBVIOUS
<1>2. CASE org'[b] = u BY <1>2
<1>3. CASE role[b][u] = "owner" /\ org'[b] = org[b]
  <2>1. b \in leaving[u].locked \/ org[b] = u BY <1>1, <1>3 DEF OwnedAreLocked
  <2>2. QED BY <2>1, <1>1, <1>3
<1>4. QED BY <1>1, <1>2, <1>3

(* One person's role in one book, while no deletion moves. *)
LEMMA OwnedByRole ==
    ASSUME OwnershipInv, OwnedAreLocked, UNCHANGED <<org, leaving>>,
           NEW c \in Books, NEW v \in Users, NEW as \in Roles \ {"owner"},
           role' = [role EXCEPT ![c][v] = as] \/ role' = role
    PROVE  OwnedAreLocked'
<1>1. role \in [Books -> [Users -> Roles]] BY DEF OwnershipInv, RowTypes
<1>2. ASSUME NEW u \in Users, NEW b \in Books PROVE role'[b][u] \in {role[b][u], as}
  BY <1>1
<1>3. \A u \in Users : \A b \in Books : role'[b][u] = "owner" => role[b][u] = "owner" BY <1>2
<1>4. QED BY <1>3, OwnedKept DEF Locking

LEMMA SentAdds ==
    ASSUME OwnershipInv, OwnedInv, NEW u \in Users, NEW r \in Request, Send(u, r),
           r.kind = "add" => r.as # "owner", UNCHANGED <<org, role, leaving>>
    PROVE  OwnedInv'
<1>1. request \in [Users -> Request] /\ request' = [request EXCEPT ![u] = r]
  BY DEF OwnershipInv, RowTypes, Send
<1>2. AddsNoOwner' BY <1>1 DEF OwnedInv, AddsNoOwner
<1>3. OwnedAreLocked' BY DEF OwnedInv, OwnedAreLocked, Locking
<1>4. QED BY <1>2, <1>3 DEF OwnedInv

LEMMA AnsweredAdds ==
    ASSUME OwnershipInv, OwnedInv, NEW u \in Users, Answered(u)
    PROVE  AddsNoOwner'
<1>1. request \in [Users -> Request] /\ request' = [request EXCEPT ![u] = Idle]
  BY DEF OwnershipInv, RowTypes, Answered
<1>2. Idle.kind = "idle" BY DEF Idle
<1>3. QED BY <1>1, <1>2 DEF OwnedInv, AddsNoOwner

LEMMA OwnedRequests ==
    ASSUME OwnershipInv, OwnedInv, NEW u \in Users, Requests(u) PROVE OwnedInv'
<1>1. ASSUME NEW c \in Books, CreateBook(u, c) PROVE OwnedInv'
  <2>1. /\ role \in [Books -> [Users -> Roles]] /\ role' = [role EXCEPT ![c][u] = "owner"]
        /\ org \in [Books -> Orgs \cup {Unmade, NoBook}] /\ org' = [org EXCEPT ![c] = u]
        /\ org[c] = Unmade /\ UNCHANGED <<request, leaving>>
    BY <1>1 DEF OwnershipInv, RowTypes, CreateBook
  <2>2. \A v \in Users : role[c][v] = "none"
    BY <2>1, Names DEF OwnershipInv, RowTypes, Members, Exists
  <2>3. \A v \in Users : \A b \in Books : role'[b][v] = "owner" =>
            (role[b][v] = "owner" /\ org'[b] = org[b]) \/ org'[b] = v
    BY <2>1, <2>2
  <2>4. OwnedAreLocked' BY <2>1, <2>3, OwnedKept DEF OwnedInv, Locking
  <2>5. QED BY <2>1, <2>4 DEF OwnedInv, AddsNoOwner
<1>2. ASSUME NEW b \in Books, NEW v \in Users, NEW as \in {"member", "admin"}, AskAdd(u, b, v, as)
      PROVE  OwnedInv'
  <2>1. PICK r \in Request : r = [kind |-> "add", book |-> b, who |-> v, as |-> as]
    BY DEF Request, Kinds, Roles
  <2>2. QED BY <1>2, <2>1, SentAdds DEF AskAdd
<1>3. ASSUME NEW b \in Books, NEW v \in Users, AskRemove(u, b, v) PROVE OwnedInv'
  <2>1. PICK r \in Request : r = [kind |-> "remove", book |-> b, who |-> v, as |-> "none"]
    BY DEF Request, Kinds, Roles
  <2>2. QED BY <1>3, <2>1, SentAdds DEF AskRemove
<1>4. ASSUME NEW b \in Books, NEW v \in Users, AskInvite(u, b, v) PROVE OwnedInv'
  <2>1. PICK r \in Request : r = [kind |-> "invite", book |-> b, who |-> v, as |-> "none"]
    BY DEF Request, Kinds, Roles
  <2>2. QED BY <1>4, <2>1, SentAdds DEF AskInvite
<1>5. ASSUME NEW b \in Books, NEW a \in Users \cup {Nobody}, AskFile(u, b, a) PROVE OwnedInv'
  <2>1. PICK r \in Request : r = [kind |-> "file", book |-> b, who |-> a, as |-> "none"]
    BY DEF Request, Kinds, Roles
  <2>2. QED BY <1>5, <2>1, SentAdds DEF AskFile
<1>6. ASSUME NEW i \in pending, CloseInvitation(u, i) PROVE OwnedInv'
  BY <1>6 DEF CloseInvitation, OwnedInv, OwnedAreLocked, Locking, AddsNoOwner
<1>7. ASSUME NEW i \in pending, AskAccept(u, i) PROVE OwnedInv'
  <2>1. i \in Invitation BY DEF OwnershipInv, RowTypes
  <2>2. PICK r \in Request : r = [kind |-> "accept", book |-> i.book, who |-> i.by, as |-> "member"]
    BY <2>1 DEF Request, Kinds, Roles, Invitation
  <2>3. QED BY <1>7, <2>2, SentAdds DEF AskAccept
<1>8. ASSUME NEW t \in Recipes, NEW verified \in BOOLEAN, Resolve(u, t, verified) PROVE OwnedInv'
  BY <1>8 DEF Resolve, OwnedInv, OwnedAreLocked, Locking, AddsNoOwner
<1>9. QED BY <1>1, <1>2, <1>3, <1>4, <1>5, <1>6, <1>7, <1>8 DEF Requests

LEMMA OwnedWrites ==
    ASSUME OwnershipInv, OwnedInv, NEW u \in Users, Writes(u) PROVE OwnedInv'
<1> DEFINE r == request[u]
<1>0. r \in Request /\ "none" \in Roles \ {"owner"} /\ "member" \in Roles \ {"owner"}
  BY DEF OwnershipInv, RowTypes, Roles
<1>1. r.kind # "idle" => r.book \in Books /\ r.as \in Roles BY <1>0 DEF Request, Idle
<1>2. CASE AddMember(u)
  <2>1. r.kind = "add" /\ r.who \in Users /\ r.as # "owner"
    BY <1>2 DEF AddMember, OwnershipInv, DeletionInv, Named, OwnedInv, AddsNoOwner
  <2>2. role' = [role EXCEPT ![r.book][r.who] = r.as] \/ role' = role
    BY <1>2 DEF AddMember, InsertMember
  <2>3. UNCHANGED <<org, leaving>> /\ AddsNoOwner' BY <1>2, AnsweredAdds DEF AddMember
  <2>4. OwnedAreLocked' BY <1>1, <2>1, <2>2, <2>3, OwnedByRole DEF OwnedInv
  <2>5. QED BY <2>3, <2>4 DEF OwnedInv
<1>3. CASE RemoveMember(u)
  <2>1. r.kind = "remove" /\ r.who \in Users
    BY <1>3 DEF RemoveMember, OwnershipInv, DeletionInv, Named
  <2>2. role' = [role EXCEPT ![r.book][r.who] = "none"] \/ role' = role
    BY <1>3 DEF RemoveMember
  <2>3. UNCHANGED <<org, leaving>> /\ AddsNoOwner' BY <1>3, AnsweredAdds DEF RemoveMember
  <2>4. OwnedAreLocked' BY <1>0, <1>1, <2>1, <2>2, <2>3, OwnedByRole DEF OwnedInv
  <2>5. QED BY <2>3, <2>4 DEF OwnedInv
<1>4. CASE JoinAccepted(u)
  <2>1. r.kind = "join" BY <1>4 DEF JoinAccepted
  <2>2. role' = [role EXCEPT ![r.book][u] = "member"] \/ role' = role
    BY <1>4 DEF JoinAccepted, InsertMember
  <2>3. UNCHANGED <<org, leaving>> /\ AddsNoOwner' BY <1>4, AnsweredAdds DEF JoinAccepted
  <2>4. OwnedAreLocked' BY <1>0, <1>1, <2>1, <2>2, <2>3, OwnedByRole DEF OwnedInv
  <2>5. QED BY <2>3, <2>4 DEF OwnedInv
<1>5. CASE Invite(u) \/ \E t \in Recipes : File(u, t)
  <2>1. UNCHANGED <<org, role, leaving>> /\ AddsNoOwner' BY <1>5, AnsweredAdds DEF Invite, File
  <2>2. QED BY <2>1 DEF OwnedInv, OwnedAreLocked, Locking
<1>6. CASE MarkAccepted(u)
  <2>1. request' = [request EXCEPT ![u].kind = "join"] /\ UNCHANGED <<org, role, leaving>>
    BY <1>6 DEF MarkAccepted
  <2>2. \A v \in Users : request'[v].kind = "add" => request'[v] = request[v]
    BY <2>1 DEF OwnershipInv, RowTypes, Request, Idle
  <2>3. QED BY <2>1, <2>2 DEF OwnedInv, OwnedAreLocked, Locking, AddsNoOwner
<1>7. QED BY <1>2, <1>3, <1>4, <1>5, <1>6 DEF Writes

(* The hand-over and the commit of another are excluded: they alone could  *)
(* make a departing person the owner of a book they do not hold.           *)
LEMMA OwnedDeletions ==
    ASSUME OwnershipInv, OwnedInv, OneAtATime, NEW u \in Users, AskDelete(u) \/ Deletion(u)
    PROVE  OwnedInv'
<1>1. leaving \in [Users -> Leaving] BY DEF OwnershipInv, DeletionInv
<1>2. UNCHANGED request
  <2>1. HandOver(u) => UNCHANGED request BY DEF HandOver
  <2>2. PlanTeardown(u) => UNCHANGED request BY DEF PlanTeardown
  <2>3. FindEmptyBooks(u) => UNCHANGED request BY DEF FindEmptyBooks
  <2>4. Commit(u) => UNCHANGED request BY DEF Commit
  <2>5. LockBooks(u) => UNCHANGED request BY DEF LockBooks
  <2>6. CollectRecipes(u) \/ RollBack(u) \/ (\E t \in Recipes : DeleteRecipe(u, t)) => UNCHANGED request
    BY DEF CollectRecipes, RollBack, DeleteRecipe
  <2>7. AskDelete(u) => UNCHANGED request BY DEF AskDelete
  <2>8. QED BY <2>1, <2>2, <2>3, <2>4, <2>5, <2>6, <2>7 DEF Deletion
<1>3. AddsNoOwner' BY <1>2 DEF OwnedInv, AddsNoOwner
<1>4. OwnedAreLocked BY DEF OwnedInv
<1>5. CASE AskDelete(u) \/ CollectRecipes(u) \/ (\E t \in Recipes : DeleteRecipe(u, t)) \/ RollBack(u)
  <2>1. UNCHANGED <<org, role>> /\ \A v \in Users : Locking(v)' => leaving'[v] = leaving[v]
    BY <1>1, <1>5 DEF AskDelete, CollectRecipes, DeleteRecipe, RollBack, Locking, Leaving, Staying
  <2>2. OwnedAreLocked' BY <1>4, <2>1, OwnedKept DEF Locking
  <2>3. QED BY <1>3, <2>2 DEF OwnedInv
<1>6. CASE HandOver(u) \/ Commit(u)
  <2>1. leaving[u].phase # "no" /\ \A v \in Users : v # u => ~Locking(v)
    BY <1>6 DEF HandOver, Commit, OneAtATime, Locking
  <2>2. leaving'[u].phase \in {"collect", "no"} /\ \A v \in Users : v # u => leaving'[v] = leaving[v]
    BY <1>1, <1>6 DEF HandOver, Commit, Leaving, Staying
  <2>3. \A v \in Users : ~Locking(v)' BY <2>1, <2>2 DEF Locking
  <2>4. QED BY <1>3, <2>3 DEF OwnedInv, OwnedAreLocked
<1>7. CASE LockBooks(u)
  <2>1. UNCHANGED <<org, role>> BY <1>7 DEF LockBooks
  <2>2. \A v \in Users : v # u => leaving'[v] = leaving[v] BY <1>1, <1>7 DEF LockBooks
  <2>3. leaving'[u].locked = {b \in Books : Exists(b) /\ (org[b] = u \/ role[b][u] # "none")}
    BY <1>1, <1>7 DEF LockBooks, Leaving
  <2>4. \A b \in Books : role[b][u] = "owner" => b \in leaving'[u].locked
    BY <2>3 DEF OwnershipInv, RowTypes, Members
  <2>5. QED BY <1>3, <1>4, <2>1, <2>2, <2>4 DEF OwnedInv, OwnedAreLocked, Locking
<1>8. CASE PlanTeardown(u)
  <2>0. PICK S \in SUBSET Books : S = SharedBooksOwnedBy(u) BY DEF SharedBooksOwnedBy
  <2>1. PICK W \in SUBSET Books : W = S \cup MemberlessBooks(u) BY DEF MemberlessBooks
  <2>2. PICK out \in HandOvers(u, S) :
          leaving' = [leaving EXCEPT ![u].phase = "planned", ![u].heirs = out.heirs,
                                     ![u].keepers = out.keepers, ![u].list = UserRecipes(u),
                                     ![u].locked = @ \cup W]
    BY <1>8, <2>0, <2>1 DEF PlanTeardown
  <2>3. PICK d : d = [leaving[u] EXCEPT !.phase = "planned", !.heirs = out.heirs,
                                        !.keepers = out.keepers, !.list = UserRecipes(u),
                                        !.locked = @ \cup W]
    OBVIOUS
  <2>4. leaving' = [leaving EXCEPT ![u] = d] BY <2>2, <2>3
  <2>5. d.locked = leaving[u].locked \cup W BY <1>1, <2>3 DEF Leaving
  <2>6. leaving'[u] = d /\ \A v \in Users : v # u => leaving'[v] = leaving[v] BY <1>1, <2>4
  <2>7. UNCHANGED <<org, role>> BY <1>8 DEF PlanTeardown
  <2>8. Locking(u) BY <1>8 DEF PlanTeardown, Locking
  <2>9. OwnedAreLocked' BY <1>4, <2>5, <2>6, <2>7, <2>8, OwnedKept DEF Locking
  <2>10. QED BY <1>3, <2>9 DEF OwnedInv
<1>9. CASE FindEmptyBooks(u)
  <2>1. PICK e : leaving' = [leaving EXCEPT ![u].phase = "decided", ![u].empty = e]
    BY <1>9 DEF FindEmptyBooks
  <2>2. leaving'[u].locked = leaving[u].locked /\ \A v \in Users : v # u => leaving'[v] = leaving[v]
    BY <1>1, <2>1 DEF Leaving
  <2>3. UNCHANGED <<org, role>> BY <1>9 DEF FindEmptyBooks
  <2>4. Locking(u) BY <1>9 DEF FindEmptyBooks, Locking
  <2>5. OwnedAreLocked' BY <1>4, <2>2, <2>3, <2>4, OwnedKept DEF Locking
  <2>6. QED BY <1>3, <2>5 DEF OwnedInv
<1>10. QED BY <1>5, <1>6, <1>7, <1>8, <1>9 DEF Deletion

LEMMA CommitReplaces ==
    ASSUME OwnershipInv, OwnedInv, Steps, NEW u \in Users, Commit(u),
           NEW b \in Books, Owners(b) # {}, Owners(b)' = {}
    PROVE  Members(b)' = {}
<1>1. leaving[u].phase = "decided" /\ ~Blocked(u) /\ gone' = gone \cup {u} BY DEF Commit
<1>2. CASE b \in leaving[u].locked
  BY <1>1, <1>2 DEF Steps, OwnerStep
<1>3. CASE b \notin leaving[u].locked
  <2>1. b \notin DOMAIN leaving[u].heirs /\ b \notin DOMAIN leaving[u].keepers
    BY <1>1, <1>3 DEF OwnershipInv, DeletionInv, PlanHolds, Planned
  <2>2. RoleAfter(leaving[u].heirs)[b] = role[b] BY <2>1 DEF RoleAfter
  <2>3. \A v \in Users : role'[b][v] = IF v = u \/ b \in leaving[u].empty THEN "none" ELSE role[b][v]
    BY <2>2 DEF Commit
  <2>4. CASE b \in leaving[u].empty BY <2>3, <2>4 DEF Members
  <2>5. CASE b \notin leaving[u].empty
    <3>1. role[b][u] = "owner" BY <2>3, <2>5 DEF Owners
    <3>2. org[b] = u BY <1>1, <1>3, <3>1 DEF OwnedInv, OwnedAreLocked, Locking
    <3>3. b \in StillOwned(u) BY <2>1, <3>2 DEF StillOwned, OrgAfter
    <3>4. QED BY <1>1, <2>5, <3>3 DEF Blocked
  <2>6. QED BY <2>4, <2>5
<1>4. QED BY <1>2, <1>3

LEMMA OnlyCommitGone ==
    ASSUME NEW u \in Users, Requests(u) \/ Writes(u) \/ AskDelete(u) \/ Deletion(u), ~Commit(u)
    PROVE  gone' = gone
<1>1. Requests(u) => gone' = gone
  BY DEF Requests, CreateBook, AskAdd, AskRemove, AskInvite, AskFile, CloseInvitation, AskAccept, Resolve
<1>2. Writes(u) => gone' = gone
  BY DEF Writes, AddMember, RemoveMember, Invite, MarkAccepted, JoinAccepted, File
<1>3. AskDelete(u) => gone' = gone BY DEF AskDelete
<1>4. HandOver(u) => gone' = gone BY DEF HandOver
<1>5. PlanTeardown(u) => gone' = gone BY DEF PlanTeardown
<1>6. FindEmptyBooks(u) => gone' = gone BY DEF FindEmptyBooks
<1>7. LockBooks(u) => gone' = gone BY DEF LockBooks
<1>8. CollectRecipes(u) \/ RollBack(u) \/ (\E t \in Recipes : DeleteRecipe(u, t)) => gone' = gone
  BY DEF CollectRecipes, RollBack, DeleteRecipe
<1>9. QED BY <1>1, <1>2, <1>3, <1>4, <1>5, <1>6, <1>7, <1>8 DEF Deletion

(* If accounts are deleted one at a time, no book with members loses its   *)
(* last owner, locked or not: what a departing person comes to own after   *)
(* the books are locked is a book they made, and it stops the commit or    *)
(* goes with it.                                                           *)
THEOREM OneDeletionReplacesOwners == Spec /\ []OneAtATime => OwnersReplaced
<1> DEFINE Replaced == \A b \in Books : Owners(b) # {} /\ Owners(b)' = {} => Members(b)' = {}
<1>1. Init => OwnedInv
  <2>1. Init => /\ \A u \in Users : leaving[u].phase = "no" /\ request[u].kind = "idle"
    BY DEF Init, Staying, Idle
  <2>2. QED BY <2>1 DEF OwnedInv, OwnedAreLocked, Locking, AddsNoOwner
<1>2. OwnershipInv /\ OwnedInv /\ OneAtATime /\ [Next]_vars => OwnedInv'
  <2>1. OwnershipInv /\ OwnedInv /\ OneAtATime /\ Next => OwnedInv'
    BY OwnedRequests, OwnedWrites, OwnedDeletions DEF Next
  <2>2. OwnedInv /\ UNCHANGED vars => OwnedInv'
    BY DEF OwnedInv, OwnedAreLocked, Locking, AddsNoOwner, vars
  <2>3. QED BY <2>1, <2>2
<1>3. OwnershipInv /\ OwnedInv /\ [Next]_vars /\ Steps => Replaced
  <2>1. SUFFICES ASSUME OwnershipInv, OwnedInv, [Next]_vars, Steps PROVE Replaced
    OBVIOUS
  <2>2. gone' = gone => Replaced BY <2>1 DEF Steps, OwnerStep
  <2>3. CASE UNCHANGED vars BY <2>2, <2>3 DEF vars
  <2>4. CASE \E u \in Users : Commit(u) BY <2>1, <2>4, CommitReplaces
  <2>5. CASE Next /\ ~\E u \in Users : Commit(u)
    BY <2>2, <2>5, OnlyCommitGone DEF Next
  <2>6. QED BY <2>1, <2>3, <2>4, <2>5
<1> HIDE DEF Replaced
<1>4. Spec /\ []OneAtATime => [][Replaced]_vars
  <2>1. OwnershipInv /\ OwnedInv /\ [Next]_vars /\ [Steps]_vars => [Replaced]_vars
    BY <1>3
  <2>2. QED BY <1>1, <1>2, <2>1, AlwaysOwnership, PTL DEF Spec
<1> USE DEF Replaced
<1>5. QED BY <1>4 DEF OwnersReplaced
=============================================================================
