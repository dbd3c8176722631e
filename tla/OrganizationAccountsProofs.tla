--------------------- MODULE OrganizationAccountsProofs ---------------------
(* Every property of OrganizationAccounts, for any accounts, companies,    *)
(* books, limits and transactions that satisfy the assumptions: the        *)
(* seat limit first, which needs only the memberships, then the types and  *)
(* what is said of books and their rows, which need the seats' invariant,  *)
(* and last that it implements SerialAccounts, which needs both.           *)
EXTENDS OrganizationAccounts, FiniteSetTheorems, TLAPS

(* A transaction that holds the organization's row. *)
HoldsOrg(t) == t.kind \notin {"remove", "import"}

(* What a transaction has read of its organization is still so: a join's   *)
(* account is in no organization and a seat is free, and so it is for a    *)
(* member who is to be enabled.                                            *)
JoinReady(t) ==
    t.kind = "join" =>
        /\ t.who \in Users /\ t.org \in Companies /\ t.as \in OrgRoles
        /\ member[t.who] = NotMember /\ ownerOf[t.org] # Nobody /\ FreeSeat(t.org)

ActReady(t) ==
    t.kind \in {"disable", "enable", "role"} =>
        /\ t.who \in Users /\ t.org \in Companies /\ member[t.who].org = t.org
        /\ t.kind = "role" => t.as \in OrgRoles
        /\ t.kind = "enable" => ~member[t.who].disabled \/ FreeSeat(t.org)

OneHolder == \A t, s \in tx : HoldsOrg(t) /\ HoldsOrg(s) /\ t.org = s.org => t = s
OneJoin == \A t, s \in tx : t.kind = "join" /\ s.kind = "join" /\ t.who = s.who => t = s
MembersOwned == \A u \in Users : member[u] # NotMember => ownerOf[member[u].org] # Nobody

Ready == \A t \in tx : JoinReady(t) /\ ActReady(t)

SeatInv ==
    /\ member \in [Users -> Membership]
    /\ ownerOf \in [Companies -> Users \cup {Nobody}]
    /\ OneHolder /\ OneJoin /\ MembersOwned /\ Ready
    /\ SeatsRespected

---------------------------------------------------------------------------
(* Counting seats.                                                         *)
LEMMA CountSubset ==
    ASSUME NEW S, NEW T, IsFiniteSet(T), S \subseteq T
    PROVE  Cardinality(S) \in Nat /\ Cardinality(T) \in Nat /\ Cardinality(S) <= Cardinality(T)
BY FS_Subset, FS_CardinalityType

LEMMA CountOneMore ==
    ASSUME NEW S, NEW T, IsFiniteSet(T), NEW x, S \subseteq T \cup {x}
    PROVE  Cardinality(S) <= Cardinality(T) + 1
<1>1. /\ IsFiniteSet(T \cup {x})
      /\ Cardinality(T \cup {x}) = IF x \in T THEN Cardinality(T) ELSE Cardinality(T) + 1
  BY FS_AddElement
<1>2. /\ Cardinality(S) \in Nat /\ Cardinality(T \cup {x}) \in Nat
      /\ Cardinality(S) <= Cardinality(T \cup {x})
  BY <1>1, CountSubset
<1>3. Cardinality(T) \in Nat BY FS_CardinalityType
<1>4. QED BY <1>1, <1>2, <1>3

LEMMA ActiveFinite == ASSUME NEW c PROVE IsFiniteSet(Active(c)) /\ Cardinality(Active(c)) \in Nat
<1>1. Active(c) \subseteq Users BY DEF Active, MembersOf
<1>2. QED BY <1>1, AccountsAssumption, FS_Subset, FS_CardinalityType

LEMMA MembershipFields == ASSUME NEW m \in Membership, m.org \in Companies
    PROVE  /\ m # NotMember /\ m.role \in OrgRoles /\ m.disabled \in BOOLEAN
           /\ \A x \in BOOLEAN : /\ [m EXCEPT !.disabled = x] \in Membership
                                 /\ [m EXCEPT !.disabled = x].org = m.org
                                 /\ [m EXCEPT !.disabled = x].disabled = x
           /\ \A r \in OrgRoles : /\ [m EXCEPT !.role = r] \in Membership
                                  /\ [m EXCEPT !.role = r].org = m.org
                                  /\ [m EXCEPT !.role = r].disabled = m.disabled
BY AccountsAssumption DEF Membership, NotMember

LEMMA NotMemberOrg == NotMember.org \notin Companies /\ NotMember \in Membership
BY AccountsAssumption DEF NotMember, Membership

LEMMA OrgOfMember == ASSUME NEW m \in Membership, m # NotMember PROVE m.org \in Companies
BY DEF Membership

(* One account's membership becomes m.  The other organizations keep their *)
(* seats or gain one; its own needs one more at the most.                  *)
LEMMA OneChanges ==
    ASSUME member \in [Users -> Membership], NEW u \in Users, NEW m \in Membership,
           member' = [member EXCEPT ![u] = m]
    PROVE  /\ member' \in [Users -> Membership] /\ member'[u] = m
           /\ \A v \in Users \ {u} : member'[v] = member[v]
           /\ \A c \in Companies :
                 c # m.org \/ m.disabled \/ u \in Active(c) =>
                     Cardinality(Active(c)') <= Cardinality(Active(c))
           /\ \A c \in Companies : Cardinality(Active(c)') <= Cardinality(Active(c)) + 1
           /\ \A c \in Companies : Cardinality(Active(c)') \in Nat
<1>1. /\ member' \in [Users -> Membership] /\ member'[u] = m
      /\ \A v \in Users \ {u} : member'[v] = member[v]
  OBVIOUS
<1>2. ASSUME NEW c \in Companies
      PROVE  /\ Active(c)' \subseteq Active(c) \cup {u}
             /\ c # m.org \/ m.disabled \/ u \in Active(c) => Active(c)' \subseteq Active(c)
  BY <1>1 DEF Active, MembersOf
<1>3. QED
  <2>1. ASSUME NEW c \in Companies
        PROVE  /\ c # m.org \/ m.disabled \/ u \in Active(c) =>
                     Cardinality(Active(c)') <= Cardinality(Active(c))
               /\ Cardinality(Active(c)') <= Cardinality(Active(c)) + 1
               /\ Cardinality(Active(c)') \in Nat
    <3>1. Active(c)' \subseteq Users BY DEF Active, MembersOf
    <3>2. Cardinality(Active(c)') \in Nat
      BY <3>1, AccountsAssumption, FS_Subset, FS_CardinalityType
    <3>3. QED BY <1>2, <3>2, ActiveFinite, CountSubset, CountOneMore
  <2>2. QED BY <1>1, <2>1

---------------------------------------------------------------------------
(* A transaction that begins changes nothing that seats depend on.         *)
LEMMA Begins1 ==
    ASSUME SeatInv, UNCHANGED <<member, ownerOf>>, NEW t, tx' = tx \cup {t},
           JoinReady(t), ActReady(t),
           HoldsOrg(t) => \A s \in tx : s.org = t.org => ~HoldsOrg(s),
           t.kind = "join" => \A s \in tx : ~(s.kind = "join" /\ s.who = t.who)
    PROVE  SeatInv'
<1>1. Ready' BY DEF SeatInv, Ready, JoinReady, ActReady, FreeSeat, Active, MembersOf
<1>2. OneHolder' /\ OneJoin' BY DEF SeatInv, OneHolder, OneJoin, HoldsOrg
<1>3. QED BY <1>1, <1>2 DEF SeatInv, MembersOwned, SeatsRespected, Active, MembersOf

(* One that ends without a change to the memberships. *)
LEMMA Ends1 ==
    ASSUME SeatInv, UNCHANGED <<member, ownerOf>>, tx' \subseteq tx PROVE SeatInv'
BY DEF SeatInv, Ready, JoinReady, ActReady, FreeSeat, Active, MembersOf, OneHolder, OneJoin,
       MembersOwned, SeatsRespected

(* A transaction of another organization about another account is as ready *)
(* as it was.                                                              *)
LEMMA StaysReady ==
    ASSUME SeatInv, NEW u \in Users, NEW m \in Membership, member' = [member EXCEPT ![u] = m],
           m.org \in Companies, NEW s \in tx, HoldsOrg(s), s.org # m.org,
           s.kind = "join" => s.who # u, s.kind \in {"disable", "enable", "role"} => s.who # u,
           s.org \in Companies => (ownerOf[s.org] # Nobody => ownerOf'[s.org] # Nobody)
    PROVE  JoinReady(s)' /\ ActReady(s)'
<1>0. member \in [Users -> Membership] BY DEF SeatInv
<1>1. \A v \in Users \ {u} : member'[v] = member[v] BY <1>0, OneChanges
<1>2. ASSUME s.org \in Companies, FreeSeat(s.org) PROVE FreeSeat(s.org)'
  <2>1. Cardinality(Active(s.org)') <= Cardinality(Active(s.org)) BY <1>0, <1>2, OneChanges
  <2>2. Cardinality(Active(s.org)') \in Nat BY <1>0, <1>2, OneChanges
  <2>3. Cardinality(Active(s.org)) \in Nat BY ActiveFinite
  <2>4. SeatLimit[s.org] \in Nat BY <1>2, AccountsAssumption
  <2>5. QED BY <1>2, <2>1, <2>2, <2>3, <2>4 DEF FreeSeat
<1>3. JoinReady(s) /\ ActReady(s) BY DEF SeatInv, Ready
<1>4. QED BY <1>1, <1>2, <1>3 DEF JoinReady, ActReady

(* A transaction that holds the organization changes the membership of its *)
(* account and ends; the others stay ready.                                *)
LEMMA OthersReady ==
    ASSUME SeatInv, NEW t \in tx, HoldsOrg(t), t.org \in Companies, t.who \in Users,
           NEW m \in Membership, m.org = t.org, member' = [member EXCEPT ![t.who] = m],
           tx' = tx \ {t},
           t.kind = "join" \/ member[t.who].org = t.org,
           t.kind = "join" => member[t.who] = NotMember,
           \A c \in Companies : ownerOf[c] # Nobody => ownerOf'[c] # Nobody
    PROVE  Ready' /\ OneHolder' /\ OneJoin'
<1>1. ASSUME NEW s \in tx' PROVE JoinReady(s)' /\ ActReady(s)'
  <2>1. s \in tx /\ s # t BY <1>1
  <2>2. CASE ~HoldsOrg(s) BY <2>2 DEF HoldsOrg, JoinReady, ActReady
  <2>3. CASE HoldsOrg(s)
    <3>1. s.org # m.org BY <2>1, <2>3 DEF SeatInv, OneHolder
    <3>2. s.kind = "join" => s.who # t.who
      <4>1. s.kind = "join" => member[s.who] = NotMember
        BY <2>1 DEF SeatInv, Ready, JoinReady
      <4>2. CASE t.kind = "join" BY <2>1, <4>2 DEF SeatInv, OneJoin
      <4>3. CASE member[t.who].org = t.org BY <4>1, <4>3, NotMemberOrg
      <4>4. QED BY <4>2, <4>3
    <3>3. s.kind \in {"disable", "enable", "role"} => s.who # t.who
      <4>1. s.kind \in {"disable", "enable", "role"} =>
              s.org \in Companies /\ member[s.who].org = s.org
        BY <2>1 DEF SeatInv, Ready, ActReady
      <4>2. QED BY <3>1, <4>1, NotMemberOrg
    <3>4. QED BY <2>1, <2>3, <3>1, <3>2, <3>3, StaysReady
  <2>4. QED BY <2>2, <2>3
<1>2. OneHolder' /\ OneJoin' BY DEF SeatInv, OneHolder, OneJoin, HoldsOrg
<1>3. QED BY <1>1, <1>2 DEF Ready

LEMMA SeatsKept ==
    ASSUME SeatInv, NEW u \in Users, NEW m \in Membership, m.org \in Companies,
           member' = [member EXCEPT ![u] = m],
           m.disabled \/ u \in Active(m.org) \/ FreeSeat(m.org)
    PROVE  SeatsRespected'
<1>1. ASSUME NEW c \in Companies PROVE Cardinality(Active(c)') <= SeatLimit[c]
  <2>0. member \in [Users -> Membership] BY DEF SeatInv
  <2>1. /\ Cardinality(Active(c)) <= SeatLimit[c] /\ SeatLimit[c] \in Nat
        /\ Cardinality(Active(c)) \in Nat /\ Cardinality(Active(c)') \in Nat
    BY <2>0, AccountsAssumption, ActiveFinite, OneChanges DEF SeatInv, SeatsRespected
  <2>2. CASE c # m.org \/ m.disabled \/ u \in Active(c)
    <3>1. Cardinality(Active(c)') <= Cardinality(Active(c)) BY <2>0, <2>2, OneChanges
    <3>2. QED BY <2>1, <3>1
  <2>3. CASE c = m.org /\ FreeSeat(c)
    <3>1. Cardinality(Active(c)') <= Cardinality(Active(c)) + 1 BY <2>0, OneChanges
    <3>2. Cardinality(Active(c)) < SeatLimit[c] BY <2>3 DEF FreeSeat
    <3>3. QED BY <2>1, <3>1, <3>2
  <2>4. QED BY <2>2, <2>3
<1>2. QED BY <1>1 DEF SeatsRespected

LEMMA OwnedKept ==
    ASSUME SeatInv, NEW u \in Users, NEW m \in Membership, m.org \in Companies,
           member' = [member EXCEPT ![u] = m], ownerOf'[m.org] # Nobody,
           \A c \in Companies : ownerOf[c] # Nobody => ownerOf'[c] # Nobody
    PROVE  MembersOwned' /\ member' \in [Users -> Membership]
BY OrgOfMember DEF SeatInv, MembersOwned

---------------------------------------------------------------------------
(* The steps.                                                              *)
LEMMA JoinBeginSeats ==
    ASSUME SeatInv, NEW u \in Users, NEW c \in Companies, NEW as \in OrgRoles, JoinBegin(u, c, as)
    PROVE  SeatInv'
<1> DEFINE t == [kind |-> "join", org |-> c, who |-> u, book |-> Unmade, as |-> as,
                 read |-> OwnBooks(u) \cup OrgWideBooks(c)]
<1>1. tx' = tx \cup {t} /\ UNCHANGED <<member, ownerOf>> BY DEF JoinBegin, Begin
<1>2. JoinReady(t) /\ ActReady(t) BY DEF JoinBegin, JoinReady, ActReady
<1>3. \A s \in tx : s.org = t.org => ~HoldsOrg(s) BY DEF JoinBegin, OrgFree, HoldsOrg
<1>4. \A s \in tx : ~(s.kind = "join" /\ s.who = t.who) BY DEF JoinBegin, AccountFree
<1>5. QED BY <1>1, <1>2, <1>3, <1>4, Begins1

LEMMA JoinCommitSeats == ASSUME SeatInv, NEW t \in tx, JoinCommit(t) PROVE SeatInv'
<1> DEFINE m == [org |-> t.org, role |-> t.as, disabled |-> FALSE]
<1>1. t.kind = "join" /\ member' = [member EXCEPT ![t.who] = m] /\ ownerOf' = ownerOf /\ tx' = tx \ {t}
  BY DEF JoinCommit, End
<1>2. /\ t.who \in Users /\ t.org \in Companies /\ t.as \in OrgRoles
      /\ member[t.who] = NotMember /\ ownerOf[t.org] # Nobody /\ FreeSeat(t.org)
  BY <1>1 DEF SeatInv, Ready, JoinReady
<1>3. m \in Membership /\ m.org = t.org BY <1>2 DEF Membership
<1>4. HoldsOrg(t) BY <1>1 DEF HoldsOrg
<1> HIDE DEF m
<1>5. Ready' /\ OneHolder' /\ OneJoin' BY <1>1, <1>2, <1>3, <1>4, OthersReady
<1>6. SeatsRespected' BY <1>1, <1>2, <1>3, SeatsKept
<1>7. MembersOwned' /\ member' \in [Users -> Membership] BY <1>1, <1>2, <1>3, OwnedKept
<1>8. QED BY <1>1, <1>5, <1>6, <1>7 DEF SeatInv

LEMMA ActBeginSeats ==
    ASSUME SeatInv, NEW a \in Users, NEW u \in Users, NEW kind \in {"disable", "enable", "role"},
           NEW as, kind = "role" => as \in OrgRoles, ActBegin(a, u, kind, as)
    PROVE  SeatInv'
<1> DEFINE t == [kind |-> kind, org |-> member[u].org, who |-> u, book |-> Unmade,
                 as |-> as, read |-> {}]
<1>1. tx' = tx \cup {t} /\ UNCHANGED <<member, ownerOf>> BY DEF ActBegin, Begin
<1>2. member[u].org \in Companies BY DEF ActBegin, MayAct
<1>3. JoinReady(t) /\ ActReady(t) BY <1>2 DEF ActBegin, JoinReady, ActReady
<1>4. \A s \in tx : s.org = t.org => ~HoldsOrg(s) BY DEF ActBegin, OrgFree, HoldsOrg
<1>5. t.kind # "join" OBVIOUS
<1>6. QED BY <1>1, <1>3, <1>4, <1>5, Begins1

LEMMA ActCommitSeats ==
    ASSUME SeatInv, NEW t \in tx, DisableCommit(t) \/ RoleCommit(t) PROVE SeatInv'
<1>0. /\ t.kind \in {"disable", "enable", "role"} /\ tx' = tx \ {t}
      /\ HoldsOrg(t)
  BY DEF DisableCommit, RoleCommit, End, HoldsOrg
<1>1. /\ t.who \in Users /\ t.org \in Companies /\ member[t.who].org = t.org
      /\ t.kind = "role" => t.as \in OrgRoles
      /\ t.kind = "enable" => ~member[t.who].disabled \/ FreeSeat(t.org)
  BY <1>0 DEF SeatInv, Ready, ActReady
<1>2. member[t.who] \in Membership BY <1>1 DEF SeatInv
<1>3. ownerOf[t.org] # Nobody BY <1>1, NotMemberOrg DEF SeatInv, MembersOwned
<1>4. PICK m \in Membership :
        /\ m.org = t.org /\ member' = [member EXCEPT ![t.who] = m]
        /\ m.disabled \/ t.who \in Active(m.org) \/ FreeSeat(m.org)
  <2>1. CASE DisableCommit(t)
    <3> DEFINE d == t.kind = "disable"
    <3>0. d \in BOOLEAN OBVIOUS
    <3>2. member' = [member EXCEPT ![t.who] = [member[t.who] EXCEPT !.disabled = d]]
      BY <2>1 DEF DisableCommit
    <3>3. d \/ t.who \in Active(t.org) \/ FreeSeat(t.org)
      BY <1>1, <2>1 DEF DisableCommit, Active, MembersOf
    <3> HIDE DEF d
    <3>1. /\ [member[t.who] EXCEPT !.disabled = d] \in Membership
          /\ [member[t.who] EXCEPT !.disabled = d].org = t.org
          /\ [member[t.who] EXCEPT !.disabled = d].disabled = d
      BY <3>0, <1>1, <1>2, MembershipFields
    <3>4. QED BY <3>1, <3>2, <3>3
  <2>2. CASE RoleCommit(t)
    <3>1. t.as \in OrgRoles BY <1>1, <2>2 DEF RoleCommit
    <3>2. /\ [member[t.who] EXCEPT !.role = t.as] \in Membership
          /\ [member[t.who] EXCEPT !.role = t.as].org = t.org
          /\ [member[t.who] EXCEPT !.role = t.as].disabled = member[t.who].disabled
      BY <1>1, <1>2, <3>1, MembershipFields
    <3>3. member' = [member EXCEPT ![t.who] = [member[t.who] EXCEPT !.role = t.as]]
      BY <2>2 DEF RoleCommit
    <3>4. member[t.who].disabled \/ t.who \in Active(t.org) BY <1>1 DEF Active, MembersOf
    <3>5. QED BY <3>2, <3>3, <3>4
  <2>3. QED BY <2>1, <2>2
<1>5. /\ ownerOf' \in [Companies -> Users \cup {Nobody}]
      /\ \A c \in Companies : ownerOf[c] # Nobody => ownerOf'[c] # Nobody
  <2>1. CASE DisableCommit(t) BY <2>1 DEF DisableCommit, SeatInv
  <2>2. CASE RoleCommit(t)
    <3>1. PICK o \in Users : ownerOf' = [ownerOf EXCEPT ![t.org] = o]
      <4> DEFINE owners == OwnersAfter(t.org, t.who, t.as)
      <4>1. owners \subseteq Users BY <1>1 DEF OwnersAfter, OwnersIn, MembersOf
      <4>2. \E o \in NextOwner(t.org, owners) : ownerOf' = [ownerOf EXCEPT ![t.org] = o]
        BY <2>2 DEF RoleCommit
      <4> HIDE DEF owners
      <4>3. NextOwner(t.org, owners) \subseteq Users BY <4>1 DEF NextOwner
      <4>4. QED BY <4>2, <4>3
    <3>2. o # Nobody BY <3>1, AccountsAssumption
    <3>3. QED BY <1>1, <3>1, <3>2 DEF SeatInv
  <2>3. QED BY <2>1, <2>2
<1>6. Ready' /\ OneHolder' /\ OneJoin' BY <1>0, <1>1, <1>4, <1>5, OthersReady
<1>7. SeatsRespected' BY <1>1, <1>4, SeatsKept
<1>8. MembersOwned' /\ member' \in [Users -> Membership] BY <1>1, <1>3, <1>4, <1>5, OwnedKept
<1>9. QED BY <1>5, <1>6, <1>7, <1>8 DEF SeatInv

LEMMA CreateSeats ==
    ASSUME SeatInv, NEW c \in Companies, NEW u \in Users, CreateOrganization(c, u) PROVE SeatInv'
<1> DEFINE m == [org |-> c, role |-> "owner", disabled |-> FALSE]
<1>1. /\ member' = [member EXCEPT ![u] = m] /\ ownerOf' = [ownerOf EXCEPT ![c] = u] /\ tx' = tx
      /\ ownerOf[c] = Nobody /\ member[u] = NotMember /\ FreeSeat(c) /\ AccountFree(u)
  BY DEF CreateOrganization
<1>2. m \in Membership /\ m.org = c BY DEF Membership, OrgRoles
<1> HIDE DEF m
<1>3. /\ ownerOf' \in [Companies -> Users \cup {Nobody}] /\ ownerOf'[c] # Nobody
      /\ \A d \in Companies : ownerOf[d] # Nobody => ownerOf'[d] # Nobody
  BY <1>1, AccountsAssumption DEF SeatInv
<1>4. ASSUME NEW s \in tx' PROVE JoinReady(s)' /\ ActReady(s)'
  <2>1. s \in tx /\ JoinReady(s) /\ ActReady(s) BY <1>1, <1>4 DEF SeatInv, Ready
  <2>2. CASE s.kind = "join"
    <3>1. s.org # c /\ s.who # u BY <1>1, <2>1, <2>2 DEF JoinReady, AccountFree
    <3>2. QED BY <1>1, <1>2, <1>3, <2>1, <2>2, <3>1, StaysReady DEF HoldsOrg
  <2>3. CASE s.kind \in {"disable", "enable", "role"}
    <3>1. s.who \in Users /\ s.org \in Companies /\ member[s.who].org = s.org
      BY <2>1, <2>3 DEF ActReady
    <3>2. s.who # u BY <1>1, <3>1, NotMemberOrg
    <3>3. s.org # c BY <1>1, <3>1, NotMemberOrg DEF SeatInv, MembersOwned
    <3>4. QED BY <1>1, <1>2, <1>3, <2>1, <2>3, <3>2, <3>3, StaysReady DEF HoldsOrg
  <2>4. CASE s.kind \notin {"join", "disable", "enable", "role"}
    BY <2>4 DEF JoinReady, ActReady
  <2>5. QED BY <2>2, <2>3, <2>4
<1>5. SeatsRespected' BY <1>1, <1>2, SeatsKept
<1>6. MembersOwned' /\ member' \in [Users -> Membership] BY <1>1, <1>2, <1>3, OwnedKept
<1>7. OneHolder' /\ OneJoin' BY <1>1 DEF SeatInv, OneHolder, OneJoin, HoldsOrg
<1>8. QED BY <1>3, <1>4, <1>5, <1>6, <1>7 DEF SeatInv, Ready

LEMMA InitSeats == Init => SeatInv
<1> SUFFICES ASSUME Init PROVE SeatInv
  OBVIOUS
<1>1. member \in [Users -> Membership] /\ ownerOf \in [Companies -> Users \cup {Nobody}]
  BY NotMemberOrg DEF Init, InitAccounts
<1>2. OneHolder /\ OneJoin /\ MembersOwned /\ Ready
  BY DEF Init, InitAccounts, OneHolder, OneJoin, MembersOwned, Ready
<1>3. ASSUME NEW c \in Companies PROVE Cardinality(Active(c)) <= SeatLimit[c]
  <2>1. Active(c) = {} BY NotMemberOrg DEF Init, InitAccounts, Active, MembersOf
  <2>2. QED BY <2>1, FS_EmptySet, AccountsAssumption
<1>4. QED BY <1>1, <1>2, <1>3 DEF SeatInv, SeatsRespected

LEMMA NextSeats == SeatInv /\ [Next]_vars => SeatInv'
<1> SUFFICES ASSUME SeatInv, [Next]_vars PROVE SeatInv'
  OBVIOUS
<1>1. ASSUME NEW u \in Users, Begins(u) PROVE SeatInv'
  <2>1. ASSUME NEW b \in Books, NEW v \in Users, CreateBook(u, b) \/ AddDirect(u, b, v) PROVE SeatInv'
    BY <2>1, Ends1 DEF CreateBook, AddDirect
  <2>2. ASSUME NEW b \in Books, ImportBegin(u, b) PROVE SeatInv'
    <3> DEFINE t == [kind |-> "import", org |-> Home(u), who |-> u, book |-> b,
                     as |-> "none", read |-> {}]
    <3>1. tx' = tx \cup {t} /\ UNCHANGED <<member, ownerOf>>
      BY <2>2 DEF ImportBegin, Begin
    <3>2. JoinReady(t) /\ ActReady(t) /\ ~HoldsOrg(t) /\ t.kind # "join"
      BY DEF JoinReady, ActReady, HoldsOrg
    <3> HIDE DEF t
    <3>3. QED BY <3>1, <3>2, Begins1
  <2>3. ASSUME NEW b \in Books, NEW v \in Users, RemoveBegin(u, b, v) PROVE SeatInv'
    <3> DEFINE t == [kind |-> "remove", org |-> Nobody, who |-> v, book |-> b,
                     as |-> "none", read |-> {}]
    <3>1. tx' = tx \cup {t} /\ UNCHANGED <<member, ownerOf>>
      BY <2>3 DEF RemoveBegin, Begin
    <3>2. JoinReady(t) /\ ActReady(t) /\ ~HoldsOrg(t) /\ t.kind # "join"
      BY DEF JoinReady, ActReady, HoldsOrg
    <3> HIDE DEF t
    <3>3. QED BY <3>1, <3>2, Begins1
  <2>4. ASSUME NEW b \in Books, NEW on \in BOOLEAN, SwitchBegin(u, b, on) PROVE SeatInv'
    <3> DEFINE t == [kind |-> IF on THEN "wide" ELSE "private", org |-> place[b], who |-> u,
                     book |-> b, as |-> "none", read |-> IF on THEN MembersOf(place[b]) ELSE {}]
    <3>1. tx' = tx \cup {t} /\ UNCHANGED <<member, ownerOf>> /\ OrgFree(t.org)
      BY <2>4 DEF SwitchBegin, Begin
    <3>2. t.kind \in {"wide", "private"}
      OBVIOUS
    <3> HIDE DEF t
    <3>3. JoinReady(t) /\ ActReady(t) /\ t.kind # "join"
      BY <3>2 DEF JoinReady, ActReady
    <3>4. \A s \in tx : s.org = t.org => ~HoldsOrg(s)
      BY <3>1 DEF OrgFree, HoldsOrg
    <3>5. QED BY <3>1, <3>3, <3>4, Begins1
  <2>5. QED
    BY <1>1, <2>1, <2>2, <2>3, <2>4, CreateSeats, JoinBeginSeats, ActBeginSeats DEF Begins
<1>2. ASSUME NEW t \in tx, Ends(t) PROVE SeatInv'
  <2>1. ASSUME ImportCommit(t) \/ SwitchCommit(t) \/ RemoveCommit(t) \/ DeadlockVictim(t) PROVE SeatInv'
    BY <2>1, Ends1 DEF ImportCommit, SwitchCommit, RemoveCommit, DeadlockVictim, End
  <2>2. QED BY <1>2, <2>1, JoinCommitSeats, ActCommitSeats DEF Ends
<1>3. CASE UNCHANGED vars BY <1>3, Ends1 DEF vars
<1>4. QED BY <1>1, <1>2, <1>3 DEF Next

(* Two invitations, or an invitation and a re-enable, never share the last *)
(* seat (joinOrganizationInTx, actOnMember).                               *)
THEOREM NoSeatShared == Spec => []SeatsRespected
<1>1. SeatInv => SeatsRespected BY DEF SeatInv
<1>2. QED BY <1>1, InitSeats, NextSeats, PTL DEF Spec

---------------------------------------------------------------------------
(* Books.                                                                  *)

(* A default book is there from the creation of its company on, and only   *)
(* there, and it is org-wide.                                              *)
DefaultsPlaced ==
    \A c \in Companies : LET d == DefaultBook[c] IN
        IF ownerOf[c] = Nobody THEN place[d] = Unmade ELSE place[d] = c /\ wide[d]

WidesInCompanies == \A b \in Books : wide[b] => place[b] \in Companies
PlacesExist == \A b \in Books : place[b] \in Companies => ownerOf[place[b]] # Nobody
NoRowsUnmade == \A b \in Books : place[b] = Unmade => \A u \in Users : row[b][u] = NoRow

(* What a transaction has read of books is still so.                       *)
JoinAims(t) ==
    t.kind = "join" =>
        /\ OwnBooks(t.who) \cup OrgWideBooks(t.org) \subseteq t.read /\ t.read \subseteq Books
        /\ \A b \in t.read : place[b] = t.who \/ (place[b] = t.org /\ wide[b])
ImportAims(t) ==
    t.kind = "import" =>
        /\ t.who \in Users /\ t.org \in {t.who} \cup Companies
        /\ t.org \in Companies => ownerOf[t.org] # Nobody
        /\ t.book \in Books \ Defaults /\ place[t.book] = Unmade
SwitchAims(t) ==
    t.kind \in {"wide", "private"} =>
        /\ t.book \in Books /\ t.org \in Companies /\ place[t.book] = t.org
        /\ IF t.kind = "private" THEN t.book \notin Defaults ELSE t.read = MembersOf(t.org)
RemoveAims(t) ==
    t.kind = "remove" =>
        /\ t.who \in Users /\ t.book \in Books
        /\ \A c \in Companies : t.book = DefaultBook[c] => ownerOf[c] # Nobody /\ t.who \notin OwnersIn(c)
Aims == \A t \in tx : JoinAims(t) /\ ImportAims(t) /\ SwitchAims(t) /\ RemoveAims(t)
OneImport == \A t, s \in tx : t.kind = "import" /\ s.kind = "import" /\ t.book = s.book => t = s

BookInv ==
    /\ DefaultsPlaced /\ WidesInCompanies /\ PlacesExist /\ NoRowsUnmade
    /\ Aims /\ OneImport
    /\ NoBookLeftBehind /\ OwnersAgree /\ OrgRowsFollow

LEMMA Apart ==
    /\ \A u \in Users : u \notin Companies /\ u # Nobody /\ u # Unmade
    /\ \A c \in Companies : c # Nobody /\ c # Unmade /\ DefaultBook[c] \in Books
    /\ \A c, d \in Companies : DefaultBook[c] = DefaultBook[d] => c = d
    /\ \A b : b \in Defaults <=> \E c \in Companies : b = DefaultBook[c]
BY AccountsAssumption DEF Defaults

(* A transaction that begins and changes no row. *)
LEMMA BeginsBooks ==
    ASSUME BookInv, UNCHANGED <<member, ownerOf, place, wide, row>>, NEW t, tx' = tx \cup {t},
           JoinAims(t), ImportAims(t), SwitchAims(t), RemoveAims(t),
           t.kind = "import" => \A s \in tx : s.book # t.book
    PROVE  BookInv'
<1>1. Aims'
  <2>1. ASSUME NEW s \in tx' PROVE JoinAims(s)' /\ ImportAims(s)' /\ SwitchAims(s)' /\ RemoveAims(s)'
    <3>1. JoinAims(s) /\ ImportAims(s) /\ SwitchAims(s) /\ RemoveAims(s) BY <2>1 DEF BookInv, Aims
    <3>2. QED
      BY <3>1 DEF JoinAims, ImportAims, SwitchAims, RemoveAims, OwnBooks, OrgWideBooks, MembersOf, OwnersIn
  <2>2. QED BY <2>1 DEF Aims
<1>2. OneImport' BY DEF BookInv, OneImport
<1>3. QED
  BY <1>1, <1>2 DEF BookInv, DefaultsPlaced, WidesInCompanies, PlacesExist, NoRowsUnmade, NoBookLeftBehind,
     OwnersAgree, OrgRowsFollow, OwnBooks, OwnersIn, MembersOf

(* One that ends with none changed. *)
LEMMA EndsBooks ==
    ASSUME BookInv, UNCHANGED <<member, ownerOf, place, wide, row>>, tx' \subseteq tx
    PROVE  BookInv'
<1>1. Aims'
  <2>1. ASSUME NEW s \in tx' PROVE JoinAims(s)' /\ ImportAims(s)' /\ SwitchAims(s)' /\ RemoveAims(s)'
    <3>1. JoinAims(s) /\ ImportAims(s) /\ SwitchAims(s) /\ RemoveAims(s) BY <2>1 DEF BookInv, Aims
    <3>2. QED
      BY <3>1 DEF JoinAims, ImportAims, SwitchAims, RemoveAims, OwnBooks, OrgWideBooks, MembersOf, OwnersIn
  <2>2. QED BY <2>1 DEF Aims
<1>2. OneImport' BY DEF BookInv, OneImport
<1>3. QED
  BY <1>1, <1>2 DEF BookInv, DefaultsPlaced, WidesInCompanies, PlacesExist, NoRowsUnmade, NoBookLeftBehind,
     OwnersAgree, OrgRowsFollow, OwnBooks, OwnersIn, MembersOf

---------------------------------------------------------------------------
(* Types.                                                                  *)
Rows == [Books -> [Users -> Row]]

LEMMA RowValues ==
    /\ NoRow \in Row
    /\ \A as : BookRole(as) \in {"admin", "member"}
    /\ \A role \in OrgRoles, via \in {"direct", "org"} : [role |-> role, via |-> via] \in Row
    /\ \A r \in Row : r # NoRow => /\ r.role \in OrgRoles /\ r.via \in {"direct", "org"}
                                   /\ \A as : [r EXCEPT !.role = BookRole(as)] \in Row
BY DEF NoRow, Row, BookRole, OrgRoles

LEMMA JoinedRows ==
    ASSUME NEW rows \in Rows, NEW u \in Users, NEW as, NEW books PROVE Joined(rows, u, as, books) \in Rows
<1>1. [role |-> BookRole(as), via |-> "org"] \in Row BY DEF BookRole, Row, OrgRoles
<1>2. QED BY <1>1 DEF Joined, Rows

LEMMA SyncedRows ==
    ASSUME NEW rows \in Rows, NEW c \in Companies, NEW owners PROVE OwnerSync(rows, c, owners) \in Rows
<1>1. DefaultBook[c] \in Books BY Apart
<1>2. \A u \in Users : [role |-> "owner",
                        via |-> IF rows[DefaultBook[c]][u] = NoRow THEN "org" ELSE rows[DefaultBook[c]][u].via]
                       \in Row
  BY <1>1, RowValues DEF Rows, OrgRoles
<1>3. QED BY <1>1, <1>2 DEF OwnerSync, Rows

LEMMA RewrittenRows == ASSUME row \in Rows, NEW t PROVE Rewritten(t.org, t.who, t.as) \in Rows
<1>1. ASSUME NEW b \in Books, NEW u \in Users, <<b, u>> \in RowsOf(t)
      PROVE  [row[b][u] EXCEPT !.role = BookRole(t.as)] \in Row
  BY <1>1, RowValues DEF RowsOf, RowsByOrg, Rows
<1>2. QED BY <1>1 DEF Rewritten, Rows, RowsOf

LEMMA HomePlace == ASSUME SeatInv, NEW u \in Users PROVE Home(u) \in {u} \cup Companies
BY OrgOfMember DEF Home, SeatInv

LEMMA TypesKept == SeatInv /\ SeatInv' /\ BookInv /\ TypeOK /\ [Next]_vars => TypeOK'
<1> SUFFICES ASSUME SeatInv, SeatInv', BookInv, TypeOK, [Next]_vars PROVE TypeOK'
  OBVIOUS
<1>1. member' \in [Users -> Membership] /\ ownerOf' \in [Companies -> Users \cup {Nobody}]
  BY DEF SeatInv
<1>2. row \in Rows /\ MaxChanges \in Nat BY BoundsAssumption DEF TypeOK, Rows
<1>3. ASSUME place' \in [Books -> Users \cup Companies \cup {Unmade}], wide' \in [Books -> BOOLEAN],
             row' \in Rows, tx' \subseteq Tx, begun' \in 0..MaxChanges
      PROVE  TypeOK'
  BY <1>1, <1>3 DEF TypeOK, Rows
<1>4. ASSUME NEW t \in Tx, Begin(t), UNCHANGED <<member, ownerOf, place, wide, row>> PROVE TypeOK'
  BY <1>2, <1>3, <1>4 DEF Begin, TypeOK
<1>5. ASSUME NEW u \in Users, Begins(u) PROVE TypeOK'
  <2>1. ASSUME NEW c \in Companies, CreateOrganization(c, u) PROVE TypeOK'
    <3>1. [role |-> "owner", via |-> "direct"] \in Row BY DEF Row, OrgRoles
    <3>2. row' \in Rows BY <1>2, <2>1, <3>1, Apart DEF CreateOrganization, Rows
    <3>3. wide' \in [Books -> BOOLEAN] BY <2>1, Zenon DEF CreateOrganization, TypeOK
    <3>4. place' \in [Books -> Users \cup Companies \cup {Unmade}] BY <2>1 DEF CreateOrganization, TypeOK
    <3>5. tx' \subseteq Tx /\ begun' \in 0..MaxChanges BY <1>2, <2>1 DEF CreateOrganization, TypeOK
    <3>6. QED BY <1>3, <3>2, <3>3, <3>4, <3>5
  <2>2. ASSUME NEW c \in Companies, NEW as \in OrgRoles, JoinBegin(u, c, as) PROVE TypeOK'
    <3> DEFINE t == [kind |-> "join", org |-> c, who |-> u, book |-> Unmade, as |-> as,
                     read |-> OwnBooks(u) \cup OrgWideBooks(c)]
    <3>1. t \in Tx BY DEF Tx, Kinds, OwnBooks, OrgWideBooks
    <3>2. QED BY <1>4, <2>2, <3>1 DEF JoinBegin
  <2>3. ASSUME NEW b \in Books, CreateBook(u, b) PROVE TypeOK'
    <3>1. [role |-> "owner", via |-> "direct"] \in Row BY DEF Row, OrgRoles
    <3>2. row' \in Rows BY <1>2, <2>3, <3>1 DEF CreateBook, Rows
    <3>3. QED BY <1>2, <1>3, <2>3, <3>2, HomePlace DEF CreateBook, TypeOK
  <2>4. ASSUME NEW b \in Books, ImportBegin(u, b) PROVE TypeOK'
    <3> DEFINE t == [kind |-> "import", org |-> Home(u), who |-> u, book |-> b,
                     as |-> "none", read |-> {}]
    <3>1. t \in Tx BY HomePlace DEF Tx, Kinds
    <3>2. QED BY <1>4, <2>4, <3>1 DEF ImportBegin
  <2>5. ASSUME NEW b \in Books, NEW on \in BOOLEAN, SwitchBegin(u, b, on) PROVE TypeOK'
    <3> DEFINE t == [kind |-> IF on THEN "wide" ELSE "private", org |-> place[b], who |-> u, book |-> b,
                     as |-> "none", read |-> IF on THEN MembersOf(place[b]) ELSE {}]
    <3>1. t \in Tx BY <2>5 DEF SwitchBegin, Tx, Kinds, MembersOf
    <3>2. QED BY <1>4, <2>5, <3>1 DEF SwitchBegin
  <2>6. ASSUME NEW b \in Books, NEW v \in Users, AddDirect(u, b, v) PROVE TypeOK'
    <3>1. [role |-> "member", via |-> "direct"] \in Row BY DEF Row, OrgRoles
    <3>2. row' \in Rows BY <1>2, <2>6, <3>1 DEF AddDirect, Rows
    <3>3. QED BY <1>2, <1>3, <2>6, <3>2 DEF AddDirect, TypeOK
  <2>7. ASSUME NEW b \in Books, NEW v \in Users, RemoveBegin(u, b, v) PROVE TypeOK'
    <3> DEFINE t == [kind |-> "remove", org |-> Nobody, who |-> v, book |-> b,
                     as |-> "none", read |-> {}]
    <3>1. t \in Tx BY DEF Tx, Kinds
    <3>2. QED BY <1>4, <2>7, <3>1 DEF RemoveBegin
  <2>8. ASSUME NEW v \in Users, NEW kind \in {"disable", "enable", "role"}, NEW as \in OrgRoles \cup {"none"},
               ActBegin(u, v, kind, as)
        PROVE  TypeOK'
    <3> DEFINE t == [kind |-> kind, org |-> member[v].org, who |-> v, book |-> Unmade,
                     as |-> as, read |-> {}]
    <3>1. t \in Tx BY <2>8 DEF ActBegin, MayAct, Tx, Kinds
    <3>2. QED BY <1>4, <2>8, <3>1 DEF ActBegin
  <2>9. QED BY <1>5, <2>1, <2>2, <2>3, <2>4, <2>5, <2>6, <2>7, <2>8 DEF Begins
<1>6. ASSUME NEW t \in tx, Ends(t) PROVE TypeOK'
  <2>0. tx' \subseteq Tx /\ begun' = begun /\ t.who \in Users \cup {Nobody}
    BY <1>6 DEF Ends, JoinCommit, ImportCommit, SwitchCommit, RemoveCommit, DisableCommit, RoleCommit,
       DeadlockVictim, End, TypeOK, Tx
  <2>1. CASE JoinCommit(t)
    <3>1. t.kind = "join" /\ t.who \in Users /\ t.org \in Companies BY <2>1 DEF JoinCommit, SeatInv, Ready, JoinReady
    <3>2. row' \in Rows
      <4>1. Joined(row, t.who, t.as, {b \in t.read : place[b] = t.org}) \in Rows BY <1>2, <3>1, JoinedRows
      <4>2. QED BY <2>1, <3>1, <4>1, SyncedRows DEF JoinCommit
    <3>3. QED BY <1>2, <1>3, <2>0, <2>1, <3>1, <3>2 DEF JoinCommit, TypeOK
  <2>2. CASE ImportCommit(t)
    <3>1. t.who \in Users /\ t.org \in {t.who} \cup Companies /\ t.book \in Books
      BY <2>2 DEF ImportCommit, BookInv, Aims, ImportAims
    <3>2. [role |-> "owner", via |-> "direct"] \in Row BY DEF Row, OrgRoles
    <3>3. row' \in Rows BY <1>2, <2>2, <3>1, <3>2 DEF ImportCommit, Rows
    <3>4. Settled(t) \in Users \cup Companies BY <3>1, HomePlace DEF Settled
    <3>5. QED BY <1>2, <1>3, <2>0, <2>2, <3>3, <3>4 DEF ImportCommit, TypeOK
  <2>3. CASE SwitchCommit(t)
    <3>1. t.book \in Books BY <2>3 DEF SwitchCommit, BookInv, Aims, SwitchAims
    <3>2. \A as : [role |-> BookRole(as), via |-> "org"] \in Row BY DEF BookRole, Row, OrgRoles
    <3>3. row' \in Rows BY <1>2, <2>3, <3>1, <3>2, RowValues DEF SwitchCommit, Rows
    <3>4. (t.kind = "wide") \in BOOLEAN OBVIOUS
    <3>5. wide' \in [Books -> BOOLEAN] BY <2>3, <3>4 DEF SwitchCommit, TypeOK
    <3>6. QED BY <1>2, <1>3, <2>0, <2>3, <3>3, <3>5 DEF SwitchCommit, TypeOK
  <2>4. CASE RemoveCommit(t)
    <3>1. row' \in Rows BY <1>2, <2>4, RowValues DEF RemoveCommit, Rows
    <3>2. QED BY <1>2, <1>3, <2>0, <2>4, <3>1 DEF RemoveCommit, TypeOK
  <2>5. CASE DisableCommit(t) \/ DeadlockVictim(t)
    BY <1>2, <1>3, <2>0, <2>5 DEF DisableCommit, DeadlockVictim, TypeOK
  <2>6. CASE RoleCommit(t)
    <3>1. t.org \in Companies BY <2>6 DEF RoleCommit, SeatInv, Ready, ActReady
    <3>2. row' \in Rows
      <4>1. \E owners : row' = OwnerSync(Rewritten(t.org, t.who, t.as), t.org, owners) BY <2>6 DEF RoleCommit
      <4>2. QED BY <1>2, <3>1, <4>1, RewrittenRows, SyncedRows
    <3>3. QED BY <1>2, <1>3, <2>0, <2>6, <3>2 DEF RoleCommit, TypeOK
  <2>7. QED BY <1>6, <2>1, <2>2, <2>3, <2>4, <2>5, <2>6 DEF Ends
<1>7. CASE UNCHANGED vars BY <1>3, <1>7 DEF vars, TypeOK, Rows
<1>8. QED BY <1>5, <1>6, <1>7 DEF Next

---------------------------------------------------------------------------
(* Steps that change books.                                                *)
LEMMA MemberFields ==
    ASSUME SeatInv, NEW u \in Users
    PROVE  /\ member[u] = NotMember => member[u].org = Nobody /\ member[u].role = "none"
           /\ member[u] # NotMember => member[u].org \in Companies /\ ownerOf[member[u].org] # Nobody
BY OrgOfMember DEF SeatInv, MembersOwned, NotMember

(* What OrgWideReachesEveryone says of a step. *)
Reaches ==
    \A b \in Books : \A u \in Users :
        /\ wide'[b] /\ place'[b] \in Companies /\ member'[u].org = place'[b]
        /\ ~(wide[b] /\ member[u].org = place[b])
        => row'[b][u] # NoRow

LEMMA BookMade ==
    ASSUME TypeOK, SeatInv, BookInv, NEW u \in Users, NEW b \in Books \ Defaults, NEW p \in {u} \cup Companies,
           place[b] = Unmade, AccountFree(u), p = u => member[u] = NotMember,
           p \in Companies => ownerOf[p] # Nobody,
           place' = [place EXCEPT ![b] = p],
           row' = [row EXCEPT ![b][u] = [role |-> "owner", via |-> "direct"]],
           UNCHANGED <<member, ownerOf, wide>>, tx' \subseteq tx,
           \A s \in tx' : s.kind = "import" => s.book # b
    PROVE  BookInv' /\ Reaches
<1> USE Apart DEF BookInv
<1>1. /\ place'[b] = p /\ \A a \in Books \ {b} : place'[a] = place[a] /\ row'[a] = row[a]
      /\ row'[b][u] = [role |-> "owner", via |-> "direct"]
      /\ \A v \in Users \ {u} : row'[b][v] = NoRow
      /\ ~wide[b]
  BY DEF TypeOK, NoRowsUnmade, WidesInCompanies
<1>2. \A v \in Users : OwnBooks(v)' \subseteq OwnBooks(v) \cup (IF p = v THEN {b} ELSE {})
  BY <1>1 DEF OwnBooks
<1>3. \A c \in Companies : OrgWideBooks(c)' = OrgWideBooks(c) BY <1>1 DEF OrgWideBooks
<1>4. DefaultsPlaced' BY <1>1 DEF DefaultsPlaced
<1>5. WidesInCompanies' /\ PlacesExist' BY <1>1 DEF WidesInCompanies, PlacesExist
<1>6. NoRowsUnmade' BY <1>1 DEF NoRowsUnmade
<1>7. ASSUME NEW s \in tx' PROVE JoinAims(s)' /\ ImportAims(s)' /\ SwitchAims(s)' /\ RemoveAims(s)'
  <2>0. s \in tx /\ JoinAims(s) /\ ImportAims(s) /\ SwitchAims(s) /\ RemoveAims(s) BY <1>7 DEF Aims
  <2>1. JoinAims(s)'
    <3> SUFFICES ASSUME s.kind = "join" PROVE JoinAims(s)' BY DEF JoinAims
    <3>1. s.who \in Users \ {u} /\ s.org \in Companies
      BY <2>0 DEF SeatInv, Ready, JoinReady, AccountFree
    <3>2. b \notin s.read BY <2>0, <3>1 DEF JoinAims
    <3>3. QED BY <1>1, <1>2, <1>3, <2>0, <3>1, <3>2 DEF JoinAims, OwnBooks
  <2>2. ImportAims(s)' BY <1>1, <1>7, <2>0 DEF ImportAims
  <2>3. SwitchAims(s)' BY <1>1, <2>0 DEF SwitchAims, MembersOf
  <2>4. RemoveAims(s)' BY <2>0 DEF RemoveAims, OwnersIn, MembersOf
  <2>5. QED BY <2>1, <2>2, <2>3, <2>4
<1>8. NoBookLeftBehind' BY <1>2 DEF NoBookLeftBehind
<1>9. OwnersAgree' BY <1>1 DEF OwnersAgree, OwnersIn, MembersOf
<1>10. OrgRowsFollow' BY <1>1 DEF OrgRowsFollow, NoRow
<1>11. Reaches BY <1>1 DEF Reaches
<1>12. QED BY <1>4, <1>5, <1>6, <1>7, <1>8, <1>9, <1>10, <1>11 DEF Aims, OneImport

LEMMA SwitchBooks ==
    ASSUME TypeOK, SeatInv, BookInv, NEW t \in tx, SwitchCommit(t)
    PROVE  BookInv' /\ Reaches
<1> USE Apart DEF BookInv
<1>1. /\ t.book \in Books /\ t.org \in Companies /\ place[t.book] = t.org
      /\ t.kind = "private" => t.book \notin Defaults
      /\ t.kind = "wide" => t.read = MembersOf(t.org)
      /\ HoldsOrg(t) /\ tx' = tx \ {t}
      /\ t.kind \in {"wide", "private"}
      /\ UNCHANGED <<member, ownerOf, place>>
  BY DEF SwitchCommit, Aims, SwitchAims, HoldsOrg, End
<1>2. /\ \A b \in Books \ {t.book} : wide'[b] = wide[b] /\ row'[b] = row[b]
      /\ t.kind = "wide" => wide'[t.book]
  <2>1. wide' = [wide EXCEPT ![t.book] = t.kind = "wide"] BY DEF SwitchCommit
  <2>2. wide'[t.book] = (t.kind = "wide") BY <1>1, <2>1, Zenon DEF TypeOK
  <2>3. \A b \in Books \ {t.book} : wide'[b] = wide[b] BY <1>1, <2>1 DEF TypeOK
  <2>4. \A b \in Books \ {t.book} : row'[b] = row[b] BY <1>1 DEF SwitchCommit, TypeOK
  <2>5. QED BY <2>2, <2>3, <2>4
<1>3. \A u \in Users :
         row'[t.book][u] =
           IF t.kind = "private" THEN IF row[t.book][u].via = "org" THEN NoRow ELSE row[t.book][u]
           ELSE IF u \in t.read /\ row[t.book][u] = NoRow
                THEN [role |-> BookRole(member[u].role), via |-> "org"] ELSE row[t.book][u]
  BY <1>1 DEF SwitchCommit, TypeOK
<1>4. DefaultsPlaced' BY <1>1, <1>2 DEF DefaultsPlaced
<1>5. WidesInCompanies' /\ PlacesExist' BY <1>1, <1>2 DEF WidesInCompanies, PlacesExist
<1>6. NoRowsUnmade' BY <1>1, <1>2 DEF NoRowsUnmade
<1>7. ASSUME NEW s \in tx' PROVE JoinAims(s)' /\ ImportAims(s)' /\ SwitchAims(s)' /\ RemoveAims(s)'
  <2>0. /\ s \in tx /\ s # t
        /\ JoinAims(s) /\ ImportAims(s) /\ SwitchAims(s) /\ RemoveAims(s)
    BY <1>1, <1>7 DEF Aims
  <2>1. JoinAims(s)'
    <3> SUFFICES ASSUME s.kind = "join" PROVE JoinAims(s)' BY DEF JoinAims
    <3>1. s.who \in Users /\ s.org \in Companies BY <2>0 DEF SeatInv, Ready, JoinReady
    <3>2. s.org # t.org BY <1>1, <2>0 DEF SeatInv, OneHolder, HoldsOrg
    <3>3. OrgWideBooks(s.org)' = OrgWideBooks(s.org) BY <1>1, <1>2, <3>2 DEF OrgWideBooks
    <3>4. QED BY <1>1, <1>2, <2>0, <3>1, <3>2, <3>3 DEF JoinAims, OwnBooks
  <2>2. ImportAims(s)' BY <1>1, <2>0 DEF ImportAims
  <2>3. SwitchAims(s)' BY <1>1, <2>0 DEF SwitchAims, MembersOf
  <2>4. RemoveAims(s)' BY <1>1, <2>0 DEF RemoveAims, OwnersIn, MembersOf
  <2>5. QED BY <2>1, <2>2, <2>3, <2>4
<1>8. NoBookLeftBehind' BY <1>1 DEF NoBookLeftBehind, OwnBooks
<1>9. OwnersAgree'
  <2>1. ASSUME NEW c \in Companies, NEW u \in OwnersIn(c) PROVE row'[DefaultBook[c]][u].role = "owner"
    <3>1. u \in Users /\ row[DefaultBook[c]][u].role = "owner" BY DEF OwnersAgree, OwnersIn, MembersOf
    <3>2. row[DefaultBook[c]][u] # NoRow BY <3>1 DEF NoRow
    <3>3. QED BY <1>1, <1>2, <1>3, <3>1, <3>2
  <2>2. QED BY <1>1, <2>1 DEF OwnersAgree, OwnersIn, MembersOf
<1>10. OrgRowsFollow'
  <2>1. ASSUME NEW b \in Books, NEW u \in Users, row'[b][u].via = "org"
        PROVE  /\ wide'[b] /\ member[u].org = place[b]
               /\ row'[b][u].role \in {BookRole(member[u].role)} \cup
                                      (IF b \in Defaults THEN {member[u].role} ELSE {})
    <3>1. CASE b # t.book BY <1>2, <2>1, <3>1 DEF OrgRowsFollow
    <3>2. CASE b = t.book /\ t.kind = "private" BY <1>3, <2>1, <3>2 DEF NoRow
    <3>3. CASE b = t.book /\ t.kind = "wide" /\ row[b][u].via = "org"
      <4>1. row[b][u] # NoRow BY <3>3 DEF NoRow
      <4>2. t.kind # "private" BY <3>3
      <4>3. row'[b][u] = row[b][u] BY <1>3, <3>3, <4>1, <4>2
      <4>4. QED BY <1>2, <3>3, <4>3 DEF OrgRowsFollow
    <3>4. CASE b = t.book /\ t.kind = "wide" /\ row[b][u].via # "org"
      <4>1. u \in t.read /\ row'[b][u] = [role |-> BookRole(member[u].role), via |-> "org"]
        BY <1>3, <2>1, <3>4
      <4>2. member[u].org = place[b] BY <1>1, <3>4, <4>1 DEF MembersOf
      <4>3. QED BY <1>2, <3>4, <4>1, <4>2
    <3>5. QED BY <1>1, <3>1, <3>2, <3>3, <3>4
  <2>2. QED BY <1>1, <2>1 DEF OrgRowsFollow
<1>11. Reaches
  <2>1. ASSUME NEW b \in Books, NEW u \in Users, wide'[b], ~wide[b], member[u].org = place[b]
        PROVE  row'[b][u] # NoRow
    <3>1. b = t.book BY <1>2, <2>1
    <3>2. t.kind = "wide" BY <1>1, <2>1, <3>1, Zenon DEF SwitchCommit, TypeOK
    <3>3. u \in t.read BY <1>1, <2>1, <3>1, <3>2 DEF MembersOf
    <3>4. CASE row[b][u] = NoRow
      <4>1. row'[b][u] = [role |-> BookRole(member[u].role), via |-> "org"] BY <1>3, <3>1, <3>2, <3>3, <3>4
      <4>2. QED BY <4>1 DEF NoRow
    <3>5. CASE row[b][u] # NoRow BY <1>3, <3>1, <3>2, <3>3, <3>5
    <3>6. QED BY <3>4, <3>5
  <2>2. QED BY <1>1, <2>1 DEF Reaches
<1>12. QED BY <1>1, <1>4, <1>5, <1>6, <1>7, <1>8, <1>9, <1>10, <1>11 DEF Aims, OneImport

(* A row that is added directly, or removed where nobody's ownership of a *)
(* default book depends on it.                                            *)
LEMMA OneRowBooks ==
    ASSUME TypeOK, SeatInv, BookInv, NEW b \in Books, NEW v \in Users, NEW r \in Row,
           place[b] # Unmade \/ r = NoRow, r.via # "org",
           \A c \in Companies : b = DefaultBook[c] => v \notin OwnersIn(c) \/ row[b][v].role # "owner",
           row'[b][v] = r, \A a \in Books, w \in Users : a # b \/ w # v => row'[a][w] = row[a][w],
           UNCHANGED <<member, ownerOf, place, wide>>, tx' \subseteq tx
    PROVE  BookInv' /\ Reaches
<1> USE Apart DEF BookInv
<1>1. NoRowsUnmade' BY DEF NoRowsUnmade
<1>2. OwnersAgree' BY DEF OwnersAgree, OwnersIn, MembersOf
<1>3. OrgRowsFollow' BY DEF OrgRowsFollow
<1>4. Aims'
  <2>1. ASSUME NEW s \in tx' PROVE JoinAims(s)' /\ ImportAims(s)' /\ SwitchAims(s)' /\ RemoveAims(s)'
    <3>1. JoinAims(s) /\ ImportAims(s) /\ SwitchAims(s) /\ RemoveAims(s) BY <2>1 DEF Aims
    <3>2. QED
      BY <3>1 DEF JoinAims, ImportAims, SwitchAims, RemoveAims, OwnBooks, OrgWideBooks, MembersOf, OwnersIn
  <2>2. QED BY <2>1 DEF Aims
<1>5. QED
  BY <1>1, <1>2, <1>3, <1>4 DEF DefaultsPlaced, WidesInCompanies, PlacesExist, OneImport,
     NoBookLeftBehind, OwnBooks, Reaches

LEMMA CreateBooks ==
    ASSUME TypeOK, SeatInv, BookInv, NEW c \in Companies, NEW u \in Users, CreateOrganization(c, u)
    PROVE  BookInv' /\ Reaches
<1> USE Apart DEF BookInv
<1> DEFINE d == DefaultBook[c]
<1>1. /\ ownerOf[c] = Nobody /\ member[u] = NotMember /\ AccountFree(u)
      /\ d \in Books /\ place[d] = Unmade /\ ~wide[d]
      /\ UNCHANGED tx
  BY DEF CreateOrganization, DefaultsPlaced, WidesInCompanies
<1>2. /\ ownerOf'[c] = u /\ \A e \in Companies \ {c} : ownerOf'[e] = ownerOf[e]
      /\ member'[u] = [org |-> c, role |-> "owner", disabled |-> FALSE]
      /\ \A v \in Users \ {u} : member'[v] = member[v]
  BY DEF CreateOrganization, TypeOK
<1>3. \A b \in Books : place'[b] = IF b = d \/ place[b] = u THEN c ELSE place[b]
  BY DEF CreateOrganization
<1>4. wide'[d] /\ \A b \in Books \ {d} : wide'[b] = wide[b]
  BY DEF CreateOrganization, TypeOK
<1>5. /\ row'[d][u] = [role |-> "owner", via |-> "direct"]
      /\ \A b \in Books, v \in Users : b # d \/ v # u => row'[b][v] = row[b][v]
  BY <1>1 DEF CreateOrganization, TypeOK
<1>6. /\ \A v \in Users : member[v].org # c
      /\ \A b \in Books : place[b] # c
  BY <1>1, MemberFields DEF PlacesExist
<1>7. \A e \in Companies \ {c} : /\ OwnersIn(e)' = OwnersIn(e) /\ MembersOf(e)' = MembersOf(e)
                                 /\ OrgWideBooks(e)' = OrgWideBooks(e)
  <2>1. member[u].org = Nobody BY <1>1, MemberFields
  <2>2. ASSUME NEW e \in Companies \ {c}
        PROVE  /\ OwnersIn(e)' = OwnersIn(e) /\ MembersOf(e)' = MembersOf(e)
               /\ OrgWideBooks(e)' = OrgWideBooks(e)
    <3>1. MembersOf(e)' = MembersOf(e) BY <1>2, <2>1 DEF MembersOf
    <3>2. u \notin MembersOf(e) BY <2>1 DEF MembersOf
    <3>3. OwnersIn(e)' = OwnersIn(e) BY <1>2, <3>1, <3>2 DEF OwnersIn, MembersOf
    <3>4. OrgWideBooks(e)' = OrgWideBooks(e) BY <1>1, <1>3, <1>4 DEF OrgWideBooks
    <3>5. QED BY <3>1, <3>3, <3>4
  <2>3. QED BY <2>2
<1>8. OwnersIn(c)' = {u} BY <1>2, <1>6 DEF OwnersIn, MembersOf
<1>9. \A v \in Users : OwnBooks(v)' \subseteq OwnBooks(v) \ (IF v = u THEN Books ELSE {})
  BY <1>3 DEF OwnBooks
<1> HIDE DEF d
<1>10. DefaultsPlaced' BY <1>1, <1>2, <1>3, <1>4 DEF DefaultsPlaced, d
<1>11. WidesInCompanies' /\ PlacesExist' BY <1>1, <1>2, <1>3, <1>4 DEF WidesInCompanies, PlacesExist
<1>12. NoRowsUnmade' BY <1>3, <1>5 DEF NoRowsUnmade
<1>13. ASSUME NEW s \in tx' PROVE JoinAims(s)' /\ ImportAims(s)' /\ SwitchAims(s)' /\ RemoveAims(s)'
  <2>0. s \in tx /\ JoinAims(s) /\ ImportAims(s) /\ SwitchAims(s) /\ RemoveAims(s)
    BY <1>1, <1>13 DEF Aims
  <2>1. JoinAims(s)'
    <3> SUFFICES ASSUME s.kind = "join" PROVE JoinAims(s)' BY DEF JoinAims
    <3>1. s.who \in Users \ {u} /\ s.org \in Companies \ {c}
      BY <1>1, <2>0 DEF SeatInv, Ready, JoinReady, AccountFree
    <3>2. OwnBooks(s.who)' \cup OrgWideBooks(s.org)' \subseteq s.read
      BY <1>7, <1>9, <2>0, <3>1 DEF JoinAims
    <3>3. ASSUME NEW b \in s.read PROVE place'[b] = s.who \/ (place'[b] = s.org /\ wide'[b])
      <4>1. /\ b \in Books /\ b # d
            /\ place[b] = s.who \/ (place[b] = s.org /\ wide[b])
        BY <1>1, <2>0, <3>1 DEF JoinAims
      <4>2. QED BY <1>3, <1>4, <3>1, <4>1
    <3>4. QED BY <2>0, <3>2, <3>3 DEF JoinAims
  <2>2. ImportAims(s)' BY <1>1, <1>2, <1>3, <2>0 DEF ImportAims, d
  <2>3. SwitchAims(s)'
    <3> SUFFICES ASSUME s.kind \in {"wide", "private"} PROVE SwitchAims(s)' BY DEF SwitchAims
    <3>1. s.org \in Companies \ {c} /\ s.book \in Books /\ place[s.book] = s.org
      BY <1>6, <2>0 DEF SwitchAims
    <3>2. place'[s.book] = s.org BY <1>1, <1>3, <3>1
    <3>3. QED BY <1>7, <2>0, <3>1, <3>2 DEF SwitchAims
  <2>4. RemoveAims(s)' BY <1>1, <1>2, <1>7, <2>0 DEF RemoveAims
  <2>5. QED BY <2>1, <2>2, <2>3, <2>4
<1>14. NoBookLeftBehind'
  <2>1. OwnBooks(u)' = {} /\ \A v \in Users : OwnBooks(v)' \subseteq OwnBooks(v)
    <3>1. ASSUME NEW v \in Users PROVE OwnBooks(v)' \subseteq OwnBooks(v) \ (IF v = u THEN Books ELSE {})
      BY <1>9
    <3>2. \A v \in Users : OwnBooks(v) \subseteq Books BY DEF OwnBooks
    <3>3. QED BY <3>1, <3>2
  <2>2. ASSUME NEW v \in Users, member'[v] # NotMember PROVE OwnBooks(v)' = {}
    <3>1. CASE v = u BY <2>1, <3>1
    <3>2. CASE v # u BY <1>2, <2>1, <2>2, <3>2 DEF NoBookLeftBehind
    <3>3. QED BY <3>1, <3>2
  <2>3. QED BY <2>2 DEF NoBookLeftBehind
<1>15. OwnersAgree' BY <1>2, <1>5, <1>7, <1>8 DEF OwnersAgree, d, OwnersIn, MembersOf
<1>16. OrgRowsFollow'
  <2>1. ASSUME NEW b \in Books, NEW v \in Users, row'[b][v].via = "org"
        PROVE  /\ wide'[b] /\ member'[v].org = place'[b]
               /\ row'[b][v].role \in {BookRole(member'[v].role)} \cup
                                      (IF b \in Defaults THEN {member'[v].role} ELSE {})
    <3>1. row'[b][v] = row[b][v] /\ row[b][v].via = "org" BY <1>5, <2>1
    <3>2. wide[b] /\ member[v].org = place[b] /\ place[b] \in Companies
      BY <3>1 DEF OrgRowsFollow, WidesInCompanies
    <3>3. v # u /\ b # d BY <1>1, <3>2, MemberFields
    <3>4. place'[b] = place[b] /\ wide'[b] /\ member'[v] = member[v] BY <1>2, <1>3, <1>4, <3>2, <3>3
    <3>5. QED BY <3>1, <3>4 DEF OrgRowsFollow
  <2>2. QED BY <2>1 DEF OrgRowsFollow
<1>17. Reaches
  <2>1. ASSUME NEW b \in Books, NEW v \in Users, wide'[b], member'[v].org = place'[b],
               ~(wide[b] /\ member[v].org = place[b])
        PROVE  row'[b][v] # NoRow
    <3>1. CASE b = d
      <4>1. v = u BY <1>1, <1>2, <1>3, <1>6, <2>1, <3>1
      <4>2. QED BY <1>5, <3>1, <4>1 DEF NoRow
    <3>2. CASE b # d
      <4>1. wide[b] /\ place[b] \in Companies \ {c} BY <1>4, <1>6, <2>1, <3>2 DEF WidesInCompanies
      <4>2. place'[b] = place[b] BY <1>3, <3>2, <4>1
      <4>3. v # u BY <1>2, <2>1, <4>1, <4>2
      <4>4. QED BY <1>2, <2>1, <4>1, <4>2, <4>3
    <3>3. QED BY <3>1, <3>2
  <2>2. QED BY <2>1 DEF Reaches
<1>18. QED BY <1>1, <1>10, <1>11, <1>12, <1>13, <1>14, <1>15, <1>16, <1>17 DEF Aims, OneImport

LEMMA JoinBooks ==
    ASSUME TypeOK, SeatInv, BookInv, NEW t \in tx, JoinCommit(t)
    PROVE  BookInv' /\ Reaches
<1> USE Apart DEF BookInv
<1> DEFINE u == t.who
           c == t.org
           d == DefaultBook[c]
           wides == {b \in t.read : place[b] = c}
           joined == Joined(row, u, t.as, wides)
           owners == OwnersIn(c) \cup {u}
<1>1. /\ t.kind = "join" /\ tx' = tx \ {t}
      /\ u \in Users /\ c \in Companies /\ t.as \in OrgRoles
      /\ member[u] = NotMember /\ ownerOf[c] # Nobody
      /\ UNCHANGED <<ownerOf, wide>>
  BY DEF JoinCommit, End, SeatInv, Ready, JoinReady
<1>2. /\ OwnBooks(u) \cup OrgWideBooks(c) \subseteq t.read /\ t.read \subseteq Books
      /\ \A b \in t.read : place[b] = u \/ (place[b] = c /\ wide[b])
  BY <1>1 DEF Aims, JoinAims
<1>3. /\ member'[u] = [org |-> c, role |-> t.as, disabled |-> FALSE]
      /\ \A v \in Users \ {u} : member'[v] = member[v]
  BY <1>1 DEF JoinCommit, TypeOK
<1>4. \A b \in Books : place'[b] = IF b \in t.read THEN c ELSE place[b]
  BY DEF JoinCommit
<1>5. d \in Books /\ place[d] = c /\ wide[d] BY <1>1 DEF DefaultsPlaced
<1>6. \A b \in Books, v \in Users :
         joined[b][v] = IF b \in wides /\ v = u /\ row[b][u] = NoRow
                        THEN [role |-> BookRole(t.as), via |-> "org"] ELSE row[b][v]
  BY <1>1 DEF Joined, TypeOK
<1>7. joined \in Rows BY <1>1, JoinedRows DEF TypeOK, Rows
<1> HIDE DEF joined
<1>8. t.as = "owner" => row' = OwnerSync(joined, c, owners) BY DEF JoinCommit, joined
<1>81. ASSUME NEW b \in Books, NEW v \in Users, t.as = "owner" /\ b = d /\ v \in owners
       PROVE  row'[b][v].role = "owner"
  <2>1. row'[d][v] = [role |-> "owner", via |-> IF joined[d][v] = NoRow THEN "org" ELSE joined[d][v].via]
    BY <1>5, <1>7, <1>8, <1>81 DEF OwnerSync, Rows
  <2>2. QED BY <1>81, <2>1
<1>82. ASSUME NEW b \in Books, NEW v \in Users, ~(t.as = "owner" /\ b = d /\ v \in owners)
       PROVE  row'[b][v] = joined[b][v]
  <2>1. CASE t.as = "owner" BY <1>5, <1>7, <1>8, <1>82, <2>1 DEF OwnerSync, Rows
  <2>2. CASE t.as # "owner" BY <2>2 DEF JoinCommit, joined
  <2>3. QED BY <2>1, <2>2
<1>83. ASSUME NEW b \in Books, NEW v \in Users, row'[b][v] # NoRow PROVE b = d \/ b \in wides \/ row[b][v] # NoRow
  BY <1>6, <1>82, <1>83
<1>9. member[u].org = Nobody BY <1>1, MemberFields
<1>10. /\ OwnersIn(c)' = IF t.as = "owner" THEN owners ELSE OwnersIn(c)
       /\ \A e \in Companies \ {c} : /\ OwnersIn(e)' = OwnersIn(e) /\ MembersOf(e)' = MembersOf(e)
                                     /\ OrgWideBooks(e)' = OrgWideBooks(e)
  <2>1. \A e \in Companies : u \notin MembersOf(e) BY <1>9 DEF MembersOf
  <2>2. \A e \in Companies \ {c} : MembersOf(e)' = MembersOf(e) BY <1>3, <2>1 DEF MembersOf
  <2>3. \A e \in Companies \ {c} : OwnersIn(e)' = OwnersIn(e)
    BY <1>3, <2>1, <2>2 DEF OwnersIn, MembersOf
  <2>4. OwnersIn(c)' = IF t.as = "owner" THEN owners ELSE OwnersIn(c)
    <3>1. MembersOf(c)' = MembersOf(c) \cup {u} BY <1>1, <1>3, <2>1 DEF MembersOf
    <3>2. \A v \in MembersOf(c) : member'[v] = member[v] BY <1>1, <1>3, <2>1 DEF MembersOf
    <3>3. member'[u].role = t.as BY <1>3
    <3>4. QED BY <3>1, <3>2, <3>3 DEF OwnersIn
  <2>5. \A e \in Companies \ {c} : OrgWideBooks(e)' = OrgWideBooks(e)
    BY <1>1, <1>2, <1>4 DEF OrgWideBooks
  <2>6. QED BY <2>2, <2>3, <2>4, <2>5
<1>11. OwnBooks(u)' = {} /\ \A v \in Users \ {u} : OwnBooks(v)' \subseteq OwnBooks(v)
  BY <1>1, <1>2, <1>4 DEF OwnBooks
<1> HIDE DEF d
<1>12. DefaultsPlaced'
  <2>1. ASSUME NEW e \in Companies
        PROVE  IF ownerOf[e] = Nobody THEN place'[DefaultBook[e]] = Unmade
               ELSE place'[DefaultBook[e]] = e /\ wide[DefaultBook[e]]
    <3>1. place[DefaultBook[e]] \in {Unmade, e} /\ DefaultBook[e] \in Books BY DEF DefaultsPlaced
    <3>2. place'[DefaultBook[e]] = place[DefaultBook[e]] BY <1>1, <1>2, <1>4, <3>1
    <3>3. QED BY <3>2 DEF DefaultsPlaced
  <2>2. QED BY <1>1, <2>1 DEF DefaultsPlaced
<1>13. WidesInCompanies' /\ PlacesExist' BY <1>1, <1>4 DEF WidesInCompanies, PlacesExist
<1>14. NoRowsUnmade'
  <2>1. ASSUME NEW b \in Books, NEW v \in Users, row'[b][v] # NoRow PROVE place'[b] # Unmade
    <3>1. b = d \/ b \in wides \/ row[b][v] # NoRow BY <1>83, <2>1
    <3>2. place[b] # Unmade BY <1>1, <1>5, <3>1 DEF NoRowsUnmade
    <3>3. QED BY <1>1, <1>4, <3>2
  <2>2. QED BY <2>1 DEF NoRowsUnmade
<1>15. ASSUME NEW s \in tx' PROVE JoinAims(s)' /\ ImportAims(s)' /\ SwitchAims(s)' /\ RemoveAims(s)'
  <2>0. /\ s \in tx /\ s # t
        /\ JoinAims(s) /\ ImportAims(s) /\ SwitchAims(s) /\ RemoveAims(s)
    BY <1>1, <1>15 DEF Aims
  <2>00. HoldsOrg(s) => s.org # c BY <1>1, <2>0 DEF SeatInv, OneHolder, HoldsOrg
  <2>1. JoinAims(s)'
    <3> SUFFICES ASSUME s.kind = "join" PROVE JoinAims(s)' BY DEF JoinAims
    <3>1. s.who \in Users \ {u} /\ s.org \in Companies \ {c}
      BY <1>1, <2>0, <2>00 DEF SeatInv, Ready, JoinReady, OneJoin, HoldsOrg
    <3>2. OwnBooks(s.who)' \cup OrgWideBooks(s.org)' \subseteq s.read
      BY <1>10, <1>11, <2>0, <3>1 DEF JoinAims
    <3>3. ASSUME NEW b \in s.read PROVE place'[b] = s.who \/ (place'[b] = s.org /\ wide'[b])
      <4>1. b \in Books /\ (place[b] = s.who \/ (place[b] = s.org /\ wide[b]))
        BY <2>0 DEF JoinAims
      <4>2. QED BY <1>1, <1>2, <1>4, <3>1, <4>1
    <3>4. QED BY <2>0, <3>2, <3>3 DEF JoinAims
  <2>2. ImportAims(s)' BY <1>1, <1>2, <1>4, <2>0 DEF ImportAims
  <2>3. SwitchAims(s)'
    <3> SUFFICES ASSUME s.kind \in {"wide", "private"} PROVE SwitchAims(s)' BY DEF SwitchAims
    <3>1. s.org \in Companies \ {c} /\ s.book \in Books /\ place[s.book] = s.org
      BY <2>0, <2>00 DEF SwitchAims, HoldsOrg
    <3>2. place'[s.book] = s.org BY <1>1, <1>2, <1>4, <3>1
    <3>3. QED BY <1>10, <2>0, <3>1, <3>2 DEF SwitchAims
  <2>4. RemoveAims(s)'
    <3> SUFFICES ASSUME s.kind = "remove" PROVE RemoveAims(s)' BY DEF RemoveAims
    <3>1. t.as = "owner" => s.book # d BY <2>0 DEF JoinCommit, InsertsWait, d
    <3>2. QED BY <1>1, <1>10, <2>0, <3>1 DEF RemoveAims, d
  <2>5. QED BY <2>1, <2>2, <2>3, <2>4
<1>16. NoBookLeftBehind' BY <1>3, <1>11 DEF NoBookLeftBehind
<1>17. OwnersAgree'
  <2>1. ASSUME NEW e \in Companies, NEW v \in OwnersIn(e)' PROVE row'[DefaultBook[e]][v].role = "owner"
    <3>1. v \in Users BY DEF OwnersIn, MembersOf
    <3>2. CASE v \in OwnersIn(e)
      <4>1. row[DefaultBook[e]][v].role = "owner" BY <3>2 DEF OwnersAgree
      <4>2. row[DefaultBook[e]][v] # NoRow BY <4>1 DEF NoRow
      <4>3. joined[DefaultBook[e]][v] = row[DefaultBook[e]][v] BY <1>6, <3>1, <4>2
      <4>4. DefaultBook[e] \in Books OBVIOUS
      <4>5. CASE t.as = "owner" /\ DefaultBook[e] = d /\ v \in owners BY <1>81, <3>1, <4>5
      <4>6. CASE ~(t.as = "owner" /\ DefaultBook[e] = d /\ v \in owners)
        BY <1>82, <3>1, <4>1, <4>3, <4>4, <4>6
      <4>7. QED BY <4>5, <4>6
    <3>3. CASE v \notin OwnersIn(e)
      <4>1. e = c /\ t.as = "owner" /\ v \in owners BY <1>10, <2>1, <3>3
      <4>2. DefaultBook[e] \in Books /\ DefaultBook[e] = d BY <4>1 DEF d
      <4>3. QED BY <1>81, <3>1, <4>1, <4>2
    <3>4. QED BY <3>2, <3>3
  <2>2. \A e \in Companies : OwnersIn(e) \subseteq OwnersIn(e)' BY <1>10
  <2>3. QED BY <1>1, <2>1, <2>2 DEF OwnersAgree
<1>18. OrgRowsFollow'
  <2>1. ASSUME NEW b \in Books, NEW v \in Users, row'[b][v].via = "org"
        PROVE  /\ wide[b] /\ member'[v].org = place'[b]
               /\ row'[b][v].role \in {BookRole(member'[v].role)} \cup
                                      (IF b \in Defaults THEN {member'[v].role} ELSE {})
    <3>1. CASE t.as = "owner" /\ b = d /\ v \in owners
      <4>1. row'[b][v].role = "owner" BY <1>81, <3>1
      <4>2. member'[v].org = c /\ member'[v].role = "owner"
        BY <1>1, <1>3, <3>1, <1>10 DEF OwnersIn, MembersOf
      <4>3. place'[b] = c /\ b \in Defaults BY <1>1, <1>4, <1>5, <3>1 DEF d
      <4>4. QED BY <1>5, <3>1, <4>1, <4>2, <4>3
    <3>2. CASE /\ ~(t.as = "owner" /\ b = d /\ v \in owners)
               /\ b \in wides /\ v = u /\ row[b][u] = NoRow
      <4>1. row'[b][v] = [role |-> BookRole(t.as), via |-> "org"] BY <1>6, <1>82, <3>2
      <4>2. wide[b] BY <1>1, <1>2, <3>2
      <4>3. place'[b] = c BY <1>4, <3>2
      <4>4. member'[v].org = c /\ member'[v].role = t.as BY <1>3, <3>2
      <4>5. QED BY <4>1, <4>2, <4>3, <4>4
    <3>3. CASE /\ ~(t.as = "owner" /\ b = d /\ v \in owners)
               /\ ~(b \in wides /\ v = u /\ row[b][u] = NoRow)
      <4>1. row'[b][v] = row[b][v] BY <1>6, <1>82, <3>3
      <4>2. wide[b] /\ member[v].org = place[b] /\ place[b] \in Companies
        BY <2>1, <4>1 DEF OrgRowsFollow, WidesInCompanies
      <4>3. v # u BY <1>9, <4>2
      <4>4. place'[b] = place[b] BY <1>1, <1>2, <1>4, <4>2
      <4>5. QED BY <1>3, <2>1, <4>1, <4>2, <4>3, <4>4 DEF OrgRowsFollow
    <3>4. QED BY <3>1, <3>2, <3>3
  <2>2. QED BY <1>1, <2>1 DEF OrgRowsFollow
<1>19. Reaches
  <2>1. ASSUME NEW b \in Books, NEW v \in Users, wide[b], member'[v].org = place'[b], member[v].org # place[b]
        PROVE  row'[b][v] # NoRow
    <3>1. place[b] \in Companies BY <2>1 DEF WidesInCompanies
    <3>2. place'[b] = place[b] BY <1>1, <1>2, <1>4, <3>1
    <3>3. v = u BY <1>3, <2>1, <3>2
    <3>4. place[b] = c BY <1>3, <2>1, <3>2, <3>3
    <3>5. b \in wides BY <1>2, <2>1, <3>4 DEF OrgWideBooks
    <3>6. joined[b][v] # NoRow
      <4>1. CASE row[b][u] = NoRow
        <5>1. joined[b][v] = [role |-> BookRole(t.as), via |-> "org"] BY <1>6, <3>3, <3>5, <4>1
        <5>2. QED BY <5>1 DEF NoRow
      <4>2. CASE row[b][u] # NoRow BY <1>6, <3>3, <4>2
      <4>3. QED BY <4>1, <4>2
    <3>7. CASE t.as = "owner" /\ b = d /\ v \in owners
      <4>1. row'[b][v].role = "owner" BY <1>81, <3>7
      <4>2. QED BY <4>1 DEF NoRow
    <3>8. CASE ~(t.as = "owner" /\ b = d /\ v \in owners) BY <1>82, <3>6, <3>8
    <3>9. QED BY <3>7, <3>8
  <2>2. QED BY <1>1, <2>1 DEF Reaches
<1>20. QED BY <1>1, <1>12, <1>13, <1>14, <1>15, <1>16, <1>17, <1>18, <1>19 DEF Aims, OneImport

(* The rows are as they were, and who is in which company in which role. *)
LEMMA DisableBooks ==
    ASSUME TypeOK, SeatInv, BookInv, NEW t \in tx, DisableCommit(t)
    PROVE  BookInv' /\ Reaches
<1> USE Apart DEF BookInv
<1>1. /\ t.who \in Users /\ t.org \in Companies /\ member[t.who].org = t.org
      /\ tx' = tx \ {t} /\ UNCHANGED <<ownerOf, place, wide, row>>
  BY DEF DisableCommit, End, SeatInv, Ready, ActReady
<1>2. \A v \in Users : /\ member'[v].org = member[v].org /\ member'[v].role = member[v].role
                       /\ member'[v] # NotMember => member[v] # NotMember
  <2>1. member[t.who] \in Membership /\ member[t.who] # NotMember
    BY <1>1, MemberFields DEF TypeOK
  <2>2. member' = [member EXCEPT ![t.who].disabled = t.kind = "disable"] BY DEF DisableCommit
  <2>3. \A v \in Users \ {t.who} : member'[v] = member[v] BY <1>1, <2>2 DEF TypeOK
  <2>4. member'[t.who].org = member[t.who].org /\ member'[t.who].role = member[t.who].role
    BY <1>1, <2>1, <2>2 DEF TypeOK, Membership, NotMember
  <2>5. QED BY <2>1, <2>3, <2>4
<1>3. \A e : MembersOf(e)' = MembersOf(e) BY <1>2 DEF MembersOf
<1>4. \A e : OwnersIn(e)' = OwnersIn(e) BY <1>2, <1>3 DEF OwnersIn, MembersOf
<1>5. /\ \A v : OwnBooks(v)' = OwnBooks(v)
      /\ \A e : OrgWideBooks(e)' = OrgWideBooks(e)
  BY <1>1 DEF OwnBooks, OrgWideBooks
<1>6. Aims'
  <2>1. ASSUME NEW s \in tx' PROVE JoinAims(s)' /\ ImportAims(s)' /\ SwitchAims(s)' /\ RemoveAims(s)'
    <3>1. JoinAims(s) /\ ImportAims(s) /\ SwitchAims(s) /\ RemoveAims(s) BY <1>1, <2>1 DEF Aims
    <3>2. JoinAims(s)' BY <1>1, <1>5, <3>1 DEF JoinAims
    <3>3. ImportAims(s)' BY <1>1, <3>1 DEF ImportAims
    <3>4. SwitchAims(s)' BY <1>1, <1>3, <3>1 DEF SwitchAims
    <3>5. RemoveAims(s)' BY <1>1, <1>4, <3>1 DEF RemoveAims
    <3>6. QED BY <3>2, <3>3, <3>4, <3>5
  <2>2. QED BY <2>1 DEF Aims
<1>7. DefaultsPlaced' /\ WidesInCompanies' /\ PlacesExist' /\ NoRowsUnmade' /\ OneImport'
  BY <1>1 DEF DefaultsPlaced, WidesInCompanies, PlacesExist, NoRowsUnmade, OneImport
<1>8. NoBookLeftBehind' BY <1>2, <1>5 DEF NoBookLeftBehind
<1>9. OwnersAgree' BY <1>1, <1>4 DEF OwnersAgree
<1>10. OrgRowsFollow' BY <1>1, <1>2 DEF OrgRowsFollow
<1>11. Reaches BY <1>1, <1>2 DEF Reaches
<1>12. QED BY <1>6, <1>7, <1>8, <1>9, <1>10, <1>11

LEMMA RoleBooks ==
    ASSUME TypeOK, SeatInv, BookInv, NEW t \in tx, RoleCommit(t)
    PROVE  BookInv' /\ Reaches
<1> USE Apart DEF BookInv
<1> DEFINE u == t.who
           c == t.org
           d == DefaultBook[c]
           owners == OwnersAfter(c, u, t.as)
           rewritten == Rewritten(c, u, t.as)
<1>1. /\ u \in Users /\ c \in Companies /\ member[u].org = c /\ t.as \in OrgRoles
      /\ tx' = tx \ {t} /\ UNCHANGED <<place, wide>> /\ ~InsertsWait(d) /\ HoldsOrg(t)
  BY DEF RoleCommit, End, SeatInv, Ready, ActReady, HoldsOrg
<1>2. /\ member'[u].org = c /\ member'[u].role = t.as /\ member[u] # NotMember
      /\ \A v \in Users \ {u} : member'[v] = member[v]
  <2>1. member[u] \in Membership /\ member[u] # NotMember
    BY <1>1, MemberFields DEF TypeOK
  <2>2. member' = [member EXCEPT ![u].role = t.as] BY DEF RoleCommit
  <2>3. \A v \in Users \ {u} : member'[v] = member[v] BY <1>1, <2>2 DEF TypeOK
  <2>4. member'[u].org = c /\ member'[u].role = t.as
    BY <1>1, <2>1, <2>2 DEF TypeOK, Membership, NotMember
  <2>5. QED BY <2>1, <2>3, <2>4
<1>3. \A e : MembersOf(e)' = MembersOf(e) BY <1>1, <1>2 DEF MembersOf
<1>4. OwnersIn(c)' = owners /\ \A e \in Companies \ {c} : OwnersIn(e)' = OwnersIn(e)
  <2>1. OwnersIn(c)' = owners BY <1>1, <1>2, <1>3 DEF OwnersIn, MembersOf, OwnersAfter
  <2>2. \A e \in Companies \ {c} : OwnersIn(e)' = OwnersIn(e) BY <1>1, <1>2, <1>3 DEF OwnersIn, MembersOf
  <2>3. QED BY <2>1, <2>2
<1>5. owners \subseteq Users BY <1>1 DEF OwnersIn, MembersOf, OwnersAfter
<1>6. row' = OwnerSync(rewritten, c, owners) /\ \E o \in NextOwner(c, owners) : ownerOf' = [ownerOf EXCEPT ![c] = o]
  BY DEF RoleCommit
<1> HIDE DEF owners
<1>7. /\ ownerOf[c] # Nobody /\ ownerOf'[c] \in owners
      /\ \A e \in Companies \ {c} : ownerOf'[e] = ownerOf[e]
  <2>1. NextOwner(c, owners) \subseteq owners BY DEF NextOwner
  <2>2. QED BY <1>1, <1>2, <1>6, <2>1, MemberFields DEF TypeOK
<1>8. \A e \in Companies : ownerOf'[e] # Nobody <=> ownerOf[e] # Nobody BY <1>1, <1>5, <1>7
<1>9. d \in Books /\ place[d] = c /\ wide[d] BY <1>1, <1>7 DEF DefaultsPlaced
<1>10. rewritten \in Rows BY RewrittenRows DEF TypeOK, Rows
<1>11. ASSUME NEW b \in Books, NEW v \in Users
       PROVE  /\ <<b, v>> \in RowsOf(t) => rewritten[b][v] = [row[b][v] EXCEPT !.role = BookRole(t.as)]
              /\ <<b, v>> \notin RowsOf(t) => rewritten[b][v] = row[b][v]
  BY DEF Rewritten, RowsOf
<1>12. \A b \in Books, v \in Users :
          <<b, v>> \in RowsOf(t) <=> /\ v = u /\ place[b] = c /\ row[b][v] # NoRow
                                     /\ row[b][v].via = "org" \/ b \in Defaults
  BY DEF RowsOf, RowsByOrg
<1> HIDE DEF d, rewritten
<1>13. ASSUME NEW b \in Books, NEW v \in Users, b # d \/ v \notin owners PROVE row'[b][v] = rewritten[b][v]
  BY <1>6, <1>9, <1>10, <1>13 DEF OwnerSync, Rows, d
<1>14. ASSUME NEW v \in Users, v \in owners PROVE row'[d][v].role = "owner"
  <2>1. row'[d][v] = [role |-> "owner",
                      via |-> IF rewritten[d][v] = NoRow THEN "org" ELSE rewritten[d][v].via]
    BY <1>6, <1>9, <1>10, <1>14 DEF OwnerSync, Rows, d
  <2>2. QED BY <2>1
<1>15. DefaultsPlaced' BY <1>1, <1>8 DEF DefaultsPlaced
<1>16. WidesInCompanies' /\ PlacesExist' BY <1>1, <1>8 DEF WidesInCompanies, PlacesExist
<1>17. NoRowsUnmade'
  <2>1. ASSUME NEW b \in Books, NEW v \in Users, row'[b][v] # NoRow PROVE place[b] # Unmade
    <3>1. CASE b = d BY <1>1, <1>9, <3>1
    <3>2. CASE b # d
      <4>1. row'[b][v] = rewritten[b][v] BY <1>13, <3>2
      <4>2. row[b][v] # NoRow BY <1>11, <1>12, <2>1, <4>1
      <4>3. QED BY <4>2 DEF NoRowsUnmade
    <3>3. QED BY <3>1, <3>2
  <2>2. QED BY <1>1, <2>1 DEF NoRowsUnmade
<1>18. ASSUME NEW s \in tx' PROVE JoinAims(s)' /\ ImportAims(s)' /\ SwitchAims(s)' /\ RemoveAims(s)'
  <2>0. /\ s \in tx /\ s # t
        /\ JoinAims(s) /\ ImportAims(s) /\ SwitchAims(s) /\ RemoveAims(s)
    BY <1>1, <1>18 DEF Aims
  <2>1. JoinAims(s)' BY <1>1, <2>0 DEF JoinAims, OwnBooks, OrgWideBooks
  <2>2. ImportAims(s)' BY <1>1, <1>8, <2>0 DEF ImportAims
  <2>3. SwitchAims(s)' BY <1>1, <1>3, <2>0 DEF SwitchAims
  <2>4. RemoveAims(s)'
    <3> SUFFICES ASSUME s.kind = "remove" PROVE RemoveAims(s)' BY DEF RemoveAims
    <3>1. s.book # DefaultBook[c] BY <1>1, <2>0 DEF InsertsWait, d
    <3>2. QED BY <1>1, <1>4, <1>8, <2>0, <3>1 DEF RemoveAims
  <2>5. QED BY <2>1, <2>2, <2>3, <2>4
<1>19. NoBookLeftBehind' BY <1>1, <1>2 DEF NoBookLeftBehind, OwnBooks
<1>20. OwnersAgree'
  <2>1. ASSUME NEW e \in Companies, NEW v \in OwnersIn(e)' PROVE row'[DefaultBook[e]][v].role = "owner"
    <3>1. v \in Users BY DEF OwnersIn, MembersOf
    <3>2. CASE e = c BY <1>4, <1>14, <3>1, <3>2 DEF d
    <3>3. CASE e # c
      <4>1. DefaultBook[e] \in Books /\ DefaultBook[e] # d /\ place[DefaultBook[e]] # c
        BY <1>1, <3>3 DEF d, DefaultsPlaced
      <4>2. <<DefaultBook[e], v>> \notin RowsOf(t) BY <1>12, <3>1, <4>1
      <4>5. rewritten[DefaultBook[e]][v] = row[DefaultBook[e]][v] BY <1>11, <3>1, <4>1, <4>2
      <4>6. row'[DefaultBook[e]][v] = rewritten[DefaultBook[e]][v] BY <1>13, <3>1, <4>1
      <4>3. v \in OwnersIn(e) BY <1>4, <2>1, <3>3
      <4>4. QED BY <4>3, <4>5, <4>6 DEF OwnersAgree
    <3>4. QED BY <3>2, <3>3
  <2>2. ASSUME NEW e \in Companies, ownerOf'[e] # Nobody PROVE ownerOf'[e] \in OwnersIn(e)'
    BY <1>4, <1>7, <2>2 DEF OwnersAgree
  <2>3. QED BY <2>1, <2>2 DEF OwnersAgree
<1>21. OrgRowsFollow'
  <2>1. ASSUME NEW b \in Books, NEW v \in Users, row'[b][v].via = "org"
        PROVE  /\ wide[b] /\ member'[v].org = place[b]
               /\ row'[b][v].role \in {BookRole(member'[v].role)} \cup
                                      (IF b \in Defaults THEN {member'[v].role} ELSE {})
    <3>1. CASE b = d /\ v \in owners
      <4>1. row'[b][v].role = "owner" BY <1>14, <3>1
      <4>2. v \in OwnersIn(c)' BY <1>4, <3>1
      <4>3. member'[v].org = c /\ member'[v].role = "owner" BY <4>2 DEF OwnersIn, MembersOf
      <4>4. b \in Defaults BY <1>1, <3>1 DEF d
      <4>5. QED BY <1>9, <3>1, <4>1, <4>3, <4>4
    <3>2. CASE ~(b = d /\ v \in owners) /\ <<b, v>> \in RowsOf(t)
      <4>1. row'[b][v] = [row[b][v] EXCEPT !.role = BookRole(t.as)] BY <1>11, <1>13, <3>2
      <4>2. v = u /\ place[b] = c /\ row[b][v] # NoRow BY <1>12, <3>2
      <4>3. row[b][v] \in Row BY DEF TypeOK
      <4>4. row'[b][v].role = BookRole(t.as) /\ row[b][v].via = "org"
        BY <2>1, <4>1, <4>2, <4>3 DEF Row
      <4>5. wide[b] BY <4>4 DEF OrgRowsFollow
      <4>6. QED BY <1>2, <4>2, <4>4, <4>5
    <3>3. CASE ~(b = d /\ v \in owners) /\ <<b, v>> \notin RowsOf(t)
      <4>0. row'[b][v] = rewritten[b][v] BY <1>13, <3>3
      <4>1. row'[b][v] = row[b][v] BY <1>11, <3>3, <4>0
      <4>2. row[b][v] # NoRow BY <2>1, <4>1 DEF NoRow
      <4>3. wide[b] /\ member[v].org = place[b] BY <2>1, <4>1 DEF OrgRowsFollow
      <4>4. v # u BY <1>1, <1>12, <2>1, <3>3, <4>1, <4>2, <4>3
      <4>5. QED BY <1>2, <2>1, <4>1, <4>3, <4>4 DEF OrgRowsFollow
    <3>4. QED BY <3>1, <3>2, <3>3
  <2>2. QED BY <1>1, <2>1 DEF OrgRowsFollow
<1>22. OneImport' BY <1>1 DEF OneImport
<1>23. Reaches BY <1>1, <1>2 DEF Reaches
<1>24. QED BY <1>15, <1>16, <1>17, <1>18, <1>19, <1>20, <1>21, <1>22, <1>23 DEF Aims

LEMMA BookInit == Init => TypeOK /\ BookInv
<1> SUFFICES ASSUME Init PROVE TypeOK /\ BookInv
  OBVIOUS
<1> USE Apart
<1>1. /\ \A u \in Users : member[u].org = Nobody /\ member[u] = NotMember /\ member[u].role = "none"
      /\ \A b \in Books : /\ place[b] \in Users \cup {Unmade} /\ ~wide[b]
                          /\ \A u \in Users : row[b][u] = IF place[b] = u THEN [role |-> "owner", via |-> "direct"]
                                                          ELSE NoRow
      /\ \A b \in Defaults : place[b] = Unmade
      /\ \A c \in Companies : ownerOf[c] = Nobody
      /\ tx = {}
  BY DEF Init, InitAccounts, NotMember
<1>2. TypeOK
  <2>1. [role |-> "owner", via |-> "direct"] \in Row BY DEF Row, OrgRoles
  <2>2. row \in [Books -> [Users -> Row]] BY <2>1, RowValues DEF Init, InitAccounts
  <2>3. begun \in 0..MaxChanges BY BoundsAssumption DEF Init, InitAccounts
  <2>4. wide \in [Books -> BOOLEAN] /\ place \in [Books -> Users \cup Companies \cup {Unmade}] BY DEF Init, InitAccounts
  <2>5. member \in [Users -> Membership] /\ ownerOf \in [Companies -> Users \cup {Nobody}]
    BY NotMemberOrg DEF Init, InitAccounts
  <2>6. QED BY <1>1, <2>2, <2>3, <2>4, <2>5 DEF TypeOK
<1>3. DefaultsPlaced /\ WidesInCompanies /\ PlacesExist
  BY <1>1 DEF DefaultsPlaced, WidesInCompanies, PlacesExist
<1>4. NoRowsUnmade BY <1>1 DEF NoRowsUnmade
<1>5. Aims /\ OneImport BY <1>1 DEF Aims, OneImport
<1>6. NoBookLeftBehind BY <1>1 DEF NoBookLeftBehind
<1>7. OwnersAgree BY <1>1 DEF OwnersAgree, OwnersIn, MembersOf
<1>8. OrgRowsFollow
  <2>1. \A b \in Books, u \in Users : row[b][u].via # "org" BY <1>1 DEF NoRow
  <2>2. QED BY <2>1 DEF OrgRowsFollow
<1>9. QED BY <1>2, <1>3, <1>4, <1>5, <1>6, <1>7, <1>8 DEF BookInv

LEMMA BooksKept == SeatInv /\ TypeOK /\ BookInv /\ [Next]_vars => BookInv' /\ [Reaches]_vars
<1> SUFFICES ASSUME SeatInv, TypeOK, BookInv, [Next]_vars PROVE BookInv' /\ [Reaches]_vars
  OBVIOUS
<1> USE Apart
<1>1. ASSUME UNCHANGED <<member, place, wide>> PROVE Reaches BY <1>1 DEF Reaches
<1>2. ASSUME NEW u \in Users, Begins(u) PROVE BookInv' /\ Reaches
  <2>1. ASSUME NEW c \in Companies, NEW as \in OrgRoles, JoinBegin(u, c, as) PROVE BookInv' /\ Reaches
    <3> DEFINE t == [kind |-> "join", org |-> c, who |-> u, book |-> Unmade, as |-> as,
                     read |-> OwnBooks(u) \cup OrgWideBooks(c)]
    <3>1. tx' = tx \cup {t} /\ UNCHANGED <<member, ownerOf, place, wide, row>>
      BY <2>1 DEF JoinBegin, Begin
    <3>2. JoinAims(t) BY DEF JoinAims, OwnBooks, OrgWideBooks
    <3>3. ImportAims(t) /\ SwitchAims(t) /\ RemoveAims(t) /\ t.kind # "import"
      BY DEF ImportAims, SwitchAims, RemoveAims
    <3> HIDE DEF t
    <3>4. QED BY <1>1, <3>1, <3>2, <3>3, BeginsBooks
  <2>2. ASSUME NEW b \in Books, CreateBook(u, b) PROVE BookInv' /\ Reaches
    <3>1. Home(u) \in {u} \cup Companies BY HomePlace
    <3>2. Home(u) = u => member[u] = NotMember BY MemberFields DEF Home
    <3>3. Home(u) \in Companies => ownerOf[Home(u)] # Nobody BY MemberFields DEF Home
    <3>4. \A s \in tx' : s.kind = "import" => s.book # b BY <2>2 DEF CreateBook
    <3>5. QED BY <2>2, <3>1, <3>2, <3>3, <3>4, BookMade DEF CreateBook
  <2>3. ASSUME NEW b \in Books, ImportBegin(u, b) PROVE BookInv' /\ Reaches
    <3> DEFINE t == [kind |-> "import", org |-> Home(u), who |-> u, book |-> b,
                     as |-> "none", read |-> {}]
    <3>1. tx' = tx \cup {t} /\ UNCHANGED <<member, ownerOf, place, wide, row>>
      BY <2>3 DEF ImportBegin, Begin
    <3>2. Home(u) \in Companies => ownerOf[Home(u)] # Nobody BY MemberFields DEF Home
    <3>3. ImportAims(t) /\ \A s \in tx : s.book # t.book
      BY <2>3, <3>2, HomePlace DEF ImportAims, ImportBegin
    <3>4. JoinAims(t) /\ SwitchAims(t) /\ RemoveAims(t) BY DEF JoinAims, SwitchAims, RemoveAims
    <3> HIDE DEF t
    <3>5. QED BY <1>1, <3>1, <3>3, <3>4, BeginsBooks
  <2>4. ASSUME NEW b \in Books, NEW on \in BOOLEAN, SwitchBegin(u, b, on) PROVE BookInv' /\ Reaches
    <3> DEFINE t == [kind |-> IF on THEN "wide" ELSE "private", org |-> place[b], who |-> u, book |-> b,
                     as |-> "none", read |-> IF on THEN MembersOf(place[b]) ELSE {}]
    <3>1. tx' = tx \cup {t} /\ UNCHANGED <<member, ownerOf, place, wide, row>>
      BY <2>4 DEF SwitchBegin, Begin
    <3>2. SwitchAims(t) BY <2>4 DEF SwitchAims, SwitchBegin
    <3>3. JoinAims(t) /\ ImportAims(t) /\ RemoveAims(t) /\ t.kind # "import"
      BY DEF JoinAims, ImportAims, RemoveAims
    <3> HIDE DEF t
    <3>4. QED BY <1>1, <3>1, <3>2, <3>3, BeginsBooks
  <2>5. ASSUME NEW b \in Books, NEW v \in Users, AddDirect(u, b, v) PROVE BookInv' /\ Reaches
    <3>1. row[b][u] # NoRow /\ row[b][v].role # "owner" BY <2>5 DEF AddDirect, NoRow
    <3>2. place[b] # Unmade BY <3>1 DEF BookInv, NoRowsUnmade
    <3>0. PICK r : r = [role |-> "member", via |-> "direct"] OBVIOUS
    <3>3. r \in Row /\ r.via # "org" BY <3>0 DEF Row, OrgRoles
    <3>4. row'[b][v] = r /\ \A a \in Books, w \in Users : a # b \/ w # v => row'[a][w] = row[a][w]
      BY <2>5, <3>0 DEF AddDirect, TypeOK
    <3>5. UNCHANGED <<member, ownerOf, place, wide>> /\ tx' \subseteq tx BY <2>5 DEF AddDirect
    <3>6. QED BY <3>1, <3>2, <3>3, <3>4, <3>5, OneRowBooks
  <2>6. ASSUME NEW b \in Books, NEW v \in Users, RemoveBegin(u, b, v) PROVE BookInv' /\ Reaches
    <3> DEFINE t == [kind |-> "remove", org |-> Nobody, who |-> v, book |-> b,
                     as |-> "none", read |-> {}]
    <3>1. tx' = tx \cup {t} /\ UNCHANGED <<member, ownerOf, place, wide, row>>
      BY <2>6 DEF RemoveBegin, Begin
    <3>2. RemoveAims(t)
      <4>1. row[b][u] # NoRow BY <2>6 DEF RemoveBegin, NoRow
      <4>2. place[b] # Unmade BY <4>1 DEF BookInv, NoRowsUnmade
      <4>3. \A c \in Companies : b = DefaultBook[c] => ownerOf[c] # Nobody /\ place[b] = c
        BY <4>2 DEF BookInv, DefaultsPlaced
      <4>4. \A c \in Companies : b = DefaultBook[c] => v \notin OwnersIn(c)
        BY <2>6, <4>3 DEF RemoveBegin, MayRemove, OwnersIn, MembersOf
      <4>5. QED BY <4>3, <4>4 DEF RemoveAims
    <3>3. JoinAims(t) /\ ImportAims(t) /\ SwitchAims(t) /\ t.kind # "import"
      BY DEF JoinAims, ImportAims, SwitchAims
    <3> HIDE DEF t
    <3>4. QED BY <1>1, <3>1, <3>2, <3>3, BeginsBooks
  <2>7. ASSUME NEW v \in Users, NEW kind \in {"disable", "enable", "role"}, NEW as, ActBegin(u, v, kind, as)
        PROVE  BookInv' /\ Reaches
    <3> DEFINE t == [kind |-> kind, org |-> member[v].org, who |-> v, book |-> Unmade,
                     as |-> as, read |-> {}]
    <3>1. tx' = tx \cup {t} /\ UNCHANGED <<member, ownerOf, place, wide, row>>
      BY <2>7 DEF ActBegin, Begin
    <3>2. t.kind \in {"disable", "enable", "role"} OBVIOUS
    <3> HIDE DEF t
    <3>3. JoinAims(t) /\ ImportAims(t) /\ SwitchAims(t) /\ RemoveAims(t) /\ t.kind # "import"
      BY <3>2 DEF JoinAims, ImportAims, SwitchAims, RemoveAims
    <3>4. QED BY <1>1, <3>1, <3>3, BeginsBooks
  <2>8. QED BY <1>2, <2>1, <2>2, <2>3, <2>4, <2>5, <2>6, <2>7, CreateBooks DEF Begins
<1>3. ASSUME NEW t \in tx, Ends(t) PROVE BookInv' /\ Reaches
  <2>1. ASSUME ImportCommit(t) PROVE BookInv' /\ Reaches
    <3>1. /\ t.who \in Users /\ t.org \in {t.who} \cup Companies
          /\ t.org \in Companies => ownerOf[t.org] # Nobody
          /\ t.book \in Books \ Defaults /\ place[t.book] = Unmade /\ AccountFree(t.who) /\ tx' = tx \ {t}
          /\ t.kind = "import"
      BY <2>1 DEF ImportCommit, End, BookInv, Aims, ImportAims
    <3>2. Settled(t) \in {t.who} \cup Companies BY <3>1, HomePlace DEF Settled
    <3>3. Settled(t) = t.who => member[t.who] = NotMember BY <3>1, MemberFields DEF Settled, Home
    <3>4. Settled(t) \in Companies => ownerOf[Settled(t)] # Nobody
      BY <3>1, MemberFields DEF Settled, Home
    <3>5. \A s \in tx' : s.kind = "import" => s.book # t.book BY <3>1 DEF BookInv, OneImport
    <3>6. QED BY <2>1, <3>1, <3>2, <3>3, <3>4, <3>5, BookMade DEF ImportCommit
  <2>2. ASSUME RemoveCommit(t) PROVE BookInv' /\ Reaches
    <3>1. /\ t.who \in Users /\ t.book \in Books
          /\ \A c \in Companies : t.book = DefaultBook[c] => t.who \notin OwnersIn(c)
      BY <2>2 DEF RemoveCommit, BookInv, Aims, RemoveAims
    <3>2. NoRow \in Row /\ NoRow.via # "org" BY RowValues DEF NoRow
    <3>3. /\ row'[t.book][t.who] = NoRow
          /\ \A a \in Books, w \in Users : a # t.book \/ w # t.who => row'[a][w] = row[a][w]
      BY <2>2, <3>1 DEF RemoveCommit, TypeOK
    <3>4. UNCHANGED <<member, ownerOf, place, wide>> /\ tx' \subseteq tx BY <2>2 DEF RemoveCommit, End
    <3>5. QED BY <3>1, <3>2, <3>3, <3>4, OneRowBooks
  <2>3. ASSUME DeadlockVictim(t) PROVE BookInv' /\ Reaches
    BY <1>1, <2>3, EndsBooks DEF DeadlockVictim, End
  <2>4. QED BY <1>3, <2>1, <2>2, <2>3, JoinBooks, SwitchBooks, DisableBooks, RoleBooks DEF Ends
<1>4. CASE UNCHANGED vars BY <1>4, EndsBooks DEF vars
<1>5. QED BY <1>2, <1>3, <1>4 DEF Next

(* The three invariants together. *)
AccountsInv == SeatInv /\ TypeOK /\ BookInv

LEMMA AccountsKept == Spec => []AccountsInv /\ [][Reaches]_vars
<1>1. Init => AccountsInv BY InitSeats, BookInit DEF AccountsInv
<1>2. AccountsInv /\ [Next]_vars => AccountsInv' /\ [Reaches]_vars
  BY NextSeats, TypesKept, BooksKept DEF AccountsInv
<1>3. QED BY <1>1, <1>2, PTL DEF Spec

(* The types, which the invariants below rest on. *)
THEOREM TypeCorrect == Spec => []TypeOK
<1>1. AccountsInv => TypeOK BY DEF AccountsInv
<1>2. QED BY <1>1, AccountsKept, PTL

(* A join leaves no book behind in the personal organization: not one made *)
(* while it ran, nor one an import brought in across it (F169, F174).      *)
THEOREM JoinTakesEveryBook == Spec => []NoBookLeftBehind
<1>1. AccountsInv => NoBookLeftBehind BY DEF AccountsInv, BookInv
<1>2. QED BY <1>1, AccountsKept, PTL

(* Every owner of a company is an owner of its default book, and owner_id *)
(* is one of them (F141, F150, F153).                                      *)
THEOREM OwnersOfDefaultBook == Spec => []OwnersAgree
<1>1. AccountsInv => OwnersAgree BY DEF AccountsInv, BookInv
<1>2. QED BY <1>1, AccountsKept, PTL

(* A row granted through the organization is on an org-wide book of the    *)
(* person's company, in the role their org role gives (F178).              *)
THEOREM OrgRowsCorrect == Spec => []OrgRowsFollow
<1>1. AccountsInv => OrgRowsFollow BY DEF AccountsInv, BookInv
<1>2. QED BY <1>1, AccountsKept, PTL

(* Whoever becomes a member gets every org-wide book, and a book made      *)
(* org-wide reaches every member, however the two interleave (F178).       *)
THEOREM WideBooksReach == Spec => OrgWideReachesEveryone
BY AccountsKept DEF OrgWideReachesEveryone, Reaches

---------------------------------------------------------------------------
(* What the locks make of open transactions: what each was allowed by when *)
(* it began still holds.                                                   *)

(* A removal or a switch has its book's row to itself. *)
OnBook(t) == t.kind \in {"remove", "wide", "private"}
OneOnBook == \A t, s \in tx : OnBook(t) /\ OnBook(s) /\ t.book = s.book => t = s

(* A role change that is open beside a removal holds none of the owner rows *)
(* the removal has locked.                                                 *)
RoleBeside ==
    \A t, s \in tx : t.kind = "remove" /\ s.kind = "role" /\ <<t.book, s.who>> \in RowsOf(s)
                     => row[t.book][s.who].role # "owner"

RemoveReady(t) ==
    t.kind = "remove" =>
        /\ row[t.book][t.who] # NoRow
        /\ \E w \in Users \ {t.who} : row[t.book][w].role = "owner"
SwitchReady(t) ==
    t.kind \in {"wide", "private"} => t.who \in Users /\ row[t.book][t.who].role \in {"owner", "admin"}
ActAllowed(t) ==
    t.kind \in {"disable", "enable", "role"} =>
        /\ t.kind # "role" => t.as = "none"
        /\ \E a \in Users : MayAct(a, t.who, t.as)
ImportHome(t) == t.kind = "import" /\ t.org \in Companies => member[t.who].org = t.org
Claim(t) == RemoveReady(t) /\ SwitchReady(t) /\ ActAllowed(t) /\ ImportHome(t)

ClaimInv == OneOnBook /\ RoleBeside /\ \A t \in tx : Claim(t)

LEMMA RowsOfBook ==
    ASSUME NEW t, NEW b \in Books, NEW u
    PROVE  <<b, u>> \in RowsOf(t) <=> /\ u = t.who /\ place[b] = t.org /\ row[b][u] # NoRow
                                      /\ row[b][u].via = "org" \/ b \in Defaults
BY DEF RowsOf, RowsByOrg

(* A removal's book is a book with rows, its person a person. *)
LEMMA RemoveBook ==
    ASSUME AccountsInv, ClaimInv, NEW t \in tx, t.kind = "remove"
    PROVE  t.who \in Users /\ t.book \in Books /\ place[t.book] # Unmade
BY DEF AccountsInv, BookInv, Aims, RemoveAims, ClaimInv, Claim, RemoveReady, NoRowsUnmade

(* A transaction that begins and changes no row. *)
LEMMA BeginsClaims ==
    ASSUME AccountsInv, ClaimInv, UNCHANGED <<member, place, row>>, NEW t, tx' = tx \cup {t}, Claim(t),
           OnBook(t) => \A s \in tx : OnBook(s) => s.book # t.book,
           t.kind = "remove" => \A s \in tx : s.kind = "role" /\ <<t.book, s.who>> \in RowsOf(s)
                                              => row[t.book][s.who].role # "owner",
           t.kind = "role" => \A s \in tx : s.kind = "remove" /\ <<s.book, t.who>> \in RowsOf(t)
                                            => row[s.book][t.who].role # "owner"
    PROVE  ClaimInv'
<1>1. ASSUME NEW s \in tx' PROVE Claim(s)'
  <2>1. Claim(s) BY DEF ClaimInv
  <2>2. QED BY <2>1 DEF Claim, RemoveReady, SwitchReady, ActAllowed, MayAct, ImportHome
<1>2. OneOnBook' BY DEF ClaimInv, OneOnBook
<1>3. \A s : RowsOf(s)' = RowsOf(s) BY DEF RowsOf, RowsByOrg
<1>4. RoleBeside'
  <2>1. ASSUME NEW r \in tx', NEW s \in tx', r.kind = "remove", s.kind = "role", <<r.book, s.who>> \in RowsOf(s)
        PROVE  row[r.book][s.who].role # "owner"
    BY <2>1 DEF ClaimInv, RoleBeside
  <2>2. QED BY <1>3, <2>1 DEF RoleBeside
<1>5. QED BY <1>1, <1>2, <1>4 DEF ClaimInv

(* A step that leaves what the open transactions rest on. *)
LEMMA StaysClaimed ==
    ASSUME AccountsInv, ClaimInv, tx' \subseteq tx,
           \A s \in tx' : s.kind = "remove" => \A u \in Users :
               /\ row'[s.book][u] = NoRow <=> row[s.book][u] = NoRow
               /\ row'[s.book][u].role = "owner" <=> row[s.book][u].role = "owner"
               /\ row'[s.book][u].via = row[s.book][u].via,
           \A s \in tx' : s.kind \in {"wide", "private"} => \A u \in Users :
               row[s.book][u].role \in {"owner", "admin"} => row'[s.book][u].role \in {"owner", "admin"},
           \A s \in tx' : s.kind \in {"disable", "enable", "role"} => \A u \in Users :
               member[u].org = s.org => member'[u] = member[u],
           \A u \in Users : member[u] # NotMember => member'[u].org = member[u].org,
           \A s, r \in tx' : s.kind = "role" /\ r.kind = "remove" /\ place'[r.book] = s.org
                             => place[r.book] = s.org
    PROVE  ClaimInv'
<1>1. ASSUME NEW s \in tx' PROVE Claim(s)'
  <2>0. s \in tx /\ Claim(s) BY DEF ClaimInv
  <2>1. RemoveReady(s)'
    <3> SUFFICES ASSUME s.kind = "remove" PROVE RemoveReady(s)' BY DEF RemoveReady
    <3>1. s.who \in Users BY <2>0, RemoveBook
    <3>2. QED BY <2>0, <3>1 DEF Claim, RemoveReady
  <2>2. SwitchReady(s)' BY <2>0 DEF Claim, SwitchReady
  <2>3. ActAllowed(s)'
    <3> SUFFICES ASSUME s.kind \in {"disable", "enable", "role"} PROVE ActAllowed(s)' BY DEF ActAllowed
    <3>1. s.who \in Users /\ member[s.who].org = s.org
      BY <2>0 DEF AccountsInv, SeatInv, Ready, ActReady
    <3>2. PICK a \in Users : MayAct(a, s.who, s.as) BY <2>0 DEF Claim, ActAllowed
    <3>3. member[a].org = member[s.who].org BY <3>2 DEF MayAct
    <3>30. member'[a] = member[a] /\ member'[s.who] = member[s.who] BY <3>1, <3>3
    <3>4. MayAct(a, s.who, s.as)' BY <3>2, <3>30 DEF MayAct
    <3>5. QED BY <2>0, <3>4 DEF Claim, ActAllowed
  <2>4. ImportHome(s)'
    <3> SUFFICES ASSUME s.kind = "import", s.org \in Companies PROVE member'[s.who].org = s.org BY DEF ImportHome
    <3>1. s.who \in Users BY <2>0 DEF AccountsInv, BookInv, Aims, ImportAims
    <3>2. member[s.who].org = s.org BY <2>0 DEF Claim, ImportHome
    <3>3. member[s.who] # NotMember BY <3>2, NotMemberOrg
    <3>4. QED BY <3>1, <3>2, <3>3
  <2>5. QED BY <2>1, <2>2, <2>3, <2>4 DEF Claim
<1>2. OneOnBook' BY DEF ClaimInv, OneOnBook
<1>3. RoleBeside'
  <2>1. ASSUME NEW r \in tx', NEW s \in tx', r.kind = "remove", s.kind = "role", (<<r.book, s.who>> \in RowsOf(s))'
        PROVE  row'[r.book][s.who].role # "owner"
    <3>1. r.book \in Books /\ s.who \in Users
      BY <2>1, RemoveBook DEF AccountsInv, SeatInv, Ready, ActReady
    <3>2. /\ place'[r.book] = s.org /\ row'[r.book][s.who] # NoRow
          /\ row'[r.book][s.who].via = "org" \/ r.book \in Defaults
      BY <2>1, <3>1 DEF RowsOf, RowsByOrg
    <3>3. <<r.book, s.who>> \in RowsOf(s) BY <2>1, <3>1, <3>2, RowsOfBook
    <3>4. row[r.book][s.who].role # "owner" BY <2>1, <3>3 DEF ClaimInv, RoleBeside
    <3>5. QED BY <2>1, <3>1, <3>4
  <2>2. QED BY <2>1 DEF RoleBeside
<1>4. QED BY <1>1, <1>2, <1>3 DEF ClaimInv

(* A change of the organization's member sees the organization owned. *)
LEMMA ActOrg ==
    ASSUME AccountsInv, NEW s \in tx, s.kind \in {"disable", "enable", "role"}
    PROVE  s.who \in Users /\ s.org \in Companies /\ member[s.who].org = s.org /\ ownerOf[s.org] # Nobody
<1>1. s.who \in Users /\ s.org \in Companies /\ member[s.who].org = s.org
  BY DEF AccountsInv, SeatInv, Ready, ActReady
<1>2. member[s.who] # NotMember BY <1>1, NotMemberOrg
<1>3. QED BY <1>1, <1>2 DEF AccountsInv, SeatInv, MembersOwned

(* New rows on books that no open removal is about, and books in their     *)
(* places, leave every claim as it is.                                     *)
LEMMA InsertsClaims ==
    ASSUME AccountsInv, ClaimInv, tx' \subseteq tx,
           \A b \in Books, v \in Users : row'[b][v] # row[b][v] =>
               /\ row[b][v] = NoRow \/ row'[b][v].role = "owner"
               /\ \A s \in tx' : s.kind = "remove" => s.book # b,
           \A v \in Users : member[v] # NotMember => member'[v] = member[v],
           \A s, r \in tx' : s.kind = "role" /\ r.kind = "remove" /\ place'[r.book] = s.org
                             => place[r.book] = s.org
    PROVE  ClaimInv'
<1>1. ASSUME NEW s \in tx', s.kind = "remove", NEW v \in Users PROVE row'[s.book][v] = row[s.book][v]
  BY <1>1, RemoveBook
<1>2. ASSUME NEW s \in tx', s.kind \in {"wide", "private"}, NEW v \in Users,
             row[s.book][v].role \in {"owner", "admin"}
      PROVE  row'[s.book][v].role \in {"owner", "admin"}
  <2>1. s.book \in Books BY <1>2 DEF AccountsInv, BookInv, Aims, SwitchAims
  <2>2. row[s.book][v] # NoRow BY <1>2 DEF NoRow
  <2>3. QED BY <1>2, <2>1, <2>2
<1>3. ASSUME NEW s \in tx', s.kind \in {"disable", "enable", "role"}, NEW v \in Users, member[v].org = s.org
      PROVE  member'[v] = member[v]
  <2>1. member[v] # NotMember BY <1>3, ActOrg, NotMemberOrg
  <2>2. QED BY <2>1
<1>4. QED BY <1>1, <1>2, <1>3, StaysClaimed

LEMMA CreateClaims ==
    ASSUME AccountsInv, ClaimInv, NEW c \in Companies, NEW u \in Users, CreateOrganization(c, u)
    PROVE  ClaimInv'
<1> DEFINE d == DefaultBook[c]
<1>1. /\ tx' = tx /\ ownerOf[c] = Nobody /\ member[u] = NotMember /\ d \in Books
      /\ \A v \in Users \ {u} : member'[v] = member[v]
  BY Apart DEF CreateOrganization, AccountsInv, TypeOK
<1>2. place[d] = Unmade BY <1>1 DEF AccountsInv, BookInv, DefaultsPlaced
<1>3. \A b \in Books, v \in Users : b # d \/ v # u => row'[b][v] = row[b][v]
  BY <1>1 DEF CreateOrganization, AccountsInv, TypeOK
<1>4. \A b \in Books : place'[b] \in {place[b], c} BY DEF CreateOrganization
<1>5. ASSUME NEW b \in Books, NEW v \in Users, row'[b][v] # row[b][v]
      PROVE  /\ row[b][v] = NoRow
             /\ \A s \in tx' : s.kind = "remove" => s.book # b
  <2>1. b = d BY <1>3, <1>5
  <2>2. row[b][v] = NoRow BY <1>1, <1>2, <2>1 DEF AccountsInv, BookInv, NoRowsUnmade
  <2>3. QED BY <1>1, <1>2, <2>1, <2>2, RemoveBook
<1>6. ASSUME NEW s \in tx', NEW r \in tx', s.kind = "role", r.kind = "remove", place'[r.book] = s.org
      PROVE  place[r.book] = s.org
  BY <1>1, <1>4, <1>6, ActOrg, RemoveBook
<1>7. QED BY <1>1, <1>5, <1>6, InsertsClaims

LEMMA JoinClaims ==
    ASSUME AccountsInv, ClaimInv, NEW t \in tx, JoinCommit(t)
    PROVE  ClaimInv'
<1> DEFINE u == t.who
           c == t.org
           d == DefaultBook[c]
           wides == {b \in t.read : place[b] = c}
           joined == Joined(row, u, t.as, wides)
           owners == OwnersIn(c) \cup {u}
<1>1. /\ t.kind = "join" /\ tx' = tx \ {t}
      /\ u \in Users /\ c \in Companies /\ t.as \in OrgRoles /\ member[u] = NotMember
      /\ \A b \in wides : ~InsertsWait(b)
      /\ t.as = "owner" => ~InsertsWait(d)
  BY DEF JoinCommit, End, AccountsInv, SeatInv, Ready, JoinReady
<1>2. \A v \in Users \ {u} : member'[v] = member[v] BY <1>1 DEF JoinCommit, AccountsInv, TypeOK
<1>3. \A b \in Books : place'[b] \in {place[b], c} BY DEF JoinCommit
<1>4. d \in Books BY <1>1, Apart
<1>5. \A b \in Books, v \in Users :
         joined[b][v] = IF b \in wides /\ v = u /\ row[b][u] = NoRow
                        THEN [role |-> BookRole(t.as), via |-> "org"] ELSE row[b][v]
  BY <1>1 DEF Joined, AccountsInv, TypeOK
<1>6. joined \in Rows BY <1>1, JoinedRows DEF AccountsInv, TypeOK, Rows
<1> HIDE DEF joined
<1>7. row' = IF t.as = "owner" THEN OwnerSync(joined, c, owners) ELSE joined BY DEF JoinCommit, joined
<1>8. ASSUME NEW b \in Books, NEW v \in Users, row'[b][v] # joined[b][v]
      PROVE  t.as = "owner" /\ b = d /\ row'[b][v].role = "owner"
  <2>1. t.as = "owner" /\ row' = OwnerSync(joined, c, owners) BY <1>7, <1>8
  <2>2. row'[b] = IF b = d THEN [w \in Users |->
                        IF w \notin owners THEN joined[d][w]
                        ELSE [role |-> "owner",
                              via |-> IF joined[d][w] = NoRow THEN "org" ELSE joined[d][w].via]]
                  ELSE joined[b]
    BY <1>4, <1>6, <2>1 DEF OwnerSync, Rows
  <2>3. b = d /\ v \in owners BY <1>8, <2>2
  <2>4. row'[d][v] = [role |-> "owner",
                      via |-> IF joined[d][v] = NoRow THEN "org" ELSE joined[d][v].via]
    BY <2>2, <2>3
  <2>5. QED BY <2>1, <2>3, <2>4
<1>9. ASSUME NEW b \in Books, NEW v \in Users, row'[b][v] # row[b][v]
      PROVE  /\ row[b][v] = NoRow \/ row'[b][v].role = "owner"
             /\ \A s \in tx' : s.kind = "remove" => s.book # b
  <2>1. CASE row'[b][v] # joined[b][v] BY <1>1, <1>8, <2>1 DEF InsertsWait
  <2>2. CASE row'[b][v] = joined[b][v]
    <3>1. b \in wides /\ row[b][v] = NoRow BY <1>5, <1>9, <2>2
    <3>2. QED BY <1>1, <3>1 DEF InsertsWait
  <2>3. QED BY <2>1, <2>2
<1>10. ASSUME NEW s \in tx', NEW r \in tx', s.kind = "role", r.kind = "remove", place'[r.book] = s.org
       PROVE  place[r.book] = s.org
  <2>1. s.org # c BY <1>1, <1>10 DEF AccountsInv, SeatInv, OneHolder, HoldsOrg
  <2>2. QED BY <1>1, <1>3, <1>10, <2>1, RemoveBook
<1>11. QED BY <1>1, <1>2, <1>9, <1>10, InsertsClaims

LEMMA OnBookClaims ==
    ASSUME AccountsInv, ClaimInv, NEW t \in tx, SwitchCommit(t) \/ RemoveCommit(t)
    PROVE  ClaimInv'
<1>1. OnBook(t) /\ tx' = tx \ {t} /\ UNCHANGED <<member, place>>
  BY DEF SwitchCommit, RemoveCommit, End, OnBook
<1>2. \A b \in Books \ {t.book} : row'[b] = row[b] BY DEF SwitchCommit, RemoveCommit, AccountsInv, TypeOK
<1>3. ASSUME NEW s \in tx', OnBook(s) PROVE s.book \in Books \ {t.book}
  <2>1. s.book # t.book BY <1>1, <1>3 DEF ClaimInv, OneOnBook
  <2>2. s.book \in Books BY <1>1, <1>3 DEF AccountsInv, BookInv, Aims, SwitchAims, RemoveAims, OnBook
  <2>3. QED BY <2>1, <2>2
<1>4. \A s \in tx' : s.kind \in {"remove", "wide", "private"} => row'[s.book] = row[s.book]
  BY <1>2, <1>3 DEF OnBook
<1>5. QED BY <1>1, <1>4, StaysClaimed

LEMMA DisableClaims ==
    ASSUME AccountsInv, ClaimInv, NEW t \in tx, DisableCommit(t)
    PROVE  ClaimInv'
<1>1. /\ t.kind \in {"disable", "enable"} /\ tx' = tx \ {t} /\ UNCHANGED <<place, row>>
      /\ t.who \in Users /\ t.org \in Companies /\ member[t.who].org = t.org
  BY ActOrg DEF DisableCommit, End
<1>2. \A v \in Users \ {t.who} : member'[v] = member[v] BY DEF DisableCommit, AccountsInv, TypeOK
<1>3. member'[t.who].org = t.org
  <2>1. member[t.who] \in Membership BY <1>1 DEF AccountsInv, TypeOK
  <2>2. member'[t.who] = [member[t.who] EXCEPT !.disabled = (t.kind = "disable")]
    BY <1>1 DEF DisableCommit, AccountsInv, TypeOK
  <2>3. QED BY <1>1, <2>1, <2>2 DEF Membership, NotMember
<1>4. ASSUME NEW s \in tx', s.kind \in {"disable", "enable", "role"} PROVE s.org # t.org
  BY <1>1, <1>4 DEF AccountsInv, SeatInv, OneHolder, HoldsOrg
<1>5. \A s \in tx' : s.kind \in {"disable", "enable", "role"} => \A v \in Users :
          member[v].org = s.org => member'[v] = member[v]
  BY <1>1, <1>2, <1>4
<1>6. \A v \in Users : member[v] # NotMember => member'[v].org = member[v].org BY <1>1, <1>2, <1>3
<1>7. QED BY <1>1, <1>5, <1>6, StaysClaimed

LEMMA RoleClaims ==
    ASSUME AccountsInv, ClaimInv, NEW t \in tx, RoleCommit(t)
    PROVE  ClaimInv'
<1> DEFINE u == t.who
           c == t.org
           d == DefaultBook[c]
           owners == OwnersAfter(c, u, t.as)
           rewritten == Rewritten(c, u, t.as)
<1>1. /\ t.kind = "role" /\ tx' = tx \ {t} /\ UNCHANGED place /\ ~InsertsWait(d)
      /\ u \in Users /\ c \in Companies /\ member[u].org = c /\ ownerOf[c] # Nobody
  BY ActOrg DEF RoleCommit, End
<1>2. \A v \in Users \ {u} : member'[v] = member[v] BY DEF RoleCommit, AccountsInv, TypeOK
<1>3. member'[u].org = c
  <2>1. member[u] \in Membership BY <1>1 DEF AccountsInv, TypeOK
  <2>2. member'[u] = [member[u] EXCEPT !.role = t.as] BY <1>1 DEF RoleCommit, AccountsInv, TypeOK
  <2>3. QED BY <1>1, <2>1, <2>2 DEF Membership, NotMember
<1>4. d \in Books /\ place[d] = c BY <1>1, Apart DEF AccountsInv, BookInv, DefaultsPlaced
<1>5. rewritten \in Rows BY RewrittenRows DEF AccountsInv, TypeOK, Rows
<1>6. ASSUME NEW b \in Books, NEW v \in Users
      PROVE  rewritten[b][v] = IF <<b, v>> \in RowsOf(t) THEN [row[b][v] EXCEPT !.role = BookRole(t.as)]
                               ELSE row[b][v]
  BY DEF Rewritten, RowsOf
<1>7. row' = OwnerSync(rewritten, c, owners) BY DEF RoleCommit
<1> HIDE DEF rewritten, owners
<1>8. \A b \in Books \ {d} : row'[b] = rewritten[b] BY <1>4, <1>5, <1>7 DEF OwnerSync, Rows
<1>9. ASSUME NEW s \in tx', s.kind = "remove", NEW v \in Users
      PROVE  /\ row'[s.book][v] = NoRow <=> row[s.book][v] = NoRow
             /\ row'[s.book][v].role = "owner" <=> row[s.book][v].role = "owner"
             /\ row'[s.book][v].via = row[s.book][v].via
  <2>1. s \in tx /\ s.book \in Books /\ s.book # d BY <1>1, <1>9, RemoveBook DEF InsertsWait
  <2>2. row'[s.book][v] = rewritten[s.book][v] BY <1>8, <2>1
  <2>3. CASE <<s.book, v>> \notin RowsOf(t) BY <1>6, <2>1, <2>2, <2>3
  <2>4. CASE <<s.book, v>> \in RowsOf(t)
    <3>1. v = u /\ row[s.book][v] # NoRow BY <2>1, <2>4, RowsOfBook
    <3>2. row[s.book][v].role # "owner" BY <1>1, <1>9, <2>1, <2>4, <3>1 DEF ClaimInv, RoleBeside
    <3>3. row[s.book][v] \in Row BY <2>1 DEF AccountsInv, TypeOK
    <3>4. row'[s.book][v] = [row[s.book][v] EXCEPT !.role = BookRole(t.as)] BY <1>6, <2>1, <2>2, <2>4
    <3>5. row'[s.book][v].role = BookRole(t.as) /\ row'[s.book][v].via = row[s.book][v].via
      BY <3>3, <3>4 DEF Row, NoRow
    <3>6. row'[s.book][v] # NoRow /\ row'[s.book][v].role # "owner" BY <3>5, RowValues DEF NoRow
    <3>7. QED BY <3>1, <3>2, <3>5, <3>6
  <2>5. QED BY <2>3, <2>4
<1>10. ASSUME NEW s \in tx', s.kind \in {"wide", "private", "disable", "enable", "role"} PROVE s \in tx /\ s.org # c
  BY <1>1, <1>10 DEF AccountsInv, SeatInv, OneHolder, HoldsOrg
<1>11. ASSUME NEW s \in tx', s.kind \in {"wide", "private"}, NEW v \in Users
       PROVE  row'[s.book][v] = row[s.book][v]
  <2>1. s.book \in Books /\ place[s.book] # c BY <1>10, <1>11 DEF AccountsInv, BookInv, Aims, SwitchAims
  <2>2. <<s.book, v>> \notin RowsOf(t) BY <2>1, RowsOfBook
  <2>3. QED BY <1>4, <1>6, <1>8, <2>1, <2>2
<1>12. \A s \in tx' : s.kind \in {"disable", "enable", "role"} => \A v \in Users :
           member[v].org = s.org => member'[v] = member[v]
  BY <1>1, <1>2, <1>10
<1>13. \A v \in Users : member[v] # NotMember => member'[v].org = member[v].org BY <1>1, <1>2, <1>3
<1>14. QED BY <1>1, <1>9, <1>11, <1>12, <1>13, StaysClaimed

(* A new book, or one an import brings in. *)
LEMMA MadeClaims ==
    ASSUME AccountsInv, ClaimInv, NEW u \in Users, NEW b \in Books, NEW p, place[b] = Unmade, tx' \subseteq tx,
           place' = [place EXCEPT ![b] = p], member' = member,
           row' = [row EXCEPT ![b][u] = [role |-> "owner", via |-> "direct"]]
    PROVE  ClaimInv'
<1>1. \A a \in Books, v \in Users : row'[a][v] # row[a][v] => a = b BY DEF AccountsInv, TypeOK
<1>2. \A v \in Users : row[b][v] = NoRow BY DEF AccountsInv, BookInv, NoRowsUnmade
<1>3. \A s \in tx' : s.kind = "remove" => s.book # b BY RemoveBook
<1>4. \A a \in Books \ {b} : place'[a] = place[a] BY DEF AccountsInv, TypeOK
<1>5. \A r \in tx' : r.kind = "remove" => place'[r.book] = place[r.book] BY <1>3, <1>4, RemoveBook
<1>6. QED BY <1>1, <1>2, <1>3, <1>5, InsertsClaims

LEMMA ClaimsKept == AccountsInv /\ ClaimInv /\ [Next]_vars => ClaimInv'
<1> SUFFICES ASSUME AccountsInv, ClaimInv, [Next]_vars PROVE ClaimInv'
  OBVIOUS
<1>1. ASSUME NEW u \in Users, Begins(u) PROVE ClaimInv'
  <2>1. ASSUME NEW c \in Companies, NEW as \in OrgRoles, JoinBegin(u, c, as) PROVE ClaimInv'
    <3> DEFINE t == [kind |-> "join", org |-> c, who |-> u, book |-> Unmade, as |-> as,
                     read |-> OwnBooks(u) \cup OrgWideBooks(c)]
    <3>1. tx' = tx \cup {t} /\ UNCHANGED <<member, ownerOf, place, wide, row>>
      BY <2>1 DEF JoinBegin, Begin
    <3>2. t.kind = "join" OBVIOUS
    <3> HIDE DEF t
    <3>3. QED BY <3>1, <3>2, BeginsClaims
           DEF Claim, RemoveReady, SwitchReady, ActAllowed, ImportHome, OnBook
  <2>2. ASSUME NEW b \in Books, ImportBegin(u, b) PROVE ClaimInv'
    <3> DEFINE t == [kind |-> "import", org |-> Home(u), who |-> u, book |-> b,
                     as |-> "none", read |-> {}]
    <3>1. tx' = tx \cup {t} /\ UNCHANGED <<member, ownerOf, place, wide, row>>
      BY <2>2 DEF ImportBegin, Begin
    <3>2. t.kind = "import" /\ ImportHome(t) BY Apart DEF ImportHome, Home
    <3> HIDE DEF t
    <3>3. QED BY <3>1, <3>2, BeginsClaims DEF Claim, RemoveReady, SwitchReady, ActAllowed, OnBook
  <2>3. ASSUME NEW b \in Books, NEW on \in BOOLEAN, SwitchBegin(u, b, on) PROVE ClaimInv'
    <3> DEFINE t == [kind |-> IF on THEN "wide" ELSE "private", org |-> place[b], who |-> u, book |-> b,
                     as |-> "none", read |-> IF on THEN MembersOf(place[b]) ELSE {}]
    <3>1. /\ tx' = tx \cup {t} /\ UNCHANGED <<member, ownerOf, place, wide, row>>
          /\ row[b][u].role \in {"owner", "admin"}
      BY <2>3 DEF SwitchBegin, Begin
    <3>2. t.kind \in {"wide", "private"} /\ t.book = b /\ t.who = u OBVIOUS
    <3>3. \A s \in tx : OnBook(s) => s.book # b BY <2>3 DEF SwitchBegin, BookHeld, OnBook
    <3> HIDE DEF t
    <3>4. QED BY <3>1, <3>2, <3>3, BeginsClaims DEF Claim, RemoveReady, SwitchReady, ActAllowed, ImportHome
  <2>4. ASSUME NEW b \in Books, NEW v \in Users, RemoveBegin(u, b, v) PROVE ClaimInv'
    <3> DEFINE t == [kind |-> "remove", org |-> Nobody, who |-> v, book |-> b,
                     as |-> "none", read |-> {}]
    <3>1. tx' = tx \cup {t} /\ UNCHANGED <<member, ownerOf, place, wide, row>> /\ row[b][v] # NoRow
      BY <2>4 DEF RemoveBegin, Begin
    <3>2. t.kind = "remove" /\ t.book = b /\ t.who = v OBVIOUS
    <3>3. \A s \in tx : OnBook(s) => s.book # b BY <2>4 DEF RemoveBegin, BookHeld, OnBook
    <3>4. \E w \in Users \ {v} : row[b][w].role = "owner" BY <2>4 DEF RemoveBegin, MayRemove, BookOwners
    <3>5. ASSUME NEW s \in tx, s.kind = "role", <<b, s.who>> \in RowsOf(s) PROVE row[b][s.who].role # "owner"
      <4>1. s.who \in Users BY <3>5, ActOrg
      <4>2. QED BY <2>4, <3>5, <4>1 DEF RemoveBegin, RowHeld, BookOwners
    <3> HIDE DEF t
    <3>6. QED BY <3>1, <3>2, <3>3, <3>4, <3>5, BeginsClaims
           DEF Claim, RemoveReady, SwitchReady, ActAllowed, ImportHome
  <2>5. ASSUME NEW v \in Users, NEW kind \in {"disable", "enable", "role"}, NEW as, ActBegin(u, v, kind, as),
               kind # "role" => as = "none"
        PROVE  ClaimInv'
    <3> DEFINE t == [kind |-> kind, org |-> member[v].org, who |-> v, book |-> Unmade,
                     as |-> as, read |-> {}]
    <3>1. tx' = tx \cup {t} /\ UNCHANGED <<member, ownerOf, place, wide, row>> /\ MayAct(u, v, as)
      BY <2>5 DEF ActBegin, Begin
    <3>2. t.kind = kind /\ t.who = v /\ t.as = as /\ t.org = member[v].org OBVIOUS
    <3> HIDE DEF t
    <3>3. ASSUME NEW s \in tx, kind = "role", s.kind = "remove", <<s.book, v>> \in RowsOf(t)
          PROVE  row[s.book][v].role # "owner"
      BY <2>5, <3>2, <3>3, RemoveBook DEF ActBegin, RowsOf
    <3>4. ActAllowed(t) BY <2>5, <3>1, <3>2 DEF ActAllowed
    <3>5. QED BY <3>1, <3>2, <3>3, <3>4, BeginsClaims DEF Claim, RemoveReady, SwitchReady, ImportHome, OnBook
  <2>6. ASSUME NEW b \in Books, CreateBook(u, b) PROVE ClaimInv'
    BY <2>6, MadeClaims DEF CreateBook
  <2>7. ASSUME NEW b \in Books, NEW v \in Users, AddDirect(u, b, v) PROVE ClaimInv'
    <3>1. \A a \in Books, w \in Users : row'[a][w] # row[a][w] => a = b /\ w = v
      BY <2>7 DEF AddDirect, AccountsInv, TypeOK
    <3>2. row[b][v] = NoRow /\ UNCHANGED <<member, place, tx>> BY <2>7 DEF AddDirect
    <3>3. \A s \in tx' : s.kind = "remove" => s.book # b BY <2>7 DEF AddDirect, InsertsWait
    <3>4. QED BY <3>1, <3>2, <3>3, InsertsClaims
  <2>8. QED BY <1>1, <2>1, <2>2, <2>3, <2>4, <2>5, <2>6, <2>7, CreateClaims DEF Begins
<1>2. ASSUME NEW t \in tx, Ends(t) PROVE ClaimInv'
  <2>1. ASSUME ImportCommit(t) PROVE ClaimInv'
    <3>1. t.who \in Users /\ t.book \in Books /\ place[t.book] = Unmade
      BY <2>1 DEF ImportCommit, AccountsInv, BookInv, Aims, ImportAims
    <3>2. QED BY <2>1, <3>1, MadeClaims DEF ImportCommit, End
  <2>2. ASSUME DeadlockVictim(t) PROVE ClaimInv'
    BY <2>2, StaysClaimed DEF DeadlockVictim, End
  <2>3. QED BY <1>2, <2>1, <2>2, JoinClaims, OnBookClaims, DisableClaims, RoleClaims DEF Ends
<1>3. CASE UNCHANGED vars BY <1>3, StaysClaimed DEF vars
<1>4. QED BY <1>1, <1>2, <1>3 DEF Next

---------------------------------------------------------------------------
(* Each step is one of SerialAccounts, or none of its.                     *)
LEMMA SameOperators ==
    /\ Serial!NotMember = NotMember /\ Serial!NoRow = NoRow /\ Serial!Defaults = Defaults
    /\ Serial!OrgRoles = OrgRoles
    /\ \A as : Serial!BookRole(as) = BookRole(as)
    /\ \A u : Serial!OwnBooks(u) = OwnBooks(u) /\ Serial!Home(u) = Home(u)
    /\ \A c : /\ Serial!MembersOf(c) = MembersOf(c) /\ Serial!OwnersIn(c) = OwnersIn(c)
              /\ Serial!OrgWideBooks(c) = OrgWideBooks(c) /\ Serial!FreeSeat(c) = FreeSeat(c)
    /\ \A rows, c, owners : Serial!OwnerSync(rows, c, owners) = OwnerSync(rows, c, owners)
    /\ \A rows, u, as, books : Serial!Joined(rows, u, as, books) = Joined(rows, u, as, books)
    /\ \A b, v : Serial!MayRemove(b, v) = MayRemove(b, v)
    /\ \A a, u, as : Serial!MayAct(a, u, as) = MayAct(a, u, as)
    /\ \A c, u, as : /\ Serial!OwnersAfter(c, u, as) = OwnersAfter(c, u, as)
                     /\ Serial!Rewritten(c, u, as) = Rewritten(c, u, as)
    /\ \A c, owners : Serial!NextOwner(c, owners) = NextOwner(c, owners)
<1>1. /\ Serial!NotMember = NotMember /\ Serial!NoRow = NoRow /\ Serial!Defaults = Defaults
      /\ Serial!OrgRoles = OrgRoles
      /\ \A as : Serial!BookRole(as) = BookRole(as)
  BY DEF Serial!NotMember, NotMember, Serial!NoRow, NoRow, Serial!Defaults, Defaults,
         Serial!OrgRoles, OrgRoles, Serial!BookRole, BookRole
<1>2. \A u : Serial!OwnBooks(u) = OwnBooks(u) /\ Serial!Home(u) = Home(u)
  BY <1>1 DEF Serial!OwnBooks, OwnBooks, Serial!Home, Home
<1>3. \A c : /\ Serial!MembersOf(c) = MembersOf(c) /\ Serial!OwnersIn(c) = OwnersIn(c)
             /\ Serial!OrgWideBooks(c) = OrgWideBooks(c) /\ Serial!FreeSeat(c) = FreeSeat(c)
  <2>1. \A c : /\ Serial!MembersOf(c) = MembersOf(c) /\ Serial!OwnersIn(c) = OwnersIn(c)
               /\ Serial!OrgWideBooks(c) = OrgWideBooks(c) /\ Serial!Active(c) = Active(c)
    BY DEF Serial!MembersOf, MembersOf, Serial!OwnersIn, OwnersIn, Serial!OrgWideBooks, OrgWideBooks,
           Serial!Active, Active
  <2>2. \A S : Serial!Cardinality(S) = Cardinality(S)
    BY Zenon DEF Serial!Cardinality, Cardinality
  <2>3. QED BY <2>1, <2>2 DEF Serial!FreeSeat, FreeSeat
<1>4. \A rows, c, owners : Serial!OwnerSync(rows, c, owners) = OwnerSync(rows, c, owners)
  BY Zenon DEF Serial!OwnerSync, OwnerSync, Serial!NoRow, NoRow
<1>5. \A rows, u, as, books : Serial!Joined(rows, u, as, books) = Joined(rows, u, as, books)
  BY <1>1 DEF Serial!Joined, Joined
<1>6. \A b, v : Serial!MayRemove(b, v) = MayRemove(b, v)
  BY <1>1 DEF Serial!MayRemove, MayRemove, Serial!BookOwners, BookOwners
<1>7. \A a, u, as : Serial!MayAct(a, u, as) = MayAct(a, u, as) BY DEF Serial!MayAct, MayAct
<1>8. \A c, u, as : /\ Serial!OwnersAfter(c, u, as) = OwnersAfter(c, u, as)
                    /\ Serial!Rewritten(c, u, as) = Rewritten(c, u, as)
  <2>1. \A c, u, as : Serial!OwnersAfter(c, u, as) = OwnersAfter(c, u, as)
    BY <1>3 DEF Serial!OwnersAfter, OwnersAfter
  <2>2. \A c, u, as : Serial!Rewritten(c, u, as) = Rewritten(c, u, as)
    BY DEF Serial!Rewritten, Rewritten, Serial!RowsByOrg, RowsByOrg, Serial!BookRole, BookRole,
           Serial!NoRow, NoRow, Serial!Defaults, Defaults
  <2>3. QED BY <2>1, <2>2
<1>9. \A c, owners : Serial!NextOwner(c, owners) = NextOwner(c, owners)
  BY DEF Serial!NextOwner, NextOwner
<1>10. QED BY <1>1, <1>2, <1>3, <1>4, <1>5, <1>6, <1>7, <1>8, <1>9

LEMMA CreateSerial ==
    ASSUME AccountsInv, NEW c \in Companies, NEW u \in Users, CreateOrganization(c, u)
    PROVE  Serial!Found(c, u)
<1>1. place' = [b \in Books |-> IF b \in OwnBooks(u) \cup {DefaultBook[c]} THEN c ELSE place[b]]
  BY DEF CreateOrganization, OwnBooks
<1>2. QED BY <1>1, SameOperators DEF CreateOrganization, Serial!Found

(* The join moves and reaches what a join that ran alone would read.       *)
LEMMA JoinSerial ==
    ASSUME AccountsInv, NEW t \in tx, JoinCommit(t)
    PROVE  Serial!Join(t.who, t.org, t.as) /\ t.who \in Users /\ t.org \in Companies /\ t.as \in OrgRoles
<1> DEFINE u == t.who
           c == t.org
           wides == {b \in t.read : place[b] = c}
<1>1. /\ u \in Users /\ c \in Companies /\ t.as \in OrgRoles /\ u # c
      /\ member[u] = NotMember /\ ownerOf[c] # Nobody /\ FreeSeat(c)
  BY Apart DEF JoinCommit, AccountsInv, SeatInv, Ready, JoinReady
<1>2. /\ OwnBooks(u) \cup OrgWideBooks(c) \subseteq t.read /\ t.read \subseteq Books
      /\ \A b \in t.read : place[b] = u \/ (place[b] = c /\ wide[b])
  BY DEF JoinCommit, AccountsInv, BookInv, Aims, JoinAims
<1>3. wides = OrgWideBooks(c) BY <1>1, <1>2 DEF OrgWideBooks
<1>4. \A b \in Books : (IF b \in t.read THEN c ELSE place[b]) = (IF b \in OwnBooks(u) THEN c ELSE place[b])
  BY <1>2 DEF OwnBooks
<1>5. place' = [b \in Books |-> IF b \in OwnBooks(u) THEN c ELSE place[b]]
  BY <1>4 DEF JoinCommit
<1>6. QED BY <1>1, <1>3, <1>5, SameOperators DEF JoinCommit, Serial!Join

LEMMA MakeSerial ==
    ASSUME AccountsInv, NEW u \in Users, NEW b \in Books, CreateBook(u, b)
    PROVE  Serial!Make(u, b)
BY SameOperators DEF CreateBook, Serial!Make

(* The book settles where its owner is at the commit. *)
LEMMA ImportSerial ==
    ASSUME AccountsInv, ClaimInv, NEW t \in tx, ImportCommit(t)
    PROVE  Serial!Make(t.who, t.book) /\ t.who \in Users /\ t.book \in Books
<1>1. /\ t.who \in Users /\ t.org \in {t.who} \cup Companies
      /\ t.book \in Books \ Defaults /\ place[t.book] = Unmade
  BY DEF ImportCommit, AccountsInv, BookInv, Aims, ImportAims
<1>2. t.org # t.who => t.org = Home(t.who)
  BY <1>1, NotMemberOrg DEF ImportCommit, ClaimInv, Claim, ImportHome, Home
<1>3. Settled(t) = Home(t.who) BY <1>2 DEF Settled
<1>4. QED BY <1>1, <1>3, SameOperators DEF ImportCommit, Serial!Make

LEMMA SwitchSerial ==
    ASSUME AccountsInv, ClaimInv, NEW t \in tx, SwitchCommit(t)
    PROVE  t.book \in Books /\ (Serial!MakeOrgWide(t.book) \/ Serial!MakePrivate(t.book))
<1> DEFINE b == t.book
<1>1. /\ t.kind \in {"wide", "private"} /\ b \in Books /\ place[b] \in Companies
      /\ IF t.kind = "private" THEN b \notin Defaults ELSE t.read = MembersOf(place[b])
  BY DEF SwitchCommit, AccountsInv, BookInv, Aims, SwitchAims
<1>2. \E u \in Users : Serial!MayManage(u, b) BY <1>1 DEF ClaimInv, Claim, SwitchReady, Serial!MayManage
<1>3. CASE t.kind = "wide" BY <1>1, <1>2, <1>3, SameOperators DEF SwitchCommit, Serial!MakeOrgWide
<1>4. CASE t.kind = "private" BY <1>1, <1>2, <1>4, SameOperators DEF SwitchCommit, Serial!MakePrivate
<1>5. QED BY <1>1, <1>3, <1>4

LEMMA AddSerial ==
    ASSUME AccountsInv, NEW u \in Users, NEW b \in Books, NEW v \in Users, AddDirect(u, b, v)
    PROVE  Serial!Add(b, v)
BY SameOperators DEF AddDirect, Serial!Add, Serial!MayManage

(* A removal may still remove, and a member's row is still there. *)
LEMMA RemoveSerial ==
    ASSUME AccountsInv, ClaimInv, NEW t \in tx, RemoveCommit(t)
    PROVE  Serial!Remove(t.book, t.who) /\ t.who \in Users /\ t.book \in Books
<1>1. t.kind = "remove" /\ t.who \in Users /\ t.book \in Books BY RemoveBook DEF RemoveCommit
<1>2. /\ row[t.book][t.who] # NoRow
      /\ \E w \in Users \ {t.who} : row[t.book][w].role = "owner"
  BY <1>1 DEF ClaimInv, Claim, RemoveReady
<1>3. ASSUME NEW c \in Companies, t.book = DefaultBook[c]
      PROVE  ~(member[t.who].org = place[t.book] /\ member[t.who].role = "owner")
  BY <1>1, <1>3 DEF AccountsInv, BookInv, Aims, RemoveAims, DefaultsPlaced, OwnersIn, MembersOf
<1>4. MayRemove(t.book, t.who) BY <1>2, <1>3, Apart DEF MayRemove, BookOwners
<1>5. QED BY <1>1, <1>2, <1>4, SameOperators DEF RemoveCommit, Serial!Remove

LEMMA DisableSerial ==
    ASSUME AccountsInv, ClaimInv, NEW t \in tx, DisableCommit(t)
    PROVE  t.who \in Users /\ \E disabled \in BOOLEAN : Serial!SetDisabled(t.who, disabled)
<1>1. t.kind \in {"disable", "enable"} /\ t.who \in Users /\ member[t.who].org = t.org
  BY ActOrg DEF DisableCommit
<1>2. \E a \in Users : MayAct(a, t.who, "none") BY <1>1 DEF ClaimInv, Claim, ActAllowed
<1>3. t.kind = "enable" => ~member[t.who].disabled \/ FreeSeat(t.org)
  BY <1>1 DEF AccountsInv, SeatInv, Ready, ActReady
<1>4. Serial!SetDisabled(t.who, t.kind = "disable")
  BY <1>1, <1>2, <1>3, SameOperators DEF DisableCommit, Serial!SetDisabled
<1>5. (t.kind = "disable") \in BOOLEAN OBVIOUS
<1>6. QED BY <1>1, <1>4, <1>5

LEMMA RoleSerial ==
    ASSUME AccountsInv, ClaimInv, NEW t \in tx, RoleCommit(t)
    PROVE  Serial!SetRole(t.who, t.as) /\ t.who \in Users /\ t.as \in OrgRoles
<1>1. t.kind = "role" /\ t.who \in Users /\ member[t.who].org = t.org /\ t.as \in OrgRoles
  BY ActOrg DEF RoleCommit, AccountsInv, SeatInv, Ready, ActReady
<1>2. \E a \in Users : MayAct(a, t.who, t.as) BY <1>1 DEF ClaimInv, Claim, ActAllowed
<1>3. QED BY <1>1, <1>2, SameOperators DEF RoleCommit, Serial!SetRole

LEMMA StepsSerial == AccountsInv /\ ClaimInv /\ [Next]_vars => [Serial!Next]_(Serial!vars)
<1> SUFFICES ASSUME AccountsInv, ClaimInv, [Next]_vars
             PROVE  Serial!Next \/ UNCHANGED <<member, ownerOf, place, wide, row>>
  BY DEF Serial!vars
<1>0. Serial!OrgRoles = OrgRoles BY SameOperators
<1>1. ASSUME NEW u \in Users, Begins(u) PROVE Serial!Next \/ UNCHANGED <<member, ownerOf, place, wide, row>>
  <2>1. ASSUME NEW c \in Companies, CreateOrganization(c, u) PROVE Serial!Next
    BY <2>1, CreateSerial DEF Serial!Next
  <2>2. ASSUME NEW b \in Books, CreateBook(u, b) PROVE Serial!Next
    BY <2>2, MakeSerial DEF Serial!Next
  <2>3. ASSUME NEW b \in Books, NEW v \in Users, AddDirect(u, b, v) PROVE Serial!Next
    BY <2>3, AddSerial DEF Serial!Next
  <2>4. QED BY <1>1, <2>1, <2>2, <2>3 DEF Begins, JoinBegin, ImportBegin, SwitchBegin, RemoveBegin, ActBegin
<1>2. ASSUME NEW t \in tx, Ends(t) PROVE Serial!Next \/ UNCHANGED <<member, ownerOf, place, wide, row>>
  <2>1. CASE JoinCommit(t) BY <1>0, <2>1, JoinSerial DEF Serial!Next
  <2>2. CASE ImportCommit(t) BY <2>2, ImportSerial DEF Serial!Next
  <2>3. CASE SwitchCommit(t) BY <2>3, SwitchSerial DEF Serial!Next
  <2>4. CASE RemoveCommit(t) BY <2>4, RemoveSerial DEF Serial!Next
  <2>5. CASE DisableCommit(t) BY <2>5, DisableSerial DEF Serial!Next
  <2>6. CASE RoleCommit(t) BY <1>0, <2>6, RoleSerial DEF Serial!Next
  <2>7. CASE DeadlockVictim(t) BY <2>7 DEF DeadlockVictim
  <2>8. QED BY <1>2, <2>1, <2>2, <2>3, <2>4, <2>5, <2>6, <2>7 DEF Ends
<1>3. CASE UNCHANGED vars BY <1>3 DEF vars
<1>4. QED BY <1>1, <1>2, <1>3 DEF Next

LEMMA ClaimsHold == Spec => []ClaimInv
<1>1. Init => ClaimInv BY DEF Init, ClaimInv, OneOnBook, RoleBeside
<1>2. QED BY <1>1, AccountsKept, ClaimsKept, PTL DEF Spec

(* The locks make the requests run one at a time: each acts at its commit  *)
(* on what it read and was allowed by when it began, and both still hold.  *)
THEOREM RequestsRunAlone == Spec => ImplementsSerial
<1>1. Init => Serial!InitAccounts
  BY DEF Init, InitAccounts, Serial!InitAccounts, Serial!NotMember, NotMember, Serial!NoRow, NoRow,
         Serial!Defaults, Defaults
<1>2. QED BY <1>1, AccountsKept, ClaimsHold, StepsSerial, PTL DEF Spec, ImplementsSerial, Serial!Spec
=============================================================================
