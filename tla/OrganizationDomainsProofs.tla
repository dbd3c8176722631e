--------------------- MODULE OrganizationDomainsProofs ----------------------
(* Theorems about OrganizationDomains, for any organizations, accounts and *)
(* requests, and for any periods that satisfy DomainsAssumption.           *)
EXTENDS OrganizationDomains, TLAPS

---------------------------------------------------------------------------
(* The two kinds of claim.                                                 *)
LEMMA PendingFields == ASSUME NEW a, NEW j
    PROVE Pending(a, j).status = "pending" /\ Pending(a, j).issued = a /\ Pending(a, j).auto = j
BY DEF Pending

LEMMA VerifiedFields == ASSUME NEW c, NEW f, NEW j
    PROVE  /\ Verified(c, f, j).status = "verified" /\ Verified(c, f, j).checked = c
           /\ Verified(c, f, j).failing = f /\ Verified(c, f, j).auto = j
BY DEF Verified

LEMMA PendingExcept == ASSUME NEW a, NEW j, NEW x, NEW y
    PROVE  /\ [Pending(a, j) EXCEPT !.issued = x] = Pending(x, j)
           /\ [Pending(a, j) EXCEPT !.auto = y] = Pending(a, y)
BY DEF Pending

LEMMA VerifiedExcept == ASSUME NEW c, NEW f, NEW j, NEW y
    PROVE  [Verified(c, f, j) EXCEPT !.auto = y] = Verified(c, f, y)
BY DEF Verified

PendingRec(k) ==
    /\ k.status = "pending" /\ k.issued \in 0..TokenDays + 1 /\ k.auto \in BOOLEAN
    /\ k = Pending(k.issued, k.auto)

VerifiedRec(k) ==
    /\ k.status = "verified" /\ k.checked \in 0..FreshDays /\ k.auto \in BOOLEAN
    /\ k.failing \in {Never} \cup 0..GraceDays + 1
    /\ k = Verified(k.checked, k.failing, k.auto)

LEMMA ClaimCases == ASSUME NEW k \in Claim
    PROVE  k = NoClaim \/ PendingRec(k) \/ VerifiedRec(k)
<1>1. CASE k \in {Pending(a, j) : a \in 0..TokenDays + 1, j \in BOOLEAN}
  <2>1. PICK a \in 0..TokenDays + 1, j \in BOOLEAN : k = Pending(a, j) BY <1>1
  <2>2. QED BY <2>1, PendingFields DEF PendingRec
<1>2. CASE k \in {Verified(c, f, j) : c \in 0..FreshDays,
                                      f \in {Never} \cup 0..GraceDays + 1, j \in BOOLEAN}
  <2>1. PICK c \in 0..FreshDays, f \in {Never} \cup 0..GraceDays + 1, j \in BOOLEAN :
          k = Verified(c, f, j)
    BY <1>2
  <2>2. QED BY <2>1, VerifiedFields DEF VerifiedRec
<1>3. QED BY <1>1, <1>2 DEF Claim

LEMMA PendingIsClaim == ASSUME NEW a \in 0..TokenDays + 1, NEW j \in BOOLEAN
    PROVE  Pending(a, j) \in Claim
BY DEF Claim

LEMMA VerifiedIsClaim ==
    ASSUME NEW c \in 0..FreshDays, NEW f \in {Never} \cup 0..GraceDays + 1, NEW j \in BOOLEAN
    PROVE  Verified(c, f, j) \in Claim
BY DEF Claim

LEMMA NoClaimStatus == NoClaim \in Claim /\ NoClaim.status = "none"
BY DEF Claim, NoClaim

LEMMA OlderAge == ASSUME NEW n \in Nat, NEW a \in 0..n
    PROVE  Older(a, n) \in 0..n /\ Older(a, n) <= a + 1 /\ (a < n => Older(a, n) = a + 1)
           /\ (a = n => Older(a, n) = n)
BY DEF Older

(* A day later a claim is of the same kind, and its ages are a day older.  *)
LEMMA AgedClaim == ASSUME NEW k \in Claim
    PROVE  /\ Aged(k) \in Claim /\ Aged(k).status = k.status
           /\ k.status = "verified" =>
                 /\ Aged(k).checked = Older(k.checked, FreshDays)
                 /\ Aged(k).failing = Never => k.failing = Never
<1>0. /\ TokenDays + 1 \in Nat /\ FreshDays \in Nat /\ GraceDays + 1 \in Nat
      /\ GraceDays + 1 < Never /\ Never \in Nat
  BY DomainsAssumption DEF Never
<1>1. CASE k = NoClaim BY <1>1, NoClaimStatus DEF Aged
<1>2. CASE PendingRec(k)
  <2>1. Aged(k) = Pending(Older(k.issued, TokenDays + 1), k.auto)
    BY <1>2 DEF PendingRec, Aged
  <2>2. Older(k.issued, TokenDays + 1) \in 0..TokenDays + 1
    BY <1>0, <1>2, OlderAge DEF PendingRec
  <2>3. QED BY <1>2, <2>1, <2>2, PendingIsClaim, PendingFields DEF PendingRec
<1>3. CASE VerifiedRec(k)
  <2> DEFINE f == IF k.failing = Never THEN Never ELSE Older(k.failing, GraceDays + 1)
             c == Older(k.checked, FreshDays)
  <2>1. Aged(k) = Verified(c, f, k.auto)
    BY <1>3 DEF VerifiedRec, Aged
  <2>2. c \in 0..FreshDays BY <1>0, <1>3, OlderAge DEF VerifiedRec
  <2>3. /\ f \in {Never} \cup 0..GraceDays + 1
        /\ f = Never => k.failing = Never
    <3>1. CASE k.failing = Never BY <3>1
    <3>2. CASE k.failing \in 0..GraceDays + 1 /\ k.failing # Never
      <4>1. Older(k.failing, GraceDays + 1) \in 0..GraceDays + 1 BY <1>0, <3>2, OlderAge
      <4>2. f \in 0..GraceDays + 1 BY <3>2, <4>1
      <4>3. QED BY <1>0, <4>2
    <3>3. QED BY <1>3, <3>1, <3>2 DEF VerifiedRec
  <2>4. k.auto \in BOOLEAN /\ k.status = "verified" BY <1>3 DEF VerifiedRec
  <2> HIDE DEF f
  <2>5. QED BY <2>1, <2>2, <2>3, <2>4, VerifiedIsClaim, VerifiedFields
<1>4. QED BY <1>1, <1>2, <1>3, ClaimCases

---------------------------------------------------------------------------
(* What an answer makes of its claim.                                      *)
LEMMA OutcomeCases == ASSUME NEW c \in Check, claim[c.org] \in Claim, claim[c.org] # NoClaim
    PROVE  LET k == claim[c.org]
               n == Outcome(c).next
           IN  /\ n \in Claim
               /\ n.status = "verified" =>
                    \/ c.answer = "found" /\ n.checked = c.age
                    \/ k.status = "verified" /\ n.failing # Never
<1> DEFINE k == claim[c.org]
           found == c.answer = "found"
           f == FailingAge(k, c)
<1>0. /\ c.age \in {0, 1} /\ FreshDays \in Nat \ {0} /\ GraceDays \in Nat \ {0}
      /\ TokenDays \in Nat \ {0} /\ Never = 99
  BY DomainsAssumption DEF Check, Never
<1>1. c.age \in 0..FreshDays /\ c.age \in 0..GraceDays + 1 /\ c.age \in 0..TokenDays + 1
  BY <1>0
<1>2. CASE PendingRec(k)
  <2>1. \/ Outcome(c).next = k
        \/ found /\ Outcome(c).next = Verified(c.age, Never, k.auto)
    BY <1>2 DEF Outcome, PendingRec
  <2>2. k.status # "verified" /\ k.auto \in BOOLEAN BY <1>2 DEF PendingRec
  <2>3. Verified(c.age, Never, k.auto) \in Claim BY <1>1, <2>2, VerifiedIsClaim
  <2>4. QED BY <2>1, <2>2, <2>3, VerifiedFields
<1>3. CASE VerifiedRec(k)
  <2>1. k.status = "verified" /\ k.auto \in BOOLEAN /\ k.failing \in {Never} \cup 0..GraceDays + 1
    BY <1>3 DEF VerifiedRec
  <2>2. f \in 0..GraceDays + 1 /\ f # Never
    BY <1>0, <1>1, <2>1 DEF FailingAge
  <2> HIDE DEF f
  <2>3. \/ found /\ Outcome(c).next = Verified(c.age, Never, k.auto)
        \/ Outcome(c).next = Pending(c.age, k.auto)
        \/ Outcome(c).next = Verified(c.age, f, k.auto)
    BY <2>1 DEF Outcome, f
  <2>4. /\ Verified(c.age, Never, k.auto) \in Claim /\ Pending(c.age, k.auto) \in Claim
        /\ Verified(c.age, f, k.auto) \in Claim
    BY <1>1, <2>1, <2>2, VerifiedIsClaim, PendingIsClaim
  <2>5. QED BY <2>1, <2>2, <2>3, <2>4, VerifiedFields, PendingFields
<1>4. QED BY <1>2, <1>3, ClaimCases

---------------------------------------------------------------------------
(* Types, and one verified claim at a time.                                *)
AtMostOneVerified == \A o, q \in Orgs : IsVerified(o) /\ IsVerified(q) => o = q

Others ==
    /\ job \in [phase : {"due", "checking", "migrating", "done"}, left : SUBSET Orgs]
    /\ runs \subseteq [org : Orgs, read : BOOLEAN, left : SUBSET People, by : {"request", "job"}]
    /\ member \in [People -> Orgs \cup {Nobody}]
    /\ disabled \subseteq People /\ proven \subseteq People
    /\ errors \in 0..MaxErrors

Claims ==
    /\ claim \in [Orgs -> Claim]
    /\ dns \in [Orgs -> {"none", "current", "old"}]
    /\ checks \subseteq Check
    /\ shown \in [Orgs -> {"never", "before", "current"}]
    /\ seen \in [Orgs -> 0..FreshDays]
    /\ AtMostOneVerified

LEMMA ReplacedType == ASSUME NEW cs \in SUBSET Check, NEW o PROVE Replaced(cs, o) \subseteq Check
<1>1. ASSUME NEW c \in Check PROVE [c EXCEPT !.stale = TRUE] \in Check BY DEF Check
<1>2. QED BY <1>1 DEF Replaced

LEMMA RotateType == ASSUME Claims, NEW o \in Orgs, Rotate(o)
    PROVE  /\ dns' \in [Orgs -> {"none", "current", "old"}]
           /\ shown' \in [Orgs -> {"never", "before", "current"}]
BY DEF Claims, Rotate

(* A step that leaves verified only what was. *)
LEMMA KeepsOne ==
    ASSUME Claims, \A o \in Orgs : IsVerified(o)' => IsVerified(o) PROVE AtMostOneVerified'
BY DEF Claims, AtMostOneVerified

(* One claim changes. *)
LEMMA OneClaim ==
    ASSUME Claims, NEW o \in Orgs, NEW k \in Claim, claim' = [claim EXCEPT ![o] = k],
           k.status = "verified" => IsVerified(o) \/ \A q \in Orgs \ {o} : ~IsVerified(q)
    PROVE  claim' \in [Orgs -> Claim] /\ AtMostOneVerified'
<1>1. /\ claim' \in [Orgs -> Claim] /\ claim'[o] = k
      /\ \A q \in Orgs \ {o} : claim'[q] = claim[q]
  BY DEF Claims
<1>2. QED BY <1>1 DEF Claims, AtMostOneVerified, IsVerified

LEMMA RequestsType == ASSUME Claims, Others, NEW o \in Orgs, Requests(o) PROVE Claims' /\ Others'
<1>0. claim[o] \in Claim /\ 0 \in 0..FreshDays /\ 0 \in 0..TokenDays + 1
  BY DomainsAssumption DEF Claims
<1>1. ASSUME Publish(o) \/ Withdraw(o) PROVE Claims' /\ Others'
  <2>1. Others' BY <1>1 DEF Publish, Withdraw, Others
  <2>2. Claims' BY <1>0, <1>1 DEF Publish, Withdraw, Claims, AtMostOneVerified, IsVerified
  <2>3. QED BY <2>1, <2>2
<1>2. ASSUME AddDomain(o) PROVE Claims' /\ Others'
  <2>1. Others' BY <1>2 DEF AddDomain, Others
  <2>2. PICK k \in Claim : claim' = [claim EXCEPT ![o] = k] /\ k.status = "pending"
    <3>1. CASE claim[o] = NoClaim
      <4>1. Pending(0, FALSE) \in Claim BY <1>0, PendingIsClaim
      <4>2. claim' = [claim EXCEPT ![o] = Pending(0, FALSE)]
        BY <1>2, <3>1, NoClaimStatus DEF AddDomain
      <4>3. Pending(0, FALSE).status = "pending" BY PendingFields
      <4>4. QED BY <4>1, <4>2, <4>3
    <3>2. CASE claim[o] # NoClaim
      <4>1. claim[o].status = "pending" /\ claim' = [claim EXCEPT ![o] = [claim[o] EXCEPT !.issued = 0]]
        BY <1>2, <3>2 DEF AddDomain
      <4>2. PendingRec(claim[o]) BY <1>0, <3>2, <4>1, ClaimCases DEF VerifiedRec
      <4>3. PICK a \in 0..TokenDays + 1, j \in BOOLEAN : claim[o] = Pending(a, j)
        BY <4>2 DEF PendingRec
      <4>4. [claim[o] EXCEPT !.issued = 0] = Pending(0, j) BY <4>3, PendingExcept
      <4>5. Pending(0, j) \in Claim BY <1>0, <4>3, PendingIsClaim
      <4>6. Pending(0, j).status = "pending" BY PendingFields
      <4>7. claim' = [claim EXCEPT ![o] = Pending(0, j)] BY <4>1, <4>4
      <4>8. QED BY <4>5, <4>6, <4>7
    <3>3. QED BY <3>1, <3>2
  <2>3. claim' \in [Orgs -> Claim] /\ AtMostOneVerified' BY <2>2, OneClaim
  <2>4. checks' = checks \/ checks' = Replaced(checks, o) BY <1>2 DEF AddDomain
  <2>5. checks' \subseteq Check BY <2>4, ReplacedType DEF Claims
  <2>6. UNCHANGED <<dns, shown>> \/ Rotate(o) BY <1>2 DEF AddDomain
  <2>7. Claims' BY <1>2, <2>3, <2>5, <2>6, RotateType DEF AddDomain, Claims
  <2>8. QED BY <2>1, <2>7
<1>3. ASSUME DeleteDomain(o) PROVE Claims' /\ Others'
  <2>1. Others' BY <1>3 DEF DeleteDomain, Others
  <2>2. claim' \in [Orgs -> Claim] /\ AtMostOneVerified'
    BY <1>3, NoClaimStatus, OneClaim DEF DeleteDomain
  <2>3. Claims' BY <1>3, <2>2 DEF DeleteDomain, Claims, Surviving
  <2>4. QED BY <2>1, <2>3
<1>4. ASSUME SwitchAutoJoin(o) PROVE Claims' /\ Others'
  <2>1. Migration(o, "request") \in [org : Orgs, read : BOOLEAN, left : SUBSET People,
                                     by : {"request", "job"}]
    BY DEF Migration
  <2>2. Others' BY <1>4, <2>1 DEF SwitchAutoJoin, Others
  <2>3. PICK k \in Claim : claim' = [claim EXCEPT ![o] = k] /\ k.status = claim[o].status
    <3>1. claim[o] # NoClaim /\ claim' = [claim EXCEPT ![o] = [claim[o] EXCEPT !.auto = ~claim[o].auto]]
      BY <1>4 DEF SwitchAutoJoin
    <3>2. CASE PendingRec(claim[o])
      <4>1. PICK a \in 0..TokenDays + 1, j \in BOOLEAN : claim[o] = Pending(a, j)
        BY <3>2 DEF PendingRec
      <4>2. [claim[o] EXCEPT !.auto = ~claim[o].auto] = Pending(a, ~j)
        BY <4>1, PendingExcept, PendingFields
      <4>3. Pending(a, ~j) \in Claim BY PendingIsClaim
      <4>4. Pending(a, ~j).status = claim[o].status BY <4>1, PendingFields
      <4>5. claim' = [claim EXCEPT ![o] = Pending(a, ~j)] BY <3>1, <4>2
      <4>6. QED BY <4>3, <4>4, <4>5
    <3>3. CASE VerifiedRec(claim[o])
      <4>1. PICK c \in 0..FreshDays, f \in {Never} \cup 0..GraceDays + 1, j \in BOOLEAN :
              claim[o] = Verified(c, f, j)
        BY <3>3 DEF VerifiedRec
      <4>2. [claim[o] EXCEPT !.auto = ~claim[o].auto] = Verified(c, f, ~j)
        BY <4>1, VerifiedExcept, VerifiedFields
      <4>3. Verified(c, f, ~j) \in Claim BY VerifiedIsClaim
      <4>4. Verified(c, f, ~j).status = claim[o].status BY <4>1, VerifiedFields
      <4>5. claim' = [claim EXCEPT ![o] = Verified(c, f, ~j)] BY <3>1, <4>2
      <4>6. QED BY <4>3, <4>4, <4>5
    <3>4. QED BY <1>0, <3>1, <3>2, <3>3, ClaimCases
  <2>4. claim' \in [Orgs -> Claim] /\ AtMostOneVerified' BY <2>3, OneClaim DEF IsVerified
  <2>5. Claims' BY <1>4, <2>4 DEF SwitchAutoJoin, Claims
  <2>6. QED BY <2>2, <2>5
<1>5. ASSUME CheckNow(o) PROVE Claims' /\ Others'
  <2>1. Others' BY <1>5 DEF CheckNow, Others
  <2>2. [org |-> o, age |-> 0, stale |-> FALSE, by |-> "request", answer |-> "none"] \in Check
    BY DEF Check
  <2>3. checks' \subseteq Check BY <1>5, <2>2 DEF CheckNow, Claims
  <2>4. Claims' BY <1>5, <2>3 DEF CheckNow, Claims, AtMostOneVerified, IsVerified
  <2>5. QED BY <2>1, <2>4
<1>6. QED BY <1>1, <1>2, <1>3, <1>4, <1>5 DEF Requests

LEMMA AskType == ASSUME Claims, Others, NEW c \in checks, Ask(c) PROVE Claims' /\ Others'
<1>1. Others' BY DEF Ask, Others
<1>2. PICK a \in {"missing", "found"} : checks' = (checks \ {c}) \cup {[c EXCEPT !.answer = a]}
  BY DEF Ask
<1>3. [c EXCEPT !.answer = a] \in Check BY DEF Claims, Check
<1>4. Claims' BY <1>2, <1>3 DEF Ask, Claims, AtMostOneVerified, IsVerified
<1>5. QED BY <1>1, <1>4

LEMMA ApplyType == ASSUME Claims, Others, NEW c \in checks, Apply(c) PROVE Claims' /\ Others'
<1> DEFINE o == c.org
           n == Outcome(c).next
<1>1. c \in Check /\ o \in Orgs /\ claim[o] \in Claim BY DEF Claims, Check
<1>2. checks' \subseteq Check BY ReplacedType DEF Apply, Claims
<1>3. Others'
  <2>1. Migration(o, "request") \in [org : Orgs, read : BOOLEAN, left : SUBSET People,
                                     by : {"request", "job"}]
    BY <1>1 DEF Migration
  <2>2. UNCHANGED <<job, member, disabled, proven, errors>> BY DEF Apply
  <2>3. runs' = runs \/ runs' = runs \cup {Migration(o, "request")} BY DEF Apply
  <2>4. QED BY <2>1, <2>2, <2>3 DEF Others
<1>4. CASE claim[o] = NoClaim \/ Taken(n, o)
  <2>1. UNCHANGED <<claim, dns, shown, seen>> BY <1>4 DEF Apply
  <2>2. QED BY <1>2, <1>3, <2>1 DEF Claims, AtMostOneVerified, IsVerified
<1>5. CASE claim[o] # NoClaim /\ ~Taken(n, o)
  <2>1. claim' = [claim EXCEPT ![o] = n] BY <1>5 DEF Apply
  <2>2. n \in Claim BY <1>1, <1>5, OutcomeCases
  <2>3. n.status = "verified" => \A q \in Orgs \ {o} : ~IsVerified(q) BY <1>5 DEF Taken
  <2>4. claim' \in [Orgs -> Claim] /\ AtMostOneVerified' BY <1>1, <2>1, <2>2, <2>3, OneClaim
  <2>5. Rotate(o) \/ UNCHANGED <<dns, shown>> BY <1>5 DEF Apply
  <2>6. seen' = seen BY DEF Apply
  <2>7. Claims' BY <1>1, <1>2, <2>4, <2>5, <2>6, RotateType DEF Claims
  <2>8. QED BY <1>3, <2>7
<1>6. QED BY <1>4, <1>5

LEMMA JobType == ASSUME Claims, Others, Job PROVE Claims' /\ Others'
<1>1. ASSUME JobStart PROVE Claims' /\ Others'
  <2>1. Others' BY <1>1 DEF JobStart, Others
  <2>2. \A q \in Orgs :
          [org |-> q, age |-> 0, stale |-> FALSE, by |-> "job", answer |-> "none"] \in Check
    BY DEF Check
  <2>3. checks' \subseteq Check BY <1>1, <2>2 DEF JobStart, Claims
  <2>4. Claims' BY <1>1, <2>3 DEF JobStart, Claims, AtMostOneVerified, IsVerified
  <2>5. QED BY <2>1, <2>4
<1>2. ASSUME JobChecked \/ JobNext PROVE Claims' /\ Others'
  <2>1. ToMigrate \subseteq Orgs BY DEF ToMigrate
  <2>2. \A o \in Orgs : Migration(o, "job") \in
          [org : Orgs, read : BOOLEAN, left : SUBSET People, by : {"request", "job"}]
    BY DEF Migration
  <2>3. Others'
    <3>1. CASE JobChecked BY <2>1, <3>1 DEF JobChecked, Others
    <3>2. CASE JobNext BY <2>2, <3>2 DEF JobNext, Others
    <3>3. QED BY <1>2, <3>1, <3>2
  <2>4. Claims' BY <1>2 DEF JobChecked, JobNext, Claims, AtMostOneVerified, IsVerified
  <2>5. QED BY <2>3, <2>4
<1>3. QED BY <1>1, <1>2 DEF Job

(* The steps of a migration, of the accounts, and a crash. *)
LEMMA AccountsType ==
    ASSUME Claims, Others,
           \/ \E r \in runs : Migrating(r) \/ \E p \in People : JoinFails(r, p)
           \/ \E p \in People : ProofStep(p) \/ Disable(p)
           \/ JobLost
    PROVE  Claims' /\ Others'
<1> DEFINE Run == [org : Orgs, read : BOOLEAN, left : SUBSET People, by : {"request", "job"}]
<1>0. /\ \A r \in Run : \A p \in People : [r EXCEPT !.left = r.left \ {p}] \in Run
      /\ \A r \in Run : [r EXCEPT !.read = TRUE, !.left = {p \in People : Eligible(p)}] \in Run
  OBVIOUS
<1>1. runs \subseteq Run BY DEF Others
<1> HIDE DEF Run
<1>2. ASSUME NEW r \in runs, MigrationReads(r) \/ MigrationEnds(r) PROVE Claims' /\ Others'
  <2>1. runs' \subseteq Run BY <1>0, <1>1, <1>2 DEF MigrationReads, MigrationEnds
  <2>2. Others' BY <1>2, <2>1 DEF MigrationReads, MigrationEnds, Others, Run
  <2>3. Claims'
    BY <1>2 DEF MigrationReads, MigrationEnds, Claims, AtMostOneVerified, IsVerified
  <2>4. QED BY <2>2, <2>3
<1>3. ASSUME NEW r \in runs, NEW p \in People, MigrateOne(r, p) \/ JoinFails(r, p) PROVE Claims' /\ Others'
  <2>1. runs' \subseteq Run BY <1>0, <1>1, <1>3 DEF MigrateOne, JoinFails
  <2>2. r.org \in Orgs BY <1>1 DEF Run
  <2>3. member' \in [People -> Orgs \cup {Nobody}]
    BY <1>3, <2>2 DEF MigrateOne, JoinFails, Others
  <2>4. errors' \in 0..MaxErrors BY <1>3, DomainsAssumption DEF MigrateOne, JoinFails, Others
  <2>5. Others' BY <1>3, <2>1, <2>3, <2>4 DEF MigrateOne, JoinFails, Others, Run
  <2>6. Claims' BY <1>3 DEF MigrateOne, JoinFails, Claims, AtMostOneVerified, IsVerified
  <2>7. QED BY <2>5, <2>6
<1>4. ASSUME NEW p \in People, ProofStep(p) PROVE Claims' /\ Others'
  <2>1. (\E o \in Orgs : Captured(o)) => (CHOOSE o \in Orgs : Captured(o)) \in Orgs OBVIOUS
  <2>2. member' \in [People -> Orgs \cup {Nobody}] BY <1>4, <2>1 DEF ProofStep, Others
  <2>3. Others' BY <1>4, <2>2 DEF ProofStep, Others
  <2>4. Claims' BY <1>4 DEF ProofStep, Claims, AtMostOneVerified, IsVerified
  <2>5. QED BY <2>3, <2>4
<1>5. ASSUME NEW p \in People, Disable(p) PROVE Claims' /\ Others'
  BY <1>5 DEF Disable, Claims, Others, AtMostOneVerified, IsVerified
<1>6. ASSUME JobLost PROVE Claims' /\ Others'
  <2>1. Others' BY <1>6, DomainsAssumption DEF JobLost, Others
  <2>2. Claims' BY <1>6 DEF JobLost, Claims, AtMostOneVerified, IsVerified
  <2>3. QED BY <2>1, <2>2
<1>7. QED BY <1>2, <1>3, <1>4, <1>5, <1>6 DEF Migrating

LEMMA NextDayType == ASSUME Claims, Others, NextDay PROVE Claims' /\ Others'
<1>1. Others' BY DEF NextDay, Others
<1>2. claim' \in [Orgs -> Claim] /\ \A o \in Orgs : claim'[o].status = claim[o].status
  BY AgedClaim DEF NextDay, Claims
<1>3. checks' \subseteq Check
  <2>1. \A c \in Check : [c EXCEPT !.age = 1] \in Check BY DEF Check
  <2>2. QED BY <2>1 DEF NextDay, Claims
<1>4. seen' \in [Orgs -> 0..FreshDays] BY DomainsAssumption, OlderAge DEF NextDay, Claims
<1>5. AtMostOneVerified' BY <1>2, KeepsOne DEF IsVerified
<1>6. Claims' BY <1>2, <1>3, <1>4, <1>5 DEF NextDay, Claims
<1>7. QED BY <1>1, <1>6

LEMMA InitType == Init => Claims /\ Others
<1>1. Init => Claims
  BY DomainsAssumption, NoClaimStatus DEF Init, Claims, AtMostOneVerified, IsVerified
<1>2. Init => Others BY DomainsAssumption DEF Init, Others
<1>3. QED BY <1>1, <1>2

LEMMA NextType == Claims /\ Others /\ [Next]_vars => Claims' /\ Others'
<1> SUFFICES ASSUME Claims, Others, [Next]_vars PROVE Claims' /\ Others'
  OBVIOUS
<1>1. CASE UNCHANGED vars
  BY <1>1 DEF vars, Claims, Others, AtMostOneVerified, IsVerified
<1>2. QED
  BY <1>1, RequestsType, AskType, ApplyType, JobType, AccountsType, NextDayType
  DEF Next, Checking

(* Every reachable state is well typed, and no two organizations have      *)
(* verified the domain (the unique index on verified claims).              *)
THEOREM TypeCorrect == Spec => []TypeOK
<1>1. Spec => [](Claims /\ Others) BY InitType, NextType, PTL DEF Spec
<1>2. Claims /\ Others => TypeOK BY DEF Claims, Others, TypeOK, AtMostOneVerified
<1>3. QED BY <1>1, <1>2, PTL

---------------------------------------------------------------------------
(* What a claim owes to the record: a token of the claim was shown before  *)
(* it was verified, an answer that found one is no older than its check,   *)
(* and a claim that is not failing was checked when the record was there.  *)
ShownBefore ==
    /\ \A o \in Orgs : IsVerified(o) => shown[o] # "never"
    /\ \A c \in checks : c.answer = "found" => shown[c.org] # "never"
    /\ \A o \in Orgs : dns[o] # "none" => shown[o] # "never"

SeenSince ==
    /\ \A o \in Orgs : IsVerified(o) /\ claim[o].failing = Never => seen[o] <= claim[o].checked
    /\ \A c \in checks : c.answer = "found" => seen[c.org] <= c.age
    /\ \A o \in Orgs : dns[o] # "none" => seen[o] = 0

Proved == ShownBefore /\ SeenSince

(* Steps that touch neither the claims nor the record. *)
LEMMA KeepsProof ==
    ASSUME Proved, UNCHANGED <<claim, dns, shown, seen>>, checks' \subseteq checks PROVE Proved'
BY DEF Proved, ShownBefore, SeenSince, IsVerified

(* New checks have no answer, and a replaced token leaves the answers.     *)
LEMMA NewChecks ==
    ASSUME Proved, UNCHANGED <<claim, dns, shown, seen>>,
           \A c \in checks' : c \in checks \/ c.answer # "found"
    PROVE  Proved'
BY DEF Proved, ShownBefore, SeenSince, IsVerified

LEMMA ReplacedAnswers == ASSUME Claims, NEW cs \in SUBSET checks, NEW o, NEW c \in Replaced(cs, o)
    PROVE  \E b \in cs : c.org = b.org /\ c.age = b.age /\ c.answer = b.answer
<1>1. \A b \in cs : /\ [b EXCEPT !.stale = TRUE].org = b.org
                    /\ [b EXCEPT !.stale = TRUE].age = b.age
                    /\ [b EXCEPT !.stale = TRUE].answer = b.answer
  BY DEF Claims, Check
<1>2. QED BY <1>1 DEF Replaced

LEMMA RotateShows == ASSUME Claims, NEW o \in Orgs, Rotate(o)
    PROVE  \A q \in Orgs : /\ shown'[q] = "never" <=> shown[q] = "never"
                           /\ dns'[q] = "none" <=> dns[q] = "none"
BY DEF Claims, Rotate

LEMMA RequestsProof == ASSUME Claims, Proved, NEW o \in Orgs, Requests(o) PROVE Proved'
<1>0. claim[o] \in Claim /\ claim \in [Orgs -> Claim] BY DEF Claims
<1>1. ASSUME Publish(o) PROVE Proved'
  <2>1. /\ UNCHANGED <<claim, checks>>
        /\ shown' = [shown EXCEPT ![o] = "current"] /\ seen' = [seen EXCEPT ![o] = 0]
        /\ dns' = [dns EXCEPT ![o] = "current"]
    BY <1>1 DEF Publish
  <2>2. ShownBefore' BY <2>1 DEF Claims, Proved, ShownBefore, IsVerified
  <2>3. ASSUME NEW q \in Orgs, IsVerified(q) PROVE claim[q].checked \in Nat
    BY <2>3, ClaimCases, NoClaimStatus DEF Claims, IsVerified, VerifiedRec, PendingRec
  <2>4. \A c \in checks : c.age \in Nat /\ c.org \in Orgs BY DEF Claims, Check
  <2>5. SeenSince' BY <2>1, <2>3, <2>4 DEF Claims, Proved, SeenSince, IsVerified
  <2>6. QED BY <2>2, <2>5 DEF Proved
<1>2. ASSUME Withdraw(o) PROVE Proved'
  <2>1. UNCHANGED <<claim, checks, shown, seen>> /\ dns' = [dns EXCEPT ![o] = "none"]
    BY <1>2 DEF Withdraw
  <2>2. \A q \in Orgs : dns'[q] # "none" => dns[q] # "none" BY <2>1 DEF Claims
  <2>3. QED BY <2>1, <2>2 DEF Proved, ShownBefore, SeenSince, IsVerified
<1>3. ASSUME AddDomain(o) PROVE Proved'
  <2>1. ~IsVerified(o)' /\ \A q \in Orgs \ {o} : claim'[q] = claim[q]
    <3>1. CASE claim[o] = NoClaim
      <4>1. claim' = [claim EXCEPT ![o] = Pending(0, FALSE)]
        BY <1>3, <3>1, NoClaimStatus DEF AddDomain
      <4>2. Pending(0, FALSE).status = "pending" BY PendingFields
      <4>3. QED BY <1>0, <4>1, <4>2 DEF IsVerified
    <3>2. CASE claim[o] # NoClaim
      <4>1. claim' = [claim EXCEPT ![o] = [claim[o] EXCEPT !.issued = 0]]
            /\ claim[o].status = "pending"
        BY <1>3, <3>2 DEF AddDomain
      <4>2. PICK a, j : claim[o] = Pending(a, j)
        <5>1. PendingRec(claim[o]) BY <1>0, <3>2, <4>1, ClaimCases DEF VerifiedRec
        <5>2. QED BY <5>1 DEF PendingRec
      <4>3. [claim[o] EXCEPT !.issued = 0] = Pending(0, j) BY <4>2, PendingExcept
      <4>4. QED BY <1>0, <4>1, <4>3, PendingFields DEF IsVerified
    <3>3. QED BY <3>1, <3>2
  <2>2. seen' = seen BY <1>3 DEF AddDomain
  <2>3. CASE UNCHANGED <<dns, checks, shown>>
    BY <2>1, <2>2, <2>3 DEF Proved, ShownBefore, SeenSince, IsVerified
  <2>4. CASE Rotate(o) /\ checks' = Replaced(checks, o)
    <3>1. \A c \in checks' : \E b \in checks :
            c.org = b.org /\ c.age = b.age /\ c.answer = b.answer
      BY <2>4, ReplacedAnswers
    <3>2. \A q \in Orgs : /\ shown'[q] = "never" <=> shown[q] = "never"
                          /\ dns'[q] = "none" <=> dns[q] = "none"
      BY <2>4, RotateShows
    <3>3. \A b \in checks : b.org \in Orgs BY DEF Claims, Check
    <3>4. ShownBefore' BY <2>1, <3>1, <3>2, <3>3 DEF Proved, ShownBefore, IsVerified
    <3>5. SeenSince' BY <2>1, <2>2, <3>1, <3>2, <3>3 DEF Proved, SeenSince, IsVerified
    <3>6. QED BY <3>4, <3>5 DEF Proved
  <2>5. QED BY <1>3, <2>3, <2>4 DEF AddDomain
<1>4. ASSUME DeleteDomain(o) PROVE Proved'
  <2>1. /\ claim' = [claim EXCEPT ![o] = NoClaim] /\ dns' = [dns EXCEPT ![o] = "none"]
        /\ shown' = [shown EXCEPT ![o] = "never"] /\ seen' = seen
        /\ checks' = {c \in checks : c.org # o}
    BY <1>4 DEF DeleteDomain, Surviving
  <2>2. \A b \in checks : b.org \in Orgs BY DEF Claims, Check
  <2>3. ShownBefore' BY <2>1, <2>2, NoClaimStatus DEF Claims, Proved, ShownBefore, IsVerified
  <2>4. SeenSince' BY <2>1, <2>2, NoClaimStatus DEF Claims, Proved, SeenSince, IsVerified
  <2>5. QED BY <2>3, <2>4 DEF Proved
<1>5. ASSUME SwitchAutoJoin(o) PROVE Proved'
  <2>1. claim[o] # NoClaim /\ claim' = [claim EXCEPT ![o] = [claim[o] EXCEPT !.auto = ~claim[o].auto]]
    BY <1>5 DEF SwitchAutoJoin
  <2>2. \A q \in Orgs : IsVerified(q)' =>
          IsVerified(q) /\ claim'[q].failing = claim[q].failing /\ claim'[q].checked = claim[q].checked
    <3>1. CASE PendingRec(claim[o])
      <4>1. PICK a, j : claim[o] = Pending(a, j) BY <3>1 DEF PendingRec
      <4>2. [claim[o] EXCEPT !.auto = ~claim[o].auto] = Pending(a, ~claim[o].auto)
        BY <4>1, PendingExcept
      <4>3. QED BY <1>0, <2>1, <4>2, PendingFields DEF IsVerified
    <3>2. CASE VerifiedRec(claim[o])
      <4>1. PICK c, f, j : claim[o] = Verified(c, f, j) BY <3>2 DEF VerifiedRec
      <4>2. [claim[o] EXCEPT !.auto = ~claim[o].auto] = Verified(c, f, ~claim[o].auto)
        BY <4>1, VerifiedExcept
      <4>3. claim'[o] = Verified(c, f, ~claim[o].auto) BY <1>0, <2>1, <4>2
      <4>4. claim'[o].failing = claim[o].failing /\ claim'[o].checked = claim[o].checked
        BY <4>1, <4>3, VerifiedFields
      <4>5. IsVerified(o) BY <3>2 DEF VerifiedRec, IsVerified
      <4>6. QED BY <1>0, <2>1, <4>4, <4>5 DEF IsVerified
    <3>3. QED BY <1>0, <2>1, <3>1, <3>2, ClaimCases
  <2>3. UNCHANGED <<dns, checks, shown, seen>> BY <1>5 DEF SwitchAutoJoin
  <2>4. QED BY <2>2, <2>3 DEF Proved, ShownBefore, SeenSince
<1>6. ASSUME CheckNow(o) PROVE Proved'
  BY <1>6, NewChecks DEF CheckNow
<1>7. QED BY <1>1, <1>2, <1>3, <1>4, <1>5, <1>6 DEF Requests

(* An answer "found" is given while the record is there. *)
LEMMA AskProof == ASSUME Claims, Proved, NEW c \in checks, Ask(c) PROVE Proved'
<1>1. PICK a \in {"missing", "found"} :
        /\ checks' = (checks \ {c}) \cup {[c EXCEPT !.answer = a]}
        /\ a = "found" => HasRecord(c)
  BY DEF Ask
<1> DEFINE d == [c EXCEPT !.answer = a]
<1>2. d.org = c.org /\ d.age = c.age /\ d.answer = a /\ c.org \in Orgs /\ c.age \in Nat
  BY DEF Claims, Check
<1>3. a = "found" => shown[d.org] # "never" /\ seen[d.org] <= d.age
  BY <1>1, <1>2 DEF HasRecord, Proved, ShownBefore, SeenSince
<1>4. UNCHANGED <<claim, dns, shown, seen>> BY DEF Ask
<1> HIDE DEF d
<1>5. QED BY <1>1, <1>2, <1>3, <1>4 DEF Proved, ShownBefore, SeenSince, IsVerified, d

LEMMA ApplyProof == ASSUME Claims, Proved, NEW c \in checks, Apply(c) PROVE Proved'
<1> DEFINE o == c.org
           n == Outcome(c).next
<1>1. c \in Check /\ o \in Orgs /\ claim[o] \in Claim BY DEF Claims, Check
<1>2. seen' = seen BY DEF Apply
<1>3. CASE claim[o] = NoClaim \/ Taken(n, o)
  <2>1. UNCHANGED <<claim, dns, shown>> /\ checks' \subseteq checks BY <1>3 DEF Apply
  <2>2. QED BY <1>2, <2>1, KeepsProof
<1>4. CASE claim[o] # NoClaim /\ ~Taken(n, o)
  <2>1. claim' = [claim EXCEPT ![o] = n] BY <1>4 DEF Apply
  <2>2. \/ Rotate(o) /\ checks' = Replaced(checks \ {c}, o)
        \/ UNCHANGED <<dns, shown>> /\ checks' = checks \ {c}
    BY <1>4 DEF Apply
  <2>3. \A b \in checks' : \E a \in checks :
          b.org = a.org /\ b.age = a.age /\ b.answer = a.answer
    <3>1. checks \ {c} \in SUBSET checks OBVIOUS
    <3>2. QED BY <2>2, <3>1, ReplacedAnswers
  <2>4. \A q \in Orgs : /\ shown'[q] = "never" <=> shown[q] = "never"
                        /\ dns'[q] = "none" <=> dns[q] = "none"
    BY <1>1, <2>2, RotateShows
  <2>5. n.status = "verified" =>
          \/ c.answer = "found" /\ n.checked = c.age
          \/ claim[o].status = "verified" /\ n.failing # Never
    BY <1>1, <1>4, OutcomeCases
  <2>6. claim'[o] = n /\ \A q \in Orgs \ {o} : claim'[q] = claim[q]
    BY <1>1, <2>1 DEF Claims
  <2>7. \A b \in checks : b.org \in Orgs BY DEF Claims, Check
  <2> HIDE DEF n
  <2>8. ShownBefore'
    BY <1>1, <2>3, <2>4, <2>5, <2>6, <2>7 DEF Proved, ShownBefore, IsVerified
  <2>9. SeenSince'
    <3>1. ASSUME NEW q \in Orgs, IsVerified(q)', claim'[q].failing = Never
          PROVE  seen[q] <= claim'[q].checked
      <4>1. CASE q = o BY <2>5, <2>6, <3>1, <4>1 DEF Proved, SeenSince, IsVerified
      <4>2. CASE q # o BY <2>6, <3>1, <4>2 DEF Proved, SeenSince, IsVerified
      <4>3. QED BY <4>1, <4>2
    <3>2. QED BY <1>2, <2>3, <2>4, <2>7, <3>1 DEF Proved, SeenSince
  <2>10. QED BY <2>8, <2>9 DEF Proved
<1>5. QED BY <1>3, <1>4

LEMMA NextDayProof == ASSUME Claims, Proved, NextDay PROVE Proved'
<1>0. /\ FreshDays \in Nat /\ UNCHANGED <<dns, shown>>
      /\ \A o \in Orgs : claim[o] \in Claim /\ claim'[o] = Aged(claim[o])
      /\ \A o \in Orgs : seen[o] \in 0..FreshDays
      /\ seen' = [o \in Orgs |-> IF dns[o] = "none" THEN Older(seen[o], FreshDays) ELSE 0]
      /\ checks' = {[c EXCEPT !.age = 1] : c \in checks}
      /\ \A c \in checks : c.age = 0
  BY DomainsAssumption DEF NextDay, Claims
<1>1. \A o \in Orgs : IsVerified(o)' => IsVerified(o) BY <1>0, AgedClaim DEF IsVerified
<1>2. ASSUME NEW d \in checks'
      PROVE  \E c \in checks : d.org = c.org /\ c.org \in Orgs /\ d.age = 1 /\ d.answer = c.answer
  <2>1. PICK c \in checks : d = [c EXCEPT !.age = 1] BY <1>0
  <2>2. d.org = c.org /\ d.age = 1 /\ d.answer = c.answer /\ c.org \in Orgs
    BY <2>1 DEF Claims, Check
  <2>3. QED BY <2>2
<1>3. ShownBefore' BY <1>0, <1>1, <1>2 DEF Proved, ShownBefore
<1>4. \A o \in Orgs : seen'[o] \in 0..FreshDays /\ seen'[o] <= seen[o] + 1
  BY <1>0, OlderAge
<1>5. ASSUME NEW o \in Orgs, IsVerified(o)', claim'[o].failing = Never
      PROVE  seen'[o] <= claim'[o].checked
  <2>1. /\ IsVerified(o) /\ claim'[o].checked = Older(claim[o].checked, FreshDays)
        /\ claim[o].failing = Never
    BY <1>0, <1>1, <1>5, AgedClaim DEF IsVerified
  <2>2. claim[o].checked \in 0..FreshDays
    BY <1>0, <2>1, ClaimCases, NoClaimStatus DEF IsVerified, PendingRec, VerifiedRec
  <2>3. seen[o] <= claim[o].checked BY <2>1 DEF Proved, SeenSince
  <2>4. CASE claim[o].checked < FreshDays
    BY <1>0, <1>4, <2>1, <2>2, <2>3, <2>4, OlderAge
  <2>5. CASE claim[o].checked = FreshDays BY <1>0, <1>4, <2>1, <2>5, OlderAge
  <2>6. QED BY <1>0, <2>2, <2>4, <2>5
<1>6. ASSUME NEW d \in checks', d.answer = "found" PROVE seen'[d.org] <= d.age
  <2>1. PICK c \in checks : d.org = c.org /\ c.org \in Orgs /\ d.age = 1 /\ d.answer = c.answer
    BY <1>2
  <2>2. seen[c.org] <= 0 BY <1>0, <1>6, <2>1 DEF Proved, SeenSince
  <2>3. QED BY <1>0, <1>4, <2>1, <2>2
<1>7. \A o \in Orgs : dns'[o] # "none" => seen'[o] = 0 BY <1>0
<1>8. SeenSince' BY <1>5, <1>6, <1>7 DEF SeenSince
<1>9. QED BY <1>3, <1>8 DEF Proved

LEMMA NextProof == Claims /\ Proved /\ [Next]_vars => Proved'
<1> SUFFICES ASSUME Claims, Proved, [Next]_vars PROVE Proved'
  OBVIOUS
<1>1. ASSUME Job PROVE Proved'
  <2>1. CASE JobStart BY <2>1, NewChecks DEF JobStart
  <2>2. CASE JobChecked \/ JobNext BY <2>2, KeepsProof DEF JobChecked, JobNext
  <2>3. QED BY <1>1, <2>1, <2>2 DEF Job
<1>2. ASSUME NEW r \in runs, Migrating(r) \/ \E p \in People : JoinFails(r, p) PROVE Proved'
  BY <1>2, KeepsProof DEF Migrating, MigrationReads, MigrationEnds, MigrateOne, JoinFails
<1>3. ASSUME NEW p \in People, ProofStep(p) \/ Disable(p) PROVE Proved'
  BY <1>3, KeepsProof DEF ProofStep, Disable
<1>4. CASE JobLost BY <1>4, KeepsProof DEF JobLost
<1>5. CASE UNCHANGED vars BY <1>5, KeepsProof DEF vars
<1>6. QED
  BY <1>1, <1>2, <1>3, <1>4, <1>5, RequestsProof, AskProof, ApplyProof, NextDayProof
  DEF Next, Checking

LEMMA InitProof == Init => Proved
BY NoClaimStatus DEF Init, Proved, ShownBefore, SeenSince, IsVerified

LEMMA ProvedAlways == Spec => [](Claims /\ Proved)
BY InitType, NextType, InitProof, NextProof, PTL DEF Spec

(* A claim is verified only by a record with a token given out for that    *)
(* very claim.                                                             *)
THEOREM VerifiedByRecord == Spec => []VerifiedByItsRecord
<1>1. Proved => VerifiedByItsRecord BY DEF Proved, ShownBefore, VerifiedByItsRecord
<1>2. QED BY <1>1, ProvedAlways, PTL

(* Nobody joins on a domain whose record has been away for the freshness   *)
(* period, or whose claim no longer captures it (OD-R6).                   *)
THEOREM AuthorisedJoins == Spec => JoinsAreAuthorised
<1>1. ASSUME Claims, Proved, NEW o \in Orgs, Captured(o)
      PROVE  seen[o] < FreshDays /\ CapturedOnce(o)
  <2>1. IsVerified(o) /\ claim[o].failing = Never /\ claim[o].checked < FreshDays
    BY <1>1 DEF Captured, CapturedOnce
  <2>2. claim[o].checked \in Nat /\ seen[o] \in Nat /\ FreshDays \in Nat
    BY <1>1, <2>1, DomainsAssumption, ClaimCases, NoClaimStatus
    DEF Claims, IsVerified, PendingRec, VerifiedRec
  <2>3. QED BY <1>1, <2>1, <2>2 DEF Captured, Proved, SeenSince
<1>2. ASSUME Claims, Others, Proved, [Next]_vars, NEW p \in People, member'[p] # member[p]
      PROVE  seen[member'[p]] < FreshDays /\ CapturedOnce(member'[p])
  <2>1. ASSUME NEW r \in runs, NEW q \in People, MigrateOne(r, q)
        PROVE  member'[p] \in Orgs /\ Captured(member'[p])
    <3>1. member' = [member EXCEPT ![q] = r.org] /\ Captured(r.org)
      BY <1>2, <2>1 DEF MigrateOne, MayJoin
    <3>2. r.org \in Orgs BY <1>2 DEF Others
    <3>3. member'[p] = r.org BY <1>2, <3>1 DEF Others
    <3>4. QED BY <3>1, <3>2, <3>3
  <2>2. ASSUME NEW q \in People, ProofStep(q)
        PROVE  member'[p] \in Orgs /\ Captured(member'[p])
    <3>1. (\E o \in Orgs : Captured(o)) =>
            /\ (CHOOSE o \in Orgs : Captured(o)) \in Orgs
            /\ Captured(CHOOSE o \in Orgs : Captured(o))
      OBVIOUS
    <3>2. (\E o \in Orgs : Captured(o)) /\ member'[p] = CHOOSE o \in Orgs : Captured(o)
      BY <1>2, <2>2 DEF ProofStep, Others
    <3>3. QED BY <3>1, <3>2
  <2>3. member'[p] \in Orgs /\ Captured(member'[p])
    BY <1>2, <2>1, <2>2
    DEF Next, vars, Requests, Publish, Withdraw, AddDomain, DeleteDomain, SwitchAutoJoin, CheckNow,
        Job, JobStart, JobChecked, JobNext, Checking, Ask, Apply, Migrating, MigrationReads,
        MigrationEnds, JoinFails, Disable, NextDay, JobLost
  <2>4. QED BY <1>1, <1>2, <2>3
<1>3. Spec => [](Claims /\ Others) BY InitType, NextType, PTL DEF Spec
<1>4. ASSUME Claims, Others, Proved, [Next]_vars
      PROVE  [\A p \in People : member'[p] # member[p] =>
                /\ seen[member'[p]] < FreshDays
                /\ CapturedOnce(member'[p])]_vars
  BY <1>2, <1>4
<1>5. QED BY <1>3, <1>4, ProvedAlways, PTL DEF Spec, JoinsAreAuthorised
=============================================================================
