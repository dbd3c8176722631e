------------------------ MODULE OrganizationDomains -------------------------
(***************************************************************************)
(* The claims of organizations on one email domain                         *)
(* (services/org-domains.service.ts, domain/src/org-domains.ts): a claim   *)
(* is proved by a DNS record with its token, checked again every day, and  *)
(* lapses when the record stays away; while it is captured, the accounts   *)
(* on the domain join the organization.                                    *)
(*                                                                         *)
(* A check reads the claim and its token, asks DNS without a lock, and     *)
(* applies the answer to the claim as it is by then.  Times are ages in    *)
(* days, which saturate; the three periods are constants.                  *)
(***************************************************************************)
EXTENDS FiniteSets, Naturals

CONSTANTS
    Orgs,
    People,       \* accounts with an address on the domain
    Nobody,
    SeatLimit,    \* organizations.seat_limit
    TokenDays,    \* DOMAIN_CHALLENGE_TTL_DAYS
    GraceDays,    \* DOMAIN_GRACE_DAYS
    FreshDays,    \* DOMAIN_FRESHNESS_HOURS, in days
    MaxRequests,  \* bound: requests that check or migrate at once
    MaxErrors     \* bound: joins that fail, and crashes of the daily job

Never == 99   \* an age that is null in the database

ASSUME DomainsAssumption ==
    /\ Nobody \notin Orgs
    /\ SeatLimit \in [Orgs -> Nat]
    /\ TokenDays \in Nat \ {0} /\ GraceDays \in Nat \ {0} /\ FreshDays \in Nat \ {0}
    /\ GraceDays + 1 < Never
    /\ MaxRequests \in Nat /\ MaxErrors \in Nat

VARIABLES
    claim,     \* organization_domains: the organization's claim, if any
    dns,       \* the token in its TXT record: the current one, an old one, none
    checks,    \* checks in flight
    job,       \* the daily run: where it is, and the claims it has to migrate
    runs,      \* migrations in progress: the accounts each has yet to try
    member,    \* organization_members
    disabled,  \* members disabled by a manager, who hold no seat
    proven,    \* users.email_verified_at is set
    errors,    \* errors so far
    shown,     \* history: which of the claim's tokens has been in the record
    seen       \* history: days since the record last held one of them

vars == <<claim, dns, checks, job, runs, member, disabled, proven, errors, shown, seen>>

Older(age, limit) == IF age < limit THEN age + 1 ELSE limit

(* A pending claim has the age of its token; a verified one those of its   *)
(* last check and of the first failed one.                                 *)
NoClaim == [status |-> "none"]
Pending(age, auto) == [status |-> "pending", issued |-> age, auto |-> auto]
Verified(checked, failing, auto) ==
    [status |-> "verified", checked |-> checked, failing |-> failing, auto |-> auto]
Claim == {NoClaim} \cup {Pending(a, j) : a \in 0..TokenDays + 1, j \in BOOLEAN}
            \cup {Verified(c, f, j) : c \in 0..FreshDays,
                                      f \in {Never} \cup 0..GraceDays + 1, j \in BOOLEAN}

(* A check in flight: its claim, the age of its `now`, whether the token   *)
(* it looks for has been replaced since, and the answer.                   *)
Check == [org : Orgs, age : {0, 1}, stale : BOOLEAN, by : {"request", "job"},
          answer : {"none", "found", "missing"}]

IsVerified(o) == claim[o].status = "verified"

TypeOK ==
    /\ claim \in [Orgs -> Claim]
    /\ dns \in [Orgs -> {"none", "current", "old"}]
    /\ checks \subseteq Check
    /\ job \in [phase : {"due", "checking", "migrating", "done"}, left : SUBSET Orgs]
    /\ runs \subseteq [org : Orgs, read : BOOLEAN, left : SUBSET People, by : {"request", "job"}]
    /\ member \in [People -> Orgs \cup {Nobody}]
    /\ disabled \subseteq People /\ proven \subseteq People
    /\ errors \in 0..MaxErrors
    /\ shown \in [Orgs -> {"never", "before", "current"}]
    /\ seen \in [Orgs -> 0..FreshDays]
    /\ \A o, q \in Orgs : IsVerified(o) /\ IsVerified(q) => o = q

Seats(o) == {p \in People : member[p] = o /\ p \notin disabled}
FreeSeat(o) == Cardinality(Seats(o)) < SeatLimit[o]

(* slip: the age of the last check does not matter *)
CapturedOnce(o) == IsVerified(o) /\ claim[o].failing = Never /\ claim[o].auto

(* domainVerifiedFor *)
Captured(o) == CapturedOnce(o) /\ claim[o].checked < FreshDays

(* eligibleAccounts *)
Eligible(p) == p \in proven /\ member[p] = Nobody

(***************************************************************************)
(* The record, which the organization keeps in DNS                         *)
(***************************************************************************)

Publish(o) ==
    /\ claim[o] # NoClaim
    /\ dns[o] # "current"
    /\ dns' = [dns EXCEPT ![o] = "current"]
    /\ shown' = [shown EXCEPT ![o] = "current"]
    /\ seen' = [seen EXCEPT ![o] = 0]
    /\ UNCHANGED <<claim, checks, job, runs, member, disabled, proven, errors>>

Withdraw(o) ==
    /\ dns[o] # "none"
    /\ dns' = [dns EXCEPT ![o] = "none"]
    /\ UNCHANGED <<claim, checks, job, runs, member, disabled, proven, errors, shown, seen>>

(* What a new token makes of the record, of its history and of the checks. *)
Rotate(o) ==
    /\ dns' = [dns EXCEPT ![o] = IF @ = "none" THEN @ ELSE "old"]
    /\ shown' = [shown EXCEPT ![o] = IF @ = "never" THEN @ ELSE "before"]

Replaced(cs, o) == {IF c.org = o THEN [c EXCEPT !.stale = TRUE] ELSE c : c \in cs}

(***************************************************************************)
(* Claims                                                                  *)
(***************************************************************************)

(* addDomain: a new claim, or a new token for one that has expired. *)
AddDomain(o) ==
    /\ \A other \in Orgs \ {o} : ~IsVerified(other)
    /\ \/ /\ claim[o] = NoClaim
          /\ claim' = [claim EXCEPT ![o] = Pending(0, FALSE)]
          /\ UNCHANGED <<dns, checks, shown>>
       \/ /\ claim[o].status = "pending" /\ claim[o].issued > TokenDays
          /\ claim' = [claim EXCEPT ![o].issued = 0]
          /\ Rotate(o)
          /\ checks' = Replaced(checks, o)
    /\ UNCHANGED <<job, runs, member, disabled, proven, errors, seen>>

(* slip: an answer finds its claim by organization and domain *)
ByDomain(o) == Replaced(checks, o)

(* A check finds its claim by id, which a claim added later does not have. *)
Surviving(o) == {c \in checks : c.org # o}

DeleteDomain(o) ==
    /\ claim[o] # NoClaim
    /\ claim' = [claim EXCEPT ![o] = NoClaim]
    /\ checks' = Surviving(o)
    /\ dns' = [dns EXCEPT ![o] = "none"]
    /\ shown' = [shown EXCEPT ![o] = "never"]
    /\ UNCHANGED <<job, runs, member, disabled, proven, errors, seen>>

Migration(o, by) == [org |-> o, read |-> FALSE, left |-> {}, by |-> by]

RequestFree ==
    Cardinality({c \in checks : c.by = "request"}) + Cardinality({r \in runs : r.by = "request"})
        < MaxRequests

(* setAutoJoin: the switch commits, and a migration follows it. *)
SwitchAutoJoin(o) ==
    /\ claim[o] # NoClaim
    /\ claim[o].auto \/ RequestFree
    /\ claim' = [claim EXCEPT ![o].auto = ~@]
    /\ runs' = IF claim[o].auto THEN runs ELSE runs \cup {Migration(o, "request")}
    /\ UNCHANGED <<dns, checks, job, member, disabled, proven, errors, shown, seen>>

(***************************************************************************)
(* Checks                                                                  *)
(***************************************************************************)

(* checkDomainNow refuses an expired claim. *)
CheckNow(o) ==
    /\ claim[o] # NoClaim
    /\ claim[o].status = "pending" => claim[o].issued <= TokenDays
    /\ RequestFree
    /\ checks' = checks \cup {[org |-> o, age |-> 0, stale |-> FALSE, by |-> "request",
                               answer |-> "none"]}
    /\ UNCHANGED <<claim, dns, job, runs, member, disabled, proven, errors, shown, seen>>

(* recheckDomains reads every verified claim with its token, then asks. *)
JobStart ==
    /\ job.phase = "due"
    /\ job' = [phase |-> "checking", left |-> {}]
    /\ checks' = checks \cup
            {[org |-> o, age |-> 0, stale |-> FALSE, by |-> "job", answer |-> "none"] :
                o \in {v \in Orgs : IsVerified(v)}}
    /\ UNCHANGED <<claim, dns, runs, member, disabled, proven, errors, shown, seen>>

(* slip: any token of the domain will do *)
AnyRecord(c) == \E o \in Orgs : dns[o] # "none"

(* txtAnswerMatches *)
HasRecord(c) == dns[c.org] = IF c.stale THEN "old" ELSE "current"

(* checkDomainRecord: an error counts as a record that is not there. *)
Ask(c) ==
    /\ c.answer = "none"
    /\ \E a \in {"missing"} \cup IF HasRecord(c) THEN {"found"} ELSE {} :
            checks' = (checks \ {c}) \cup {[c EXCEPT !.answer = a]}
    /\ UNCHANGED <<claim, dns, job, runs, member, disabled, proven, errors, shown, seen>>

(* slip: every failed check starts the grace period again *)
FailsAfresh(k, c) == c.age

(* failing_since is kept from the first failure. *)
FailingAge(k, c) == IF k.failing = Never THEN c.age ELSE k.failing

(* applyDomainCheck: the claim and whether it is given a new token. *)
Outcome(c) ==
    LET k == claim[c.org]
        failing == FailingAge(k, c)
        found == c.answer = "found"
    IN  IF k.status = "pending"
        THEN IF k.issued > TokenDays + c.age \/ ~found THEN [next |-> k, rotate |-> FALSE]
             ELSE [next |-> Verified(c.age, Never, k.auto), rotate |-> FALSE]
        ELSE IF found THEN [next |-> Verified(c.age, Never, k.auto), rotate |-> FALSE]
        ELSE IF failing >= GraceDays + c.age
             THEN [next |-> Pending(c.age, k.auto), rotate |-> TRUE]
             ELSE [next |-> Verified(c.age, failing, k.auto), rotate |-> FALSE]

(* slip: the index lets two organizations verify one domain *)
NeverTaken(k, o) == FALSE

(* The unique index on verified claims. *)
Taken(k, o) == k.status = "verified" /\ \E q \in Orgs \ {o} : IsVerified(q)

(* applyOutcome under the row's lock, then afterCheck, whose migration the *)
(* daily run leaves to its end.                                            *)
Apply(c) ==
    LET r == Outcome(c)
        done == checks \ {c}
        captures == /\ r.next.status = "verified" /\ r.next.failing = Never /\ r.next.auto
                    /\ IsVerified(c.org) => claim[c.org].failing # Never
    IN  /\ c.answer # "none"
        /\ IF claim[c.org] = NoClaim \/ Taken(r.next, c.org)
           THEN UNCHANGED <<claim, dns, shown, runs>> /\ checks' = done
           ELSE /\ claim' = [claim EXCEPT ![c.org] = r.next]
                /\ IF r.rotate THEN Rotate(c.org) /\ checks' = Replaced(done, c.org)
                   ELSE UNCHANGED <<dns, shown>> /\ checks' = done
                /\ runs' = IF captures /\ c.by = "request"
                           THEN runs \cup {Migration(c.org, "request")} ELSE runs
        /\ UNCHANGED <<job, member, disabled, proven, errors, seen>>

(***************************************************************************)
(* Joining                                                                 *)
(***************************************************************************)

(* slip: only a request migrates *)
NothingToMigrate == {}

(* Every verified claim: a migration finds out itself if it is captured. *)
ToMigrate == {o \in Orgs : IsVerified(o)}

(* When its checks are done the daily run migrates every verified claim,   *)
(* one after the other.                                                    *)
JobChecked ==
    /\ job.phase = "checking"
    /\ \A c \in checks : c.by # "job"
    /\ job' = [phase |-> "migrating", left |-> ToMigrate]
    /\ UNCHANGED <<claim, dns, checks, runs, member, disabled, proven, errors, shown, seen>>

JobNext ==
    /\ job.phase = "migrating"
    /\ \A r \in runs : r.by # "job"
    /\ IF job.left = {} THEN job' = [job EXCEPT !.phase = "done"] /\ UNCHANGED runs
       ELSE \E o \in job.left : /\ job' = [job EXCEPT !.left = @ \ {o}]
                                /\ runs' = runs \cup {Migration(o, "job")}
    /\ UNCHANGED <<claim, dns, checks, member, disabled, proven, errors, shown, seen>>

(* slip: the claim was captured when the migration began *)
WasCaptured(o) == TRUE

(* authorityHolds, read in the transaction of each join *)
MayJoin(o) == Captured(o)

(* migrateDomainAccounts, its first reads *)
MigrationReads(r) ==
    /\ ~r.read
    /\ runs' = (runs \ {r}) \cup
            IF Captured(r.org) THEN {[r EXCEPT !.read = TRUE, !.left = {p \in People : Eligible(p)}]}
            ELSE {}
    /\ UNCHANGED <<claim, dns, checks, job, member, disabled, proven, errors, shown, seen>>

(* One account of a migration: joinOrganizationInTx.  A refusal for want   *)
(* of a seat or of authority ends the run; an error skips the account.     *)
MigrateOne(r, p) ==
    LET rest == [r EXCEPT !.left = @ \ {p}]
    IN  /\ p \in r.left
        /\ \/ /\ MayJoin(r.org) /\ member[p] = Nobody /\ FreeSeat(r.org)
              /\ member' = [member EXCEPT ![p] = r.org]
              /\ runs' = (runs \ {r}) \cup {rest}
           \/ /\ MayJoin(r.org) /\ member[p] # Nobody
              /\ runs' = (runs \ {r}) \cup {rest}
              /\ UNCHANGED member
           \/ /\ ~MayJoin(r.org) \/ (member[p] = Nobody /\ ~FreeSeat(r.org))
              /\ runs' = runs \ {r}
              /\ UNCHANGED member
    /\ UNCHANGED <<claim, dns, checks, job, disabled, proven, errors, shown, seen>>

JoinFails(r, p) ==
    /\ p \in r.left
    /\ errors < MaxErrors
    /\ errors' = errors + 1
    /\ runs' = (runs \ {r}) \cup {[r EXCEPT !.left = @ \ {p}]}
    /\ UNCHANGED <<claim, dns, checks, job, member, disabled, proven, shown, seen>>

MigrationEnds(r) ==
    /\ r.read /\ r.left = {}
    /\ runs' = runs \ {r}
    /\ UNCHANGED <<claim, dns, checks, job, member, disabled, proven, errors, shown, seen>>

(* joinAtProofStep: the click that proves the address joins it too.  With  *)
(* no seat free the click is refused whole.                                *)
ProofStep(p) ==
    /\ p \notin proven
    /\ \A o \in Orgs : Captured(o) /\ member[p] = Nobody => FreeSeat(o)
    /\ proven' = proven \cup {p}
    /\ member' = [member EXCEPT ![p] =
            IF @ # Nobody \/ \A o \in Orgs : ~Captured(o) THEN @
            ELSE CHOOSE o \in Orgs : Captured(o)]
    /\ UNCHANGED <<claim, dns, checks, job, runs, disabled, errors, shown, seen>>

(* A manager disables a member, which frees a seat. *)
Disable(p) ==
    /\ member[p] # Nobody /\ p \notin disabled
    /\ disabled' = disabled \cup {p}
    /\ UNCHANGED <<claim, dns, checks, job, runs, member, proven, errors, shown, seen>>

(***************************************************************************)
(* Time and failure                                                        *)
(***************************************************************************)

Aged(k) ==
    CASE k.status = "none" -> k
      [] k.status = "pending" -> Pending(Older(k.issued, TokenDays + 1), k.auto)
      [] OTHER -> Verified(Older(k.checked, FreshDays),
                           IF k.failing = Never THEN Never ELSE Older(k.failing, GraceDays + 1),
                           k.auto)

(* A day passes.  A lookup takes seconds, so no check is open for two of   *)
(* them; the run is due again.                                             *)
NextDay ==
    /\ \A c \in checks : c.age = 0
    /\ job.phase \in {"due", "done"}
    /\ claim' = [o \in Orgs |-> Aged(claim[o])]
    /\ checks' = {[c EXCEPT !.age = 1] : c \in checks}
    /\ job' = [phase |-> "due", left |-> {}]
    /\ seen' = [o \in Orgs |-> IF dns[o] = "none" THEN Older(seen[o], FreshDays) ELSE 0]
    /\ UNCHANGED <<dns, runs, member, disabled, proven, errors, shown>>

(* The process that ran the job goes away; the next run is tomorrow's. *)
JobLost ==
    /\ job.phase \in {"checking", "migrating"}
    /\ errors < MaxErrors
    /\ errors' = errors + 1
    /\ job' = [phase |-> "done", left |-> {}]
    /\ checks' = {c \in checks : c.by # "job"}
    /\ runs' = {r \in runs : r.by # "job"}
    /\ UNCHANGED <<claim, dns, member, disabled, proven, shown, seen>>

(***************************************************************************)
(* The system                                                              *)
(***************************************************************************)

Init ==
    /\ claim = [o \in Orgs |-> NoClaim]
    /\ dns = [o \in Orgs |-> "none"]
    /\ checks = {} /\ runs = {}
    /\ job = [phase |-> "done", left |-> {}]
    /\ member = [p \in People |-> Nobody]
    /\ disabled = {}
    /\ proven \in SUBSET People
    /\ errors = 0
    /\ shown = [o \in Orgs |-> "never"]
    /\ seen = [o \in Orgs |-> FreshDays]

Requests(o) ==
    \/ Publish(o) \/ Withdraw(o)
    \/ AddDomain(o) \/ DeleteDomain(o) \/ SwitchAutoJoin(o) \/ CheckNow(o)

Checking(c) == Ask(c) \/ Apply(c)
Migrating(r) == MigrationReads(r) \/ MigrationEnds(r) \/ \E p \in People : MigrateOne(r, p)
Job == JobStart \/ JobChecked \/ JobNext

Next ==
    \/ \E o \in Orgs : Requests(o)
    \/ Job
    \/ \E c \in checks : Checking(c)
    \/ \E r \in runs : Migrating(r)
    \/ \E r \in runs, p \in People : JoinFails(r, p)
    \/ \E p \in People : ProofStep(p) \/ Disable(p)
    \/ NextDay \/ JobLost

Spec == Init /\ [][Next]_vars

(* Days pass, pg-boss starts the run that is due, and the run's checks and *)
(* migrations go on; so does a request's check, which a timeout ends.      *)
FairSpec ==
    /\ Spec
    /\ WF_vars(NextDay) /\ WF_vars(Job)
    /\ WF_vars(\E c \in checks : (c.by = "job" \/ c.age = 1) /\ Checking(c))
    /\ WF_vars(\E r \in runs : r.by = "job" /\ Migrating(r))

(***************************************************************************)
(* Properties                                                              *)
(***************************************************************************)

(* A claim is verified only by a record with a token given out for that    *)
(* very claim: not another organization's record, nor one found for a      *)
(* claim that was removed and added again while DNS was asked.             *)
VerifiedByItsRecord == \A o \in Orgs : IsVerified(o) => shown[o] # "never"

(* Nobody joins on a domain whose record has been away for the freshness   *)
(* period, or whose claim is switched off, failing, lapsed or removed,     *)
(* even when the run that joins them began while it was good (OD-R6).      *)
JoinsAreAuthorised ==
    [][\A p \in People : member'[p] # member[p] =>
        /\ seen[member'[p]] < FreshDays
        /\ CapturedOnce(member'[p])]_vars

(* An account on a captured domain with a seat free is not left waiting,   *)
(* whatever failed on the way: the daily run is the retry (OD-X6).         *)
NobodyWaitsForever ==
    \A p \in People : \A o \in Orgs : []<>~(Captured(o) /\ FreeSeat(o) /\ Eligible(p))

(* A failing claim recovers or lapses: it does not stay frozen (OD-R4). *)
FailingEnds ==
    \A o \in Orgs : (IsVerified(o) /\ claim[o].failing # Never)
                        ~> ~(IsVerified(o) /\ claim[o].failing # Never)

=============================================================================
