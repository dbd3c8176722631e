--------------------------- MODULE DirectoryCheck ---------------------------
(***************************************************************************)
(* The check of an organization's members against the company's Google     *)
(* Workspace directory (authz/directory-check.ts, authz/directory-sql.ts,  *)
(* services/directory-connection.service.ts).                              *)
(*                                                                         *)
(* A request whose credential is due claims the member's check in one      *)
(* statement, asks Google without a lock, and records the answer in two    *)
(* more: the member's row, then the connection's.  A manager who ends or   *)
(* replaces the connection is asked about in the same way first.           *)
(*                                                                         *)
(* Times are ages in hours, which saturate; thirty seconds, the life of a  *)
(* claim, are an event within the hour.  One organization, whose members   *)
(* are all on the domain; whether the domain's claim is current comes from *)
(* OrganizationDomains and is free to change here.                         *)
(***************************************************************************)
EXTENDS FiniteSets, Naturals

CONSTANTS
    Members,
    Managers,      \* the owners and admins among them
    Tasks,         \* bound: requests that hold a check at once
    StaleHours,    \* DIRECTORY_STALE_HOURS
    WarningHours,  \* DIRECTORY_WARNING_HOURS
    HoldHours,     \* DIRECTORY_HOLD_HOURS
    Horizon        \* bound: the oldest age told apart

Never == 99   \* an age that is null in the database
Quiet == IF WarningHours > HoldHours THEN WarningHours ELSE HoldHours

ASSUME DirectoryAssumption ==
    /\ Managers \subseteq Members
    /\ StaleHours \in Nat \ {0} /\ WarningHours \in Nat \ {0} /\ HoldHours \in Nat \ {0}
    /\ Horizon \in Nat /\ Quiet <= StaleHours /\ StaleHours <= Horizon /\ Horizon < Never

VARIABLES
    google,  \* is the account active in the company's directory?
    domain,  \* is the domain claim current?
    conn,    \* organization_directory_connections
    row,     \* the directory columns of organization_members
    task,    \* the checks in flight
    off      \* history: hours since the account was last active at Google

vars == <<google, domain, conn, row, task, off>>

Older(age, limit) == IF age = Never THEN Never ELSE IF age < limit THEN age + 1 ELSE limit
Age == 0..Horizon \cup {Never}

NoConn == [connected |-> Never, success |-> Never, warned |-> Never, run |-> FALSE]
NewConn == [connected |-> 0, success |-> 0, warned |-> Never, run |-> FALSE]
Connected == conn # NoConn

NoRow == [status |-> "none", checked |-> Never, claimed |-> FALSE]

(* What a check is for: the hourly question, or a manager on the way to    *)
(* disconnect or to replace the connection.                                *)
Purposes == {"check", "disconnect", "connect"}
Idle == [step |-> "idle"]
Ask(m, for) ==
    [step |-> "asking", member |-> m, for |-> for, answer |-> "none", age |-> "fresh", old |-> FALSE]
Asks == [step : {"asking", "answered", "recorded", "holding", "change"}, member : Members,
         for : Purposes, answer : {"none", "active", "off", "unreachable", "error"},
         age : {"fresh", "slow", "late"}, old : BOOLEAN]

TypeOK ==
    /\ google \in [Members -> {"active", "off"}]
    /\ domain \in BOOLEAN
    /\ conn \in [connected : Age, success : Age, warned : Age, run : BOOLEAN]
    /\ row \in [Members -> [status : {"none", "active", "off"}, checked : Age, claimed : BOOLEAN]]
    /\ task \in [Tasks -> Asks \cup {Idle}]
    /\ off \in [Members -> 0..Horizon]
    /\ conn.run => conn.warned # Never /\ (conn.success = 0 => conn.warned = 0)

(***************************************************************************)
(* Who is refused, and who is due                                          *)
(***************************************************************************)

(* slip: a refusal holds only while the domain claim is current (F113) *)
InactiveWhileCurrent(m) == row[m].status = "off" /\ Connected /\ domain

(* directoryInactive *)
Inactive(m) == row[m].status = "off" /\ Connected

(* slip: a member no check has reached cannot go stale *)
CheckedOnce(m) ==
    Connected /\ domain /\ row[m].checked # Never /\ row[m].checked >= StaleHours

(* directoryUnconfirmed *)
Unconfirmed(m) ==
    /\ Connected /\ domain
    /\ (IF row[m].checked = Never THEN conn.connected ELSE row[m].checked) >= StaleHours

(* The part of orgMembershipDisabled that the directory decides. *)
Refused(m) == Inactive(m) \/ Unconfirmed(m)

(* slip: a check in flight does not keep the next one back *)
AnyClaim(m) == TRUE

ClaimFree(m) == ~row[m].claimed

(* directoryCheckDue *)
Due(m) == Connected /\ domain /\ row[m].checked \in {Never} \cup 1..Horizon /\ ClaimFree(m)

(***************************************************************************)
(* A check                                                                 *)
(***************************************************************************)

(* runCheck: the claim, by one conditional update. *)
Claim(t, m) ==
    /\ task[t] = Idle
    /\ Due(m)
    /\ row' = [row EXCEPT ![m].claimed = TRUE]
    /\ task' = [task EXCEPT ![t] = Ask(m, "check")]
    /\ UNCHANGED <<google, domain, conn, off>>

(* askDirectoryAboutActor claims whatever is claimed, checked or current;  *)
(* a new credential is asked about the person who brings it without a      *)
(* claim.                                                                  *)
ManagerAsks(t, m, for) ==
    /\ task[t] = Idle
    /\ m \in Managers /\ ~Refused(m)
    /\ \/ /\ for = "disconnect" /\ Connected
          /\ row' = [row EXCEPT ![m].claimed = TRUE]
       \/ /\ for = "connect" /\ domain
          /\ UNCHANGED row
    /\ task' = [task EXCEPT ![t] = Ask(m, for)]
    /\ UNCHANGED <<google, domain, conn, off>>

(* The directory's answer, or the lack of one. *)
Answer(t) ==
    /\ task[t].step = "asking"
    /\ \E a \in {google[task[t].member], "unreachable", "error"} :
            task' = [task EXCEPT ![t].step = "answered", ![t].answer = a]
    /\ UNCHANGED <<google, domain, conn, row, off>>

Says(t) == task[t].answer \in {"active", "off"}

(* askAndRecord, the member's row: by its id, whoever holds the claim and  *)
(* whatever the connection is by then.                                     *)
Answered(t) ==
    LET m == task[t].member
    IN  /\ task[t].step = "answered" /\ task[t].for # "connect"
        /\ row' = [row EXCEPT ![m] = IF Says(t)
                THEN [status |-> task[t].answer, checked |-> 0, claimed |-> FALSE]
                ELSE [@ EXCEPT !.claimed = TRUE]]
        /\ task' = [task EXCEPT ![t].step = "recorded"]
        /\ UNCHANGED <<google, domain, conn, off>>

(* What a task does when its answer is recorded. *)
After(t) ==
    IF task[t].for = "check" \/ task[t].answer = "off" THEN Idle
    ELSE [task[t] EXCEPT !.step = IF Says(t) THEN "change" ELSE "holding"]

(* recordConnectionTrouble: a refused credential warns at once, at most    *)
(* daily; silence warns after WarningHours.                                *)
Warns(t) ==
    /\ ~conn.run
    /\ \/ conn.success >= WarningHours
       \/ task[t].answer = "error" /\ conn.warned \in {Never, StaleHours}

Warn == [conn EXCEPT !.warned = 0, !.run = TRUE]

(* slip: a warning outlives the success that ends its run of failures *)
SuccessWithRun == [conn EXCEPT !.success = 0]

Success == [conn EXCEPT !.success = 0, !.run = FALSE]

(* askAndRecord and recordConnectionTrouble, the connection's row. *)
Recorded(t) ==
    /\ task[t].step = "recorded"
    /\ LET warns == Connected /\ ~Says(t) /\ Warns(t)
       IN  conn' = IF ~Connected THEN conn
                   ELSE IF Says(t) THEN Success
                   ELSE IF warns THEN Warn ELSE conn
    /\ task' = [task EXCEPT ![t] = After(t)]
    /\ UNCHANGED <<google, domain, row, off>>

(***************************************************************************)
(* Ending and replacing the connection                                     *)
(***************************************************************************)

(* connectServiceAccount: the new credential's answer is not recorded. *)
NewCredentialSays(t) ==
    /\ task[t].step = "answered" /\ task[t].for = "connect"
    /\ task' = [task EXCEPT ![t] = After(t)]
    /\ UNCHANGED <<google, domain, conn, row, off>>

(* slip: the hold counts from any warning, also one of earlier trouble *)
AnyWarning == conn.warned # Never

(* WARNED_THIS_RUN *)
WarnedThisRun == conn.run

(* directoryHoldOver warns now if nothing has, and lets the manager go     *)
(* ahead HoldHours after the warning.                                      *)
HoldOver(t) ==
    /\ task[t].step = "holding"
    /\ IF Connected /\ ~WarnedThisRun
       THEN conn' = Warn /\ task' = [task EXCEPT ![t] = Idle]
       ELSE /\ task' = [task EXCEPT ![t] = IF Connected /\ conn.warned < HoldHours THEN Idle
                                           ELSE [@ EXCEPT !.step = "change"]]
            /\ UNCHANGED conn
    /\ UNCHANGED <<google, domain, row, off>>

(* resetMemberStatuses *)
Cleared == [m \in Members |-> NoRow]

(* The checks in flight hold the credential of a connection that is gone. *)
Outlived(ts) == [t \in Tasks |-> IF ts[t] = Idle THEN Idle ELSE [ts[t] EXCEPT !.old = TRUE]]

(* saveDirectoryConnection stores nothing for a manager the directory has  *)
(* refused since.                                                          *)
SaveConnection(t) ==
    /\ task[t].step = "change" /\ task[t].for = "connect"
    /\ IF Inactive(task[t].member)
       THEN task' = [task EXCEPT ![t] = Idle] /\ UNCHANGED <<conn, row>>
       ELSE /\ conn' = NewConn
            /\ row' = Cleared
            /\ task' = Outlived([task EXCEPT ![t] = Idle])
    /\ UNCHANGED <<google, domain, off>>

Removal ==
    /\ conn' = NoConn
    /\ row' = Cleared
    /\ UNCHANGED <<google, domain, off>>

(* deleteDirectoryConnection, by the manager who was asked about *)
DeleteConnection(t) ==
    /\ task[t].step = "change" /\ task[t].for = "disconnect"
    /\ Removal
    /\ task' = Outlived([task EXCEPT ![t] = Idle])

(* DELETE by the site operator, who is not asked about *)
OperatorDeletes ==
    /\ Connected
    /\ Removal
    /\ task' = Outlived(task)

(***************************************************************************)
(* The company, Google, the clock and failures                             *)
(***************************************************************************)

Suspend(m) ==
    /\ google[m] = "active"
    /\ google' = [google EXCEPT ![m] = "off"]
    /\ UNCHANGED <<domain, conn, row, task, off>>

Restore(m) ==
    /\ google[m] = "off"
    /\ google' = [google EXCEPT ![m] = "active"]
    /\ off' = [off EXCEPT ![m] = 0]
    /\ UNCHANGED <<domain, conn, row, task>>

DomainTurns ==
    /\ domain' = ~domain
    /\ UNCHANGED <<google, conn, row, task, off>>

StillClaimed == FALSE

(* DIRECTORY_CLAIM_SECONDS have passed since the member was claimed. *)
ClaimEnds(m) ==
    /\ row[m].claimed
    /\ row' = [row EXCEPT ![m].claimed = StillClaimed]
    /\ task' = [t \in Tasks |-> IF task[t] # Idle /\ task[t].member = m /\ task[t].age = "fresh"
                                THEN [task[t] EXCEPT !.age = "slow"] ELSE task[t]]
    /\ UNCHANGED <<google, domain, conn, off>>

(* An hour passes.  No request lasts two. *)
Hour ==
    /\ \A t \in Tasks : task[t] # Idle => task[t].age # "late"
    /\ task' = [t \in Tasks |-> IF task[t] = Idle THEN Idle ELSE [task[t] EXCEPT !.age = "late"]]
    /\ conn' = [conn EXCEPT !.connected = Older(@, Horizon), !.success = Older(@, Quiet),
                            !.warned = Older(@, StaleHours)]
    /\ row' = [m \in Members |-> [row[m] EXCEPT !.checked = Older(@, StaleHours),
                                               !.claimed = @ /\ StillClaimed]]
    /\ off' = [m \in Members |-> IF google[m] = "off" THEN Older(off[m], Horizon) ELSE 0]
    /\ UNCHANGED <<google, domain>>

(* The process dies; the claim stays. *)
TaskDies(t) ==
    /\ task[t] # Idle
    /\ task' = [task EXCEPT ![t] = Idle]
    /\ UNCHANGED <<google, domain, conn, row, off>>

(***************************************************************************)
(* The system                                                              *)
(***************************************************************************)

Init ==
    /\ google = [m \in Members |-> "active"]
    /\ domain = TRUE
    /\ conn = NewConn
    /\ row = Cleared
    /\ task = [t \in Tasks |-> Idle]
    /\ off = [m \in Members |-> 0]

Going(t) ==
    \/ Answer(t) \/ Answered(t) \/ Recorded(t) \/ NewCredentialSays(t) \/ HoldOver(t)
    \/ SaveConnection(t) \/ DeleteConnection(t)

Starting(t, m) ==
    \/ Claim(t, m)
    \/ \E for \in {"disconnect", "connect"} : ManagerAsks(t, m, for)

World == DomainTurns \/ \E m \in Members : Suspend(m) \/ Restore(m) \/ ClaimEnds(m)

Next ==
    \/ \E t \in Tasks : Going(t) \/ TaskDies(t) \/ \E m \in Members : Starting(t, m)
    \/ OperatorDeletes
    \/ World
    \/ Hour

Spec == Init /\ [][Next]_vars

(***************************************************************************)
(* Properties                                                              *)
(***************************************************************************)

(* While a claim is live nobody else asks Google about the member under    *)
(* the same connection, however many requests come (OB-C5).                *)
OneAskAtATime ==
    \A m \in Members :
        Cardinality({t \in Tasks : /\ task[t] # Idle /\ task[t].step = "asking"
                                   /\ task[t].member = m /\ task[t].for = "check"
                                   /\ task[t].age = "fresh" /\ ~task[t].old}) <= 1

(* Someone the company has switched off does not work on past the stale    *)
(* period and the hour an old answer may take, whatever fails: no answer,  *)
(* a late one, a claim that died, a pause of the domain (OB-C7).           *)
OutWithinTheDay ==
    \A m \in Members :
        Connected /\ domain /\ off[m] > StaleHours /\ conn.connected > StaleHours
            => Refused(m)

(* Once the directory has refused someone, only another answer of the      *)
(* directory or a change of the connection lets them in: not a domain that *)
(* lapses, nor an outage (OB-C9).                                          *)
RefusalHolds ==
    [][\A m \in Members :
        Refused(m) /\ row[m].status = "off" /\ row'[m].status = "off" => Refused(m)']_vars

(* A manager Google does not confirm ends or replaces the connection only  *)
(* when the others were warned HoldHours ago, and no check has succeeded   *)
(* since (OB-K8).                                                          *)
OthersHadTheirTime ==
    [][\A t \in Tasks :
        task[t].step = "holding" /\ task'[t].step = "change" /\ Connected
            => conn.warned \in HoldHours..StaleHours /\ conn.success >= HoldHours]_vars

(* "Replacing it clears every member's directory status, so nobody stays   *)
(* switched off by the old one" (saveDirectoryConnection).                 *)
NobodyOffByTheOld ==
    [][\A m \in Members : \A t \in Tasks :
        task[t] # Idle /\ task[t].old /\ task[t].member = m /\ row'[m].status = "off"
            => row[m].status = "off"]_vars

=============================================================================
