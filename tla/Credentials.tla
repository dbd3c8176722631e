---------------------------- MODULE Credentials -----------------------------
(***************************************************************************)
(* What one account is signed in to with: password sessions and Google     *)
(* handoffs, the verification and the reset of its mailbox, and the OAuth  *)
(* connections a session consents to (auth.ts, authz/session-state.ts,     *)
(* services/google-sign-in.service.ts, services/oauth.service.ts,          *)
(* authz/key-auth.ts, routes/auth.ts, routes/oauth.ts).                    *)
(*                                                                         *)
(* A session is a JWT that nobody can take back: whether it is still good  *)
(* is decided by comparing its date with the account's cut-off, and the    *)
(* clocks that stamp the two are of different tasks.  A statement, or a    *)
(* transaction that holds the account's row, is one step; what a request   *)
(* carries from one to the next is in `doing`.                             *)
(***************************************************************************)
EXTENDS FiniteSets, Naturals

CONSTANTS
    Google,         \* Google accounts that hold the account's address
    Authoritative,  \* those Google vouches for (googleIsAuthoritative)
    Requests,       \* bound: requests in flight
    Rows,           \* rows of sso_login_requests
    Consents,       \* consents given on the authorization page
    Bundles,        \* rows of api_keys with key_type 'oauth'
    Password,       \* how a session is signed in that Google has no part in
    Nothing,
    Skew,           \* how far the clock of one task is ahead, in seconds
    Margin,         \* CUT_OFF_MARGIN_SECONDS
    MaxTime,        \* bound: seconds
    MaxCuts,        \* bound: cut-offs
    MaxBegun        \* bound: password sign-ins and verifications begun

ASSUME CredentialsAssumption ==
    /\ Authoritative \subseteq Google
    /\ Password \notin Google /\ Nothing \notin Google \cup Rows \cup Consents
    /\ Skew \in Nat /\ Margin \in Nat /\ Skew < Margin
    /\ MaxTime \in Nat /\ MaxCuts \in Nat /\ MaxBegun \in Nat

VARIABLES
    now,       \* the time; a task's clock shows now..now + Skew
    account,   \* claimnet.users: has a password, is verified, cut-off
    linked,    \* user_identities
    sso,       \* sso_login_requests, with the callback that works on each
    sessions,  \* JWTs signed
    doing,     \* what each request carries between its statements
    code,      \* oauth_authorization_codes, and the grant on its way there
    bundle,    \* api_keys
    begun,     \* sign-ins and verifications begun
    cuts,      \* history: cut-offs committed
    apart,     \* history: every cut-off is later than the one before it
    dropped    \* history: consents whose code was pending at a cut-off

vars == <<now, account, linked, sso, sessions, doing, code, bundle, begun, cuts, apart, dropped>>

Clock == now..now + Skew
Dates == 0..MaxTime + Skew + Margin

(* A session: its date, how it was proved and by which handoff, and the    *)
(* number of cut-offs there had been when it was.                          *)
Session == [iat : Dates, by : Google \cup {Password}, from : Rows \cup {Nothing}, saw : 0..MaxCuts]

Idle == [step |-> "idle"]

(* SessionDating of a person proved, whose session is yet to be signed.    *)
Signing(at, since, by, from, saw) ==
    [step |-> "sign", at |-> at, since |-> since, by |-> by, from |-> from, saw |-> saw]
Verifying(at, proved, confirmed, session) ==
    [step |-> "verify", at |-> at, since |-> account.cutOff, saw |-> cuts,
     proved |-> proved, confirmed |-> confirmed, session |-> session]
Rotating(b) == [step |-> "rotate", of |-> b]
Doing ==
    {Idle} \cup {Rotating(b) : b \in Bundles}
    \cup [step : {"sign"}, at : Dates, since : Dates, by : Google \cup {Password},
          from : Rows \cup {Nothing}, saw : 0..MaxCuts]
    \cup [step : {"verify"}, at : Dates, since : Dates, saw : 0..MaxCuts,
          proved : BOOLEAN, confirmed : BOOLEAN, session : Session \cup {Nothing}]

NoSignIn == [step |-> "idle", by |-> Nothing, saw |-> 0]
SignInRow ==
    {NoSignIn} \cup [step : {"claims", "resolved", "handoff", "used"}, by : Google, saw : 0..MaxCuts]
NoBundle == [line |-> Nothing, state |-> "none"]

TypeOK ==
    /\ now \in 0..MaxTime
    /\ account \in [password : BOOLEAN, verified : BOOLEAN, cutOff : Dates]
    /\ linked \subseteq Google
    /\ sso \in [Rows -> SignInRow]
    /\ sessions \subseteq Session
    /\ doing \in [Requests -> Doing]
    /\ code \in [Consents -> {"none", "judged", "pending", "redeemed", "over"}]
    /\ bundle \in [Bundles -> {NoBundle} \cup
                              [line : Consents, state : {"live", "spent", "over"}]]
    /\ begun \in 0..MaxBegun /\ cuts \in 0..MaxCuts /\ apart \in BOOLEAN
    /\ dropped \subseteq Consents
    /\ ~account.verified => \A c \in Consents : code[c] = "none"

(***************************************************************************)
(* The session cut-off                                                     *)
(***************************************************************************)

(* sessionState: a session dated before the cut-off is refused. *)
Accepted(s) == s.iat >= account.cutOff

(* slip: the cut-off is the present second (before F145) *)
PresentSecond(clock) == clock

CutOffAt(clock) == clock + Margin

(* slip: a cut-off cancels no handoff (before F143) *)
HandoffsStay(rows) == rows

(* invalidateSessions cancels the handoffs there are ... *)
Cancelled(rows) ==
    [r \in Rows |-> IF rows[r].step = "handoff" THEN [rows[r] EXCEPT !.step = "used"] ELSE rows[r]]

(* slip: the authorization codes stay (before F160) *)
CodesStay(codes) == codes

(* ... and deletes the authorization codes. *)
Deleted(codes) == [c \in Consents |-> IF codes[c] = "pending" THEN "over" ELSE codes[c]]

(* invalidateSessions, in the transaction that writes the account's row.   *)
CutOff(becomes, rows) ==
    /\ cuts < MaxCuts
    /\ account' = becomes
    /\ cuts' = cuts + 1
    /\ apart' = (apart /\ becomes.cutOff > account.cutOff)
    /\ dropped' = dropped \cup {c \in Consents : code[c] = "pending"}
    /\ sso' = Cancelled(rows)
    /\ code' = Deleted(code)

NoCutOff == UNCHANGED <<account, cuts, apart, dropped, code>>

(***************************************************************************)
(* Password sign-in                                                        *)
(***************************************************************************)

Begin(q, what) ==
    /\ doing[q] = Idle
    /\ begun < MaxBegun
    /\ begun' = begun + 1
    /\ doing' = [doing EXCEPT ![q] = what]

End(q) == doing' = [doing EXCEPT ![q] = Idle]

(* loginUser: the clock first, then one read of password and cut-off. *)
Login(q) ==
    /\ account.password
    /\ \E at \in Clock : Begin(q, Signing(at, account.cutOff, Password, Nothing, cuts))
    /\ UNCHANGED <<now, linked, sso, sessions, bundle>> /\ NoCutOff

(* slip: the session is dated when it is signed *)
WhenSigned(d) == now

Dated(d) == IF d.at > d.since THEN d.at ELSE d.since

(* signInProved, and the end of POST /auth/google/exchange; or the account *)
(* is waitlisted or switched off, its organization requires single         *)
(* sign-on, or the request dies, and there is no session.                  *)
Sign(q) ==
    LET d == doing[q] IN
    /\ d.step = "sign"
    /\ \/ sessions' = sessions \cup
              {[iat |-> Dated(d), by |-> d.by, from |-> d.from, saw |-> d.saw]}
       \/ UNCHANGED sessions
    /\ End(q)
    /\ UNCHANGED <<now, linked, sso, bundle, begun>> /\ NoCutOff

(***************************************************************************)
(* Google sign-in                                                          *)
(***************************************************************************)

To(r, step) == [sso EXCEPT ![r].step = step]

(* completeGoogleSignIn consumes the state and learns who signed in. *)
Callback(r, g) ==
    /\ sso[r].step = "idle"
    /\ sso' = [sso EXCEPT ![r] = [step |-> "claims", by |-> g, saw |-> 0]]
    /\ UNCHANGED <<now, linked, sessions, doing, bundle, begun>> /\ NoCutOff

(* resolveGoogleSignIn, for an address that has its account. *)
Decision(g) ==
    IF g \in linked THEN "sign_in"
    ELSE IF g \notin Authoritative \/ (account.verified /\ linked # {}) THEN "refuse"
    ELSE IF account.verified THEN "link" ELSE "takeover"

(* resolveAccount.  A takeover discards every credential of whoever        *)
(* registered the address without proving it.                              *)
Resolve(r) ==
    LET g == sso[r].by IN
    /\ sso[r].step = "claims"
    /\ \/ Decision(g) = "refuse" /\ sso' = To(r, "used") /\ UNCHANGED linked /\ NoCutOff
       \/ /\ Decision(g) \in {"sign_in", "link"}
          /\ sso' = To(r, "resolved") /\ linked' = linked \cup {g} /\ NoCutOff
       \/ /\ Decision(g) = "takeover"
          /\ \E clock \in Clock :
                CutOff([password |-> FALSE, verified |-> TRUE, cutOff |-> CutOffAt(clock)],
                       To(r, "resolved"))
          /\ linked' = {g}
    /\ UNCHANGED <<now, sessions, doing, bundle, begun>>

(* slip: a handoff for whoever has resolved (before F143) *)
OnceResolved(r) == TRUE

StillHolds(r) == sso[r].by \in linked

(* issueHandoff: reads the identity under a share lock of the row. *)
IssueHandoff(r) ==
    /\ sso[r].step = "resolved"
    /\ sso' = IF StillHolds(r)
              THEN [sso EXCEPT ![r].step = "handoff", ![r].saw = cuts] ELSE To(r, "used")
    /\ UNCHANGED <<now, linked, sessions, doing, bundle, begun>> /\ NoCutOff

HandoffExpires(r) ==
    /\ sso[r].step = "handoff"
    /\ sso' = To(r, "used")
    /\ UNCHANGED <<now, linked, sessions, doing, bundle, begun>> /\ NoCutOff

(* slip: the exchange leaves the code as it is *)
NotMarked(r) == sso

Consumed(r) == To(r, "used")

(* exchangeHandoff: one UPDATE takes the code and reads the cut-off. *)
Exchange(q, r) ==
    /\ doing[q] = Idle
    /\ sso[r].step = "handoff"
    /\ sso' = Consumed(r)
    /\ \E at \in Clock :
          doing' = [doing EXCEPT ![q] = Signing(at, account.cutOff, sso[r].by, r, sso[r].saw)]
    /\ UNCHANGED <<now, linked, sessions, bundle, begun>> /\ NoCutOff

(***************************************************************************)
(* Proving the mailbox                                                     *)
(***************************************************************************)

(* POST /auth/verify, up to its transaction: with the account's own live   *)
(* session, with the password or the proof of the sign-up, which only an   *)
(* account with a password has, or for an account that has none.  A link   *)
(* used before changes nothing.                                            *)
VerifyRead(q) ==
    /\ ~account.verified
    /\ \E at \in Clock, confirmed \in BOOLEAN, session \in sessions \cup {Nothing} :
          LET own == session # Nothing /\ Accepted(session) IN
          Begin(q, Verifying(at, ~own /\ account.password, confirmed, session))
    /\ UNCHANGED <<now, linked, sso, sessions, bundle>> /\ NoCutOff

(* settleGoogleIdentityOnVerify: "proceed", "confirm" or "removed". *)
Settled(d) ==
    IF account.verified \/ linked = {} \/
       (d.session # Nothing /\ d.session.by # Password /\ Accepted(d.session)) THEN "proceed"
    ELSE IF d.confirmed \/ d.proved THEN "removed" ELSE "confirm"

(* Its transaction.  Without a free seat in the organization that captures *)
(* the domain it is rolled back whole.                                     *)
VerifyCommit(q) ==
    LET d == doing[q]
        signs(since, saw) == Signing(d.at, since, Password, Nothing, saw)
        then(since, saw) ==
            doing' = [doing EXCEPT ![q] = IF d.proved THEN signs(since, saw) ELSE Idle]
    IN
    /\ d.step = "verify"
    /\ \/ Settled(d) = "proceed"
          /\ account' = [account EXCEPT !.verified = TRUE]
          /\ then(d.since, d.saw)
          /\ UNCHANGED <<linked, sso, cuts, apart, dropped, code>>
       \/ Settled(d) = "removed"
          /\ \E clock \in Clock :
                CutOff([account EXCEPT !.verified = TRUE, !.cutOff = CutOffAt(clock)], sso)
          /\ linked' = {}
          /\ then(account'.cutOff, cuts')
       \/ End(q) /\ UNCHANGED <<linked, sso>> /\ NoCutOff
    /\ UNCHANGED <<now, sessions, bundle, begun>>

(* POST /auth/reset-password, with a link the mailbox's owner asked for:   *)
(* it proves the mailbox, so an identity linked before goes, unless the    *)
(* account was verified; and the account stays unverified for want of a    *)
(* seat, with its new password.                                            *)
Reset ==
    /\ \E clock \in Clock : \E full \in BOOLEAN :
          CutOff([password |-> TRUE, verified |-> account.verified \/ ~full,
                  cutOff |-> CutOffAt(clock)], sso)
    /\ linked' = IF account.verified THEN linked ELSE {}
    /\ UNCHANGED <<now, sessions, doing, bundle, begun>>

(***************************************************************************)
(* OAuth connections                                                       *)
(***************************************************************************)

CodeStep(c, from, to) ==
    /\ code[c] = from
    /\ code' = [code EXCEPT ![c] = to]
    /\ UNCHANGED <<now, account, linked, sso, sessions, doing, begun, cuts, apart, dropped>>

(* slip: the consent is not refused for an unproved address *)
AnySession == \E s \in sessions : Accepted(s)

MayGrant == account.verified /\ \E s \in sessions : Accepted(s)

(* POST /oauth/authorize/grant: the session and the verified address are   *)
(* judged, and mintAuthCode inserts the code after that.                   *)
GrantJudge(c) ==
    /\ MayGrant
    /\ CodeStep(c, "none", "judged")
    /\ UNCHANGED bundle

GrantMint(c) == CodeStep(c, "judged", "pending") /\ UNCHANGED bundle
CodeExpires(c) == CodeStep(c, "pending", "over") /\ UNCHANGED bundle

(* redeemAuthCode commits by itself; a mismatch, or a crash before the     *)
(* bundle is minted, leaves the code used.                                 *)
Redeem(c) == CodeStep(c, "pending", "redeemed") /\ UNCHANGED bundle
RedeemedInVain(c) == CodeStep(c, "redeemed", "over") /\ UNCHANGED bundle

Live(c) == [line |-> c, state |-> "live"]

MintBundle(c, b) ==
    /\ bundle[b] = NoBundle
    /\ bundle' = [bundle EXCEPT ![b] = Live(c)]
    /\ CodeStep(c, "redeemed", "over")

BundleStep == UNCHANGED <<now, linked, sso, sessions, begun>> /\ NoCutOff

(* slip: the gate is read before the row's lock is there (before F38) *)
ReadBefore(b) == bundle[b].state = "live"

(* consumeRefreshToken waits for a rotation of the same row, and looks at  *)
(* consumed_at again when it has the lock.                                 *)
Consumable(b) ==
    /\ bundle[b].state = "live"
    /\ \A q \in Requests : doing[q] # Rotating(b)

RefreshConsume(q, b) ==
    /\ doing[q] = Idle
    /\ Consumable(b)
    /\ doing' = [doing EXCEPT ![q] = Rotating(b)]
    /\ UNCHANGED bundle /\ BundleStep

(* The new bundle, or a roll-back: the client is another one, or the mint  *)
(* failed, and the token is good again.                                    *)
RefreshEnds(q, b) ==
    LET old == doing[q].of IN
    /\ doing[q].step = "rotate"
    /\ \/ bundle[b] = NoBundle
          /\ bundle' = [bundle EXCEPT ![old].state = "spent", ![b] = Live(bundle[old].line)]
       \/ UNCHANGED bundle
    /\ End(q)
    /\ BundleStep

(* revokeKey, which waits for a rotation of the row; or the refresh token  *)
(* runs out.                                                               *)
BundleEnds(b) ==
    /\ bundle[b].state \in {"live", "spent"}
    /\ \A q \in Requests : doing[q] # Rotating(b)
    /\ bundle' = [bundle EXCEPT ![b].state = "over"]
    /\ UNCHANGED doing /\ BundleStep

(***************************************************************************)
(* The system                                                              *)
(***************************************************************************)

Tick ==
    /\ now < MaxTime
    /\ now' = now + 1
    /\ UNCHANGED <<linked, sso, sessions, doing, bundle, begun>> /\ NoCutOff

(* Registered with a password, or signed up with Google: verified by that  *)
(* only where Google vouches for the address.                              *)
Init ==
    /\ now = 0
    /\ \/ /\ account = [password |-> TRUE, verified |-> FALSE, cutOff |-> 0]
          /\ linked = {}
       \/ \E g \in Google :
          /\ account = [password |-> FALSE, verified |-> g \in Authoritative, cutOff |-> 0]
          /\ linked = {g}
    /\ sso = [r \in Rows |-> NoSignIn]
    /\ sessions = {}
    /\ doing = [q \in Requests |-> Idle]
    /\ code = [c \in Consents |-> "none"]
    /\ bundle = [b \in Bundles |-> NoBundle]
    /\ begun = 0 /\ cuts = 0 /\ apart = TRUE /\ dropped = {}

SignIn(q) == Login(q) \/ Sign(q) \/ VerifyRead(q) \/ VerifyCommit(q)

GoogleSignIn(r) ==
    \/ \E g \in Google : Callback(r, g)
    \/ Resolve(r) \/ IssueHandoff(r) \/ HandoffExpires(r)
    \/ \E q \in Requests : Exchange(q, r)

Connect(c) ==
    \/ GrantJudge(c) \/ GrantMint(c) \/ CodeExpires(c) \/ Redeem(c) \/ RedeemedInVain(c)
    \/ \E b \in Bundles : MintBundle(c, b)

Next ==
    \/ Tick \/ Reset
    \/ \E q \in Requests : SignIn(q) \/ \E b \in Bundles : RefreshConsume(q, b) \/ RefreshEnds(q, b)
    \/ \E r \in Rows : GoogleSignIn(r)
    \/ \E c \in Consents : Connect(c)
    \/ \E b \in Bundles : BundleEnds(b)

Spec == Init /\ [][Next]_vars

(***************************************************************************)
(* Properties                                                              *)
(***************************************************************************)

(* A session is refused once a cut-off has followed its proof, whatever    *)
(* was in flight and whichever task stamped it, and not before; nothing    *)
(* that Google proved is accepted when that identity is gone; and no       *)
(* consent whose code was pending at a cut-off becomes a connection        *)
(* (invalidateSessions; F143, F145, F147, F160).                           *)
CutOffDecides ==
    /\ \A s \in sessions : s.saw = cuts => Accepted(s) /\ s.by \in linked \cup {Password}
    /\ apart => \A s \in sessions : s.saw < cuts => ~Accepted(s)
    /\ \A b \in Bundles : bundle[b].line \notin dropped

(* A handoff is good for one session, and a consent for one connection,    *)
(* however often its code and its refresh tokens are presented at once     *)
(* (exchangeHandoff, redeemAuthCode, consumeRefreshToken; F38).            *)
SignedBy(r) == {s \in sessions : s.from = r}
SigningFor(r) == {q \in Requests : doing[q].step = "sign" /\ doing[q].from = r}
Running(c) == {b \in Bundles : bundle[b] = Live(c)}

EachUsedOnce ==
    /\ \A r \in Rows : Cardinality(SignedBy(r)) + Cardinality(SigningFor(r)) <= 1
    /\ \A c \in Consents : Cardinality(Running(c)) <= 1

=============================================================================
