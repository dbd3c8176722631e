------------------------- MODULE CredentialsProofs -------------------------
(***************************************************************************)
(* Credentials, for every number of requests, handoffs, consents and       *)
(* cut-offs.  Four facts carry the proofs: Shape, the types and the row    *)
(* that a rotation of a refresh token holds; Datings, what the date of a   *)
(* session and of one about to be signed says of the cut-offs before it;   *)
(* Lines, the consent a connection goes back to; Handoffs, who signs for   *)
(* one.  Shape is inductive by itself, and each of the others with it.     *)
(***************************************************************************)
EXTENDS Credentials, FiniteSetTheorems, TLAPS

(* A row whose refresh token is being rotated is live, and one request     *)
(* rotates it.                                                             *)
Rotates(q, b) == doing[q].step = "rotate" /\ doing[q].of = b

Rotations ==
    /\ \A q \in Requests : \A b \in Bundles : Rotates(q, b) => bundle[b].state = "live"
    /\ \A p, q \in Requests : \A b \in Bundles : Rotates(p, b) /\ Rotates(q, b) => p = q

Shape == TypeOK /\ Rotations

(***************************************************************************)
(* What the fields of a state are                                          *)
(***************************************************************************)

LEMMA ClockTimes ==
    ASSUME TypeOK
    PROVE  /\ \A at \in Clock : at \in Nat /\ at <= now + Skew /\ at \in Dates
           /\ \A at \in Clock : CutOffAt(at) \in Dates /\ CutOffAt(at) > now + Skew
BY CredentialsAssumption DEF TypeOK, Clock, Dates, CutOffAt

LEMMA SigningType ==
    ASSUME NEW at \in Dates, NEW since \in Dates, NEW by \in Google \cup {Password},
           NEW from \in Rows \cup {Nothing}, NEW saw \in 0..MaxCuts
    PROVE  Signing(at, since, by, from, saw) \in Doing
BY DEF Signing, Doing

LEMMA VerifyingType ==
    ASSUME TypeOK, NEW at \in Dates, NEW proved \in BOOLEAN, NEW confirmed \in BOOLEAN,
           NEW session \in sessions \cup {Nothing}
    PROVE  Verifying(at, proved, confirmed, session) \in Doing
BY DEF Verifying, Doing, TypeOK

LEMMA SignFields ==
    ASSUME TypeOK, NEW q \in Requests, doing[q].step = "sign"
    PROVE  /\ doing[q].at \in Dates /\ doing[q].since \in Dates
           /\ doing[q].by \in Google \cup {Password} /\ doing[q].from \in Rows \cup {Nothing}
           /\ doing[q].saw \in 0..MaxCuts
BY DEF TypeOK, Doing, Idle, Rotating

LEMMA VerifyFields ==
    ASSUME TypeOK, NEW q \in Requests, doing[q].step = "verify"
    PROVE  /\ doing[q].at \in Dates /\ doing[q].since \in Dates /\ doing[q].saw \in 0..MaxCuts
           /\ doing[q].proved \in BOOLEAN
BY DEF TypeOK, Doing, Idle, Rotating

LEMMA RotateFields ==
    ASSUME TypeOK, NEW q \in Requests, doing[q].step = "rotate"
    PROVE  \E b \in Bundles : doing[q] = Rotating(b)
BY DEF TypeOK, Doing, Idle, Rotating

LEMMA RotatesField ==
    ASSUME TypeOK, NEW q \in Requests, NEW b \in Bundles, Rotates(q, b)
    PROVE  doing[q] = Rotating(b)
<1>1. PICK a \in Bundles : doing[q] = Rotating(a) BY RotateFields DEF Rotates
<1>2. doing[q].of = a BY <1>1 DEF Rotating
<1>3. QED BY <1>1, <1>2 DEF Rotates

LEMMA SignInFields ==
    ASSUME TypeOK, NEW r \in Rows, sso[r].step # "idle"
    PROVE  sso[r] \in [step : {"claims", "resolved", "handoff", "used"},
                       by : Google, saw : 0..MaxCuts]
BY DEF TypeOK, SignInRow, NoSignIn

LEMMA CutOffType ==
    ASSUME TypeOK, NEW becomes, NEW rows, CutOff(becomes, rows),
           becomes \in [password : BOOLEAN, verified : BOOLEAN, cutOff : Dates],
           account.verified => becomes.verified,
           rows \in [Rows -> SignInRow]
    PROVE  /\ account' \in [password : BOOLEAN, verified : BOOLEAN, cutOff : Dates]
           /\ sso' \in [Rows -> SignInRow]
           /\ code' \in [Consents -> {"none", "judged", "pending", "redeemed", "over"}]
           /\ cuts' \in 0..MaxCuts /\ apart' \in BOOLEAN /\ dropped' \subseteq Consents
           /\ ~account'.verified => \A c \in Consents : code'[c] = "none"
<1>1. \A r \in Rows : Cancelled(rows)[r] \in SignInRow
  BY DEF Cancelled, SignInRow, NoSignIn
<1>2. QED BY <1>1, CredentialsAssumption DEF CutOff, TypeOK, Cancelled, Deleted

(***************************************************************************)
(* Types, and the row a rotation holds                                     *)
(***************************************************************************)

LEMMA NoRotation ==
    ASSUME Shape, NEW q \in Requests, NEW d, d.step # "rotate",
           doing' = [doing EXCEPT ![q] = d], bundle' = bundle
    PROVE  Rotations'
<1>1. \A p \in Requests : \A b \in Bundles : Rotates(p, b)' => Rotates(p, b)
  BY DEF Shape, TypeOK, Rotates
<1>2. QED BY <1>1 DEF Shape, Rotations

LEMMA Steps ==
    /\ Idle.step # "rotate"
    /\ \A at, since, by, from, saw : Signing(at, since, by, from, saw).step # "rotate"
    /\ \A at, proved, confirmed, session : Verifying(at, proved, confirmed, session).step # "rotate"
BY DEF Idle, Signing, Verifying

LEMMA BeginShape ==
    ASSUME Shape, NEW q \in Requests, NEW d \in Doing, d.step # "rotate", Begin(q, d),
           UNCHANGED <<now, linked, sso, sessions, bundle>>, NoCutOff
    PROVE  Shape'
<1>1. TypeOK' BY CredentialsAssumption DEF Begin, NoCutOff, Shape, TypeOK
<1>2. Rotations' BY NoRotation DEF Begin
<1>3. QED BY <1>1, <1>2 DEF Shape

LEMMA PasswordShape ==
    ASSUME Shape, NEW q \in Requests, SignIn(q)
    PROVE  Shape'
<1> USE DEF Shape
<1>1. CASE Login(q)
  <2>1. PICK at \in Clock : Begin(q, Signing(at, account.cutOff, Password, Nothing, cuts))
    BY <1>1 DEF Login
  <2>2. Signing(at, account.cutOff, Password, Nothing, cuts) \in Doing
    BY ClockTimes, SigningType DEF TypeOK
  <2>3. QED BY <1>1, <2>1, <2>2, Steps, BeginShape DEF Login
<1>2. CASE Sign(q)
  <2>1. sessions' \subseteq Session
    <3>1. doing[q].step = "sign" BY <1>2 DEF Sign
    <3>2. Dated(doing[q]) \in Dates BY <3>1, SignFields DEF Dated
    <3>3. QED BY <1>2, <3>1, <3>2, SignFields DEF Sign, Session, TypeOK
  <2>2. TypeOK' BY <1>2, <2>1 DEF Sign, End, NoCutOff, TypeOK, Doing
  <2>3. Rotations' BY <1>2, Steps, NoRotation DEF Sign, End
  <2>4. QED BY <2>2, <2>3
<1>3. CASE VerifyRead(q)
  <2>1. PICK at \in Clock, proved \in BOOLEAN, confirmed \in BOOLEAN, session \in sessions \cup {Nothing} :
          Begin(q, Verifying(at, proved, confirmed, session))
    BY <1>3 DEF VerifyRead
  <2>2. Verifying(at, proved, confirmed, session) \in Doing BY ClockTimes, VerifyingType
  <2>3. Verifying(at, proved, confirmed, session).step # "rotate" BY Steps
  <2>4. QED BY <1>3, <2>1, <2>2, <2>3, BeginShape DEF VerifyRead
<1>4. CASE VerifyCommit(q)
  <2>1. doing[q].step = "verify" BY <1>4 DEF VerifyCommit
  <2>2. ASSUME NEW since \in Dates, NEW saw \in 0..MaxCuts
        PROVE  (IF doing[q].proved THEN Signing(doing[q].at, since, Password, Nothing, saw)
                                   ELSE Idle) \in Doing
    BY <2>1, VerifyFields, SigningType DEF Doing
  <2>3. CASE /\ Settled(doing[q]) = "proceed"
             /\ account' = [account EXCEPT !.verified = TRUE]
             /\ doing' = [doing EXCEPT ![q] = IF doing[q].proved
                             THEN Signing(doing[q].at, doing[q].since, Password, Nothing, doing[q].saw)
                             ELSE Idle]
             /\ UNCHANGED <<linked, sso, cuts, apart, dropped, code, now, sessions, bundle, begun>>
    <3>1. TypeOK' BY <2>1, <2>2, <2>3, VerifyFields DEF TypeOK
    <3>2. Rotations' BY <2>3, Steps, NoRotation
    <3>3. QED BY <3>1, <3>2
  <2>4. CASE /\ \E clock \in Clock :
                   CutOff([account EXCEPT !.verified = TRUE, !.cutOff = CutOffAt(clock)], sso)
             /\ linked' = {}
             /\ doing' = [doing EXCEPT ![q] = IF doing[q].proved
                             THEN Signing(doing[q].at, account'.cutOff, Password, Nothing, cuts')
                             ELSE Idle]
             /\ UNCHANGED <<now, sessions, bundle, begun>>
    <3>1. PICK clock \in Clock :
             CutOff([account EXCEPT !.verified = TRUE, !.cutOff = CutOffAt(clock)], sso)
      BY <2>4
    <3>2. [account EXCEPT !.verified = TRUE, !.cutOff = CutOffAt(clock)]
            \in [password : BOOLEAN, verified : BOOLEAN, cutOff : Dates]
      BY ClockTimes DEF TypeOK
    <3>3. /\ account' \in [password : BOOLEAN, verified : BOOLEAN, cutOff : Dates]
          /\ sso' \in [Rows -> SignInRow]
          /\ code' \in [Consents -> {"none", "judged", "pending", "redeemed", "over"}]
          /\ cuts' \in 0..MaxCuts /\ apart' \in BOOLEAN /\ dropped' \subseteq Consents
          /\ ~account'.verified => \A c \in Consents : code'[c] = "none"
      BY <3>1, <3>2, CutOffType DEF TypeOK
    <3>4. TypeOK' BY <2>2, <2>4, <3>3 DEF TypeOK
    <3>5. Rotations' BY <2>4, Steps, NoRotation
    <3>6. QED BY <3>4, <3>5
  <2>5. CASE End(q) /\ UNCHANGED <<linked, sso, now, sessions, bundle, begun>> /\ NoCutOff
    <3>1. TypeOK' BY <2>5 DEF End, NoCutOff, TypeOK, Doing
    <3>2. Rotations' BY <2>5, Steps, NoRotation DEF End
    <3>3. QED BY <3>1, <3>2
  <2>6. QED BY <1>4, <2>3, <2>4, <2>5 DEF VerifyCommit
<1>5. QED BY <1>1, <1>2, <1>3, <1>4 DEF SignIn

(* A Google sign-in moves a row one step, and no rotation. *)
LEMMA RowShape ==
    ASSUME Shape, NEW r \in Rows, NEW to \in SignInRow, sso' = [sso EXCEPT ![r] = to],
           linked' \subseteq Google,
           UNCHANGED <<now, sessions, doing, bundle, begun>>, NoCutOff
    PROVE  Shape'
<1>1. TypeOK' BY DEF SignInRow, NoCutOff, Shape, TypeOK
<1>2. Rotations' BY DEF Shape, Rotations, Rotates
<1>3. QED BY <1>1, <1>2 DEF Shape

LEMMA ToRow ==
    ASSUME TypeOK, NEW r \in Rows, sso[r].step # "idle",
           NEW step \in {"claims", "resolved", "handoff", "used"}
    PROVE  [sso[r] EXCEPT !.step = step] \in SignInRow
BY SignInFields DEF SignInRow

LEMMA GoogleShape ==
    ASSUME Shape, NEW r \in Rows, GoogleSignIn(r)
    PROVE  Shape'
<1>1. ASSUME NEW g \in Google, Callback(r, g) PROVE Shape'
  <2> DEFINE to == [step |-> "claims", by |-> g, saw |-> 0]
  <2>1. to \in SignInRow BY CredentialsAssumption DEF SignInRow
  <2>2. sso' = [sso EXCEPT ![r] = to] BY <1>1 DEF Callback
  <2> HIDE DEF to
  <2>3. linked' \subseteq Google BY <1>1 DEF Callback, Shape, TypeOK
  <2>4. QED BY <1>1, <2>1, <2>2, <2>3, RowShape DEF Callback
<1>2. CASE Resolve(r)
  <2> DEFINE g == sso[r].by
  <2>1. sso[r].step = "claims" /\ g \in Google
    BY <1>2, SignInFields DEF Resolve, Shape
  <2>2. To(r, "used") = [sso EXCEPT ![r] = [sso[r] EXCEPT !.step = "used"]]
    BY DEF To
  <2>3. To(r, "resolved") = [sso EXCEPT ![r] = [sso[r] EXCEPT !.step = "resolved"]]
    BY DEF To
  <2>4. /\ [sso[r] EXCEPT !.step = "used"] \in SignInRow
        /\ [sso[r] EXCEPT !.step = "resolved"] \in SignInRow
    BY <2>1, ToRow DEF Shape
  <2>5. CASE sso' = To(r, "used") /\ UNCHANGED linked /\ NoCutOff
    BY <1>2, <2>2, <2>4, <2>5, RowShape DEF Resolve, Shape, TypeOK
  <2>6. CASE sso' = To(r, "resolved") /\ linked' = linked \cup {g} /\ NoCutOff
    BY <1>2, <2>1, <2>3, <2>4, <2>6, RowShape DEF Resolve, Shape, TypeOK
  <2>7. ASSUME NEW clock \in Clock, linked' = {g},
               CutOff([password |-> FALSE, verified |-> TRUE, cutOff |-> CutOffAt(clock)],
                      To(r, "resolved"))
        PROVE  Shape'
    <3>1. [password |-> FALSE, verified |-> TRUE, cutOff |-> CutOffAt(clock)]
            \in [password : BOOLEAN, verified : BOOLEAN, cutOff : Dates]
      BY ClockTimes DEF Shape
    <3>2. To(r, "resolved") \in [Rows -> SignInRow]
      <4>1. sso \in [Rows -> SignInRow] BY DEF Shape, TypeOK, SignInRow
      <4>2. QED BY <2>3, <2>4, <4>1
    <3>3. /\ account' \in [password : BOOLEAN, verified : BOOLEAN, cutOff : Dates]
          /\ sso' \in [Rows -> SignInRow]
          /\ code' \in [Consents -> {"none", "judged", "pending", "redeemed", "over"}]
          /\ cuts' \in 0..MaxCuts /\ apart' \in BOOLEAN /\ dropped' \subseteq Consents
          /\ ~account'.verified => \A c \in Consents : code'[c] = "none"
      BY <2>7, <3>1, <3>2, CutOffType DEF Shape, SignInRow
    <3>4. UNCHANGED <<now, sessions, doing, bundle, begun>> BY <1>2 DEF Resolve
    <3>5. TypeOK' BY <2>1, <2>7, <3>3, <3>4 DEF Shape, TypeOK, SignInRow
    <3>6. Rotations' BY <3>4 DEF Shape, Rotations, Rotates
    <3>7. QED BY <3>5, <3>6 DEF Shape
  <2>8. QED BY <1>2, <2>5, <2>6, <2>7 DEF Resolve
<1>3. CASE IssueHandoff(r)
  <2> DEFINE to == [sso[r] EXCEPT !.step = "handoff", !.saw = cuts]
             no == [sso[r] EXCEPT !.step = "used"]
  <2>1. to \in SignInRow /\ no \in SignInRow
    BY <1>3, SignInFields DEF IssueHandoff, SignInRow, Shape, TypeOK
  <2>2. sso' = [sso EXCEPT ![r] = to] \/ sso' = [sso EXCEPT ![r] = no]
    BY <1>3 DEF IssueHandoff, To
  <2> HIDE DEF to, no
  <2>3. QED BY <1>3, <2>1, <2>2, RowShape DEF IssueHandoff, Shape, TypeOK
<1>4. CASE HandoffExpires(r)
  <2>1. [sso[r] EXCEPT !.step = "used"] \in SignInRow BY <1>4, ToRow DEF HandoffExpires, Shape
  <2>2. sso' = [sso EXCEPT ![r] = [sso[r] EXCEPT !.step = "used"]] BY <1>4 DEF HandoffExpires, To
  <2>3. QED BY <1>4, <2>1, <2>2, RowShape DEF HandoffExpires, Shape, TypeOK
<1>5. ASSUME NEW q \in Requests, Exchange(q, r) PROVE Shape'
  <2>1. PICK at \in Clock :
          doing' = [doing EXCEPT ![q] = Signing(at, account.cutOff, sso[r].by, r, sso[r].saw)]
    BY <1>5 DEF Exchange
  <2> DEFINE d == Signing(at, account.cutOff, sso[r].by, r, sso[r].saw)
  <2>2. d \in Doing
    BY <1>5, SignInFields, ClockTimes, SigningType DEF Exchange, Shape, TypeOK
  <2>3. d.step # "rotate" BY Steps
  <2>4. doing' = [doing EXCEPT ![q] = d] BY <2>1
  <2> HIDE DEF d
  <2>5. [sso[r] EXCEPT !.step = "used"] \in SignInRow BY <1>5, ToRow DEF Exchange, Shape
  <2>6. sso' \in [Rows -> SignInRow] BY <1>5, <2>5 DEF Exchange, Consumed, To, Shape, TypeOK, SignInRow
  <2>7. TypeOK' BY <1>5, <2>2, <2>4, <2>6 DEF Exchange, NoCutOff, Shape, TypeOK, SignInRow
  <2>8. Rotations' BY <1>5, <2>3, <2>4, NoRotation DEF Exchange
  <2>9. QED BY <2>7, <2>8 DEF Shape
<1>6. QED BY <1>1, <1>2, <1>3, <1>4, <1>5 DEF GoogleSignIn

LEMMA ConnectShape ==
    ASSUME Shape, NEW c \in Consents, Connect(c)
    PROVE  Shape'
<1>1. ASSUME NEW from, NEW to \in {"judged", "pending", "redeemed", "over"}, CodeStep(c, from, to),
             account.verified, bundle' \in [Bundles -> {NoBundle} \cup
                                              [line : Consents, state : {"live", "spent", "over"}]],
             \A b \in Bundles : bundle[b].state = "live" => bundle'[b] = bundle[b]
      PROVE  Shape'
  <2>1. TypeOK' BY <1>1 DEF CodeStep, Shape, TypeOK
  <2>2. Rotations' BY <1>1 DEF CodeStep, Shape, Rotations, Rotates
  <2>3. QED BY <2>1, <2>2 DEF Shape
<1>2. code[c] # "none" => account.verified BY DEF Shape, TypeOK
<1>3. CASE bundle' = bundle
  BY <1>1, <1>2, <1>3 DEF Connect, GrantJudge, MayGrant, GrantMint, CodeExpires, Redeem, RedeemedInVain, MintBundle,
        CodeStep, Live, NoBundle, Shape, TypeOK
<1>4. ASSUME NEW b \in Bundles, MintBundle(c, b) PROVE Shape'
  <2>1. CodeStep(c, "redeemed", "over") /\ account.verified
    BY <1>2, <1>4 DEF MintBundle, CodeStep
  <2>2. /\ bundle' \in [Bundles -> {NoBundle} \cup [line : Consents, state : {"live", "spent", "over"}]]
        /\ \A a \in Bundles : bundle[a].state = "live" => bundle'[a] = bundle[a]
    BY <1>4 DEF MintBundle, Live, NoBundle, Shape, TypeOK
  <2>3. QED BY <1>1, <2>1, <2>2
<1>5. QED BY <1>3, <1>4 DEF Connect, GrantJudge, GrantMint, CodeExpires, Redeem, RedeemedInVain

LEMMA BundleShape ==
    ASSUME Shape, NEW b \in Bundles, BundleEnds(b) \/ \E q \in Requests : RefreshConsume(q, b) \/ RefreshEnds(q, b)
    PROVE  Shape'
<1>1. ASSUME NEW q \in Requests, RefreshConsume(q, b) PROVE Shape'
  <2>1. Rotating(b) \in Doing BY DEF Doing
  <2>2. TypeOK' BY <1>1, <2>1 DEF RefreshConsume, BundleStep, NoCutOff, Shape, TypeOK
  <2>3. bundle[b].state = "live" /\ \A p \in Requests : ~Rotates(p, b)
    <3>1. \A p \in Requests : Rotates(p, b) => doing[p] = Rotating(b)
      BY RotatesField DEF Shape
    <3>2. QED BY <1>1, <3>1 DEF RefreshConsume, Consumable
  <2>4. /\ \A p \in Requests \ {q} : \A a \in Bundles : Rotates(p, a)' <=> Rotates(p, a)
        /\ \A a \in Bundles : Rotates(q, a)' <=> a = b
    BY <1>1 DEF RefreshConsume, Rotates, Rotating, Shape, TypeOK
  <2>5. bundle' = bundle BY <1>1 DEF RefreshConsume
  <2>6. Rotations' BY <2>3, <2>4, <2>5 DEF Shape, Rotations
  <2>7. QED BY <2>2, <2>6 DEF Shape
<1>2. ASSUME NEW q \in Requests, RefreshEnds(q, b) PROVE Shape'
  <2>1. PICK old \in Bundles : doing[q] = Rotating(old)
    BY <1>2, RotateFields DEF RefreshEnds, Shape
  <2>2. doing[q].of = old /\ Rotates(q, old) BY <2>1 DEF Rotating, Rotates
  <2>3. bundle[old].state = "live" BY <2>2 DEF Shape, Rotations
  <2>4. bundle[old] \in [line : Consents, state : {"live", "spent", "over"}]
    BY <2>3 DEF NoBundle, Shape, TypeOK
  <2>5. bundle' \in [Bundles -> {NoBundle} \cup [line : Consents, state : {"live", "spent", "over"}]]
    BY <1>2, <2>2, <2>4 DEF RefreshEnds, Live, Shape, TypeOK
  <2>6. TypeOK' BY <1>2, <2>5 DEF RefreshEnds, End, BundleStep, NoCutOff, Doing, Shape, TypeOK
  <2>7. \A p \in Requests : \A a \in Bundles : Rotates(p, a)' => p # q /\ Rotates(p, a)
    BY <1>2 DEF RefreshEnds, End, Idle, Rotates, Shape, TypeOK
  <2>8. \A a \in Bundles \ {old} : bundle[a].state = "live" => bundle'[a].state = "live"
    BY <1>2, <2>2 DEF RefreshEnds, NoBundle, Live, Shape, TypeOK
  <2>9. Rotations' BY <2>2, <2>7, <2>8 DEF Shape, Rotations
  <2>10. QED BY <2>6, <2>9 DEF Shape
<1>3. CASE BundleEnds(b)
  <2>1. bundle[b] \in [line : Consents, state : {"live", "spent", "over"}]
    BY <1>3 DEF BundleEnds, NoBundle, Shape, TypeOK
  <2>2. TypeOK' BY <1>3, <2>1 DEF BundleEnds, BundleStep, NoCutOff, Shape, TypeOK
  <2>3. \A p \in Requests : ~Rotates(p, b)
    BY <1>3, RotatesField DEF BundleEnds, Shape
  <2>4. Rotations' BY <1>3, <2>3 DEF BundleEnds, Shape, TypeOK, Rotations, Rotates
  <2>5. QED BY <2>2, <2>4 DEF Shape
<1>4. QED BY <1>1, <1>2, <1>3

LEMMA ResetShape ==
    ASSUME Shape, Reset
    PROVE  Shape'
<1>1. PICK clock \in Clock, full \in BOOLEAN :
         CutOff([password |-> TRUE, verified |-> account.verified \/ ~full,
                 cutOff |-> CutOffAt(clock)], sso)
  BY DEF Reset
<1>2. [password |-> TRUE, verified |-> account.verified \/ ~full, cutOff |-> CutOffAt(clock)]
        \in [password : BOOLEAN, verified : BOOLEAN, cutOff : Dates]
  BY ClockTimes DEF Shape
<1>3. sso \in [Rows -> SignInRow] BY DEF Shape, TypeOK, SignInRow
<1>4. /\ account' \in [password : BOOLEAN, verified : BOOLEAN, cutOff : Dates]
      /\ sso' \in [Rows -> SignInRow]
      /\ code' \in [Consents -> {"none", "judged", "pending", "redeemed", "over"}]
      /\ cuts' \in 0..MaxCuts /\ apart' \in BOOLEAN /\ dropped' \subseteq Consents
      /\ ~account'.verified => \A c \in Consents : code'[c] = "none"
  BY <1>1, <1>2, <1>3, CutOffType DEF Shape, SignInRow
<1>5. TypeOK' BY <1>4 DEF Reset, Shape, TypeOK, SignInRow
<1>6. Rotations' BY DEF Reset, Shape, Rotations, Rotates
<1>7. QED BY <1>5, <1>6 DEF Shape

LEMMA ShapeInit == Init => Shape
<1> SUFFICES ASSUME Init PROVE Shape OBVIOUS
<1>1. TypeOK
  <2>1. account \in [password : BOOLEAN, verified : BOOLEAN, cutOff : Dates]
    <3>1. 0 \in Dates BY CredentialsAssumption DEF Dates
    <3>2. \E set, proved \in BOOLEAN :
             account = [password |-> set, verified |-> proved, cutOff |-> 0]
      <4>1. CASE account = [password |-> TRUE, verified |-> FALSE, cutOff |-> 0]
        BY <4>1, Zenon
      <4>2. ASSUME NEW g \in Google,
                   account = [password |-> FALSE, verified |-> g \in Authoritative, cutOff |-> 0]
            PROVE  \E set, proved \in BOOLEAN :
                      account = [password |-> set, verified |-> proved, cutOff |-> 0]
        <5>1. (g \in Authoritative) \in BOOLEAN OBVIOUS
        <5>2. FALSE \in BOOLEAN OBVIOUS
        <5>3. QED BY <4>2, <5>1, <5>2, Zenon
      <4>3. QED BY <4>1, <4>2 DEF Init
    <3>3. QED BY <3>1, <3>2
  <2>2. doing \in [Requests -> Doing] BY DEF Init, Doing
  <2>3. linked \subseteq Google BY DEF Init
  <2>4. sso \in [Rows -> SignInRow] BY DEF Init, SignInRow
  <2>5. bundle \in [Bundles -> {NoBundle} \cup [line : Consents, state : {"live", "spent", "over"}]]
    BY DEF Init
  <2>6. \A c \in Consents : code[c] = "none" BY DEF Init
  <2>7. /\ now \in 0..MaxTime /\ sessions \subseteq Session
        /\ code \in [Consents -> {"none", "judged", "pending", "redeemed", "over"}]
        /\ begun \in 0..MaxBegun /\ cuts \in 0..MaxCuts /\ apart \in BOOLEAN
        /\ dropped \subseteq Consents
    BY CredentialsAssumption DEF Init
  <2>8. QED BY <2>1, <2>2, <2>3, <2>4, <2>5, <2>6, <2>7 DEF TypeOK, SignInRow
<1>2. Rotations BY DEF Init, Rotations, Rotates, Idle
<1>3. QED BY <1>1, <1>2 DEF Shape

LEMMA ShapeStep == Shape /\ [Next]_vars => Shape'
<1> SUFFICES ASSUME Shape, [Next]_vars PROVE Shape' OBVIOUS
<1>1. CASE Tick
  <2>1. TypeOK' BY <1>1, CredentialsAssumption DEF Tick, NoCutOff, Shape, TypeOK
  <2>2. Rotations' BY <1>1 DEF Tick, Shape, Rotations, Rotates
  <2>3. QED BY <2>1, <2>2 DEF Shape
<1>2. CASE Reset BY <1>2, ResetShape
<1>3. CASE \E q \in Requests : SignIn(q) BY <1>3, PasswordShape
<1>4. CASE \E r \in Rows : GoogleSignIn(r) BY <1>4, GoogleShape
<1>5. CASE \E c \in Consents : Connect(c) BY <1>5, ConnectShape
<1>6. CASE \E b \in Bundles : BundleEnds(b) \/ \E q \in Requests : RefreshConsume(q, b) \/ RefreshEnds(q, b)
  BY <1>6, BundleShape
<1>7. CASE UNCHANGED vars
  <2>1. TypeOK' BY <1>7 DEF vars, Shape, TypeOK
  <2>2. Rotations' BY <1>7 DEF vars, Shape, Rotations, Rotates
  <2>3. QED BY <2>1, <2>2 DEF Shape
<1>8. QED BY <1>1, <1>2, <1>3, <1>4, <1>5, <1>6, <1>7 DEF Next

(* Every reachable state is well typed; in particular no consent is ever   *)
(* given for an address that nobody has proved (the email_unverified       *)
(* refusal of POST /oauth/authorize/grant).                                *)
THEOREM TypeCorrect == Spec => []TypeOK
BY ShapeInit, ShapeStep, PTL DEF Spec, Shape

(***************************************************************************)
(* Sessions and the cut-off                                                *)
(***************************************************************************)

(* What a request carries that has proved a person: its clock had shown    *)
(* that second, its cut-off is the account's unless one has followed, and  *)
(* then both are before it, because a cut-off lies Margin seconds ahead of *)
(* any clock that was read before.                                         *)
InTime(d) ==
    /\ d.saw <= cuts /\ d.at <= now + Skew
    /\ d.saw = cuts => d.since = account.cutOff
    /\ apart /\ d.saw < cuts => d.since < account.cutOff /\ d.at < account.cutOff

Proved(d) ==
    /\ d.step \in {"sign", "verify"} => InTime(d)
    /\ d.step = "sign" /\ d.saw = cuts => d.by \in linked \cup {Password}

Standing(h) == h.step = "handoff" => h.saw = cuts /\ h.by \in linked

Good(s) ==
    /\ s.saw <= cuts
    /\ s.saw = cuts => /\ s.iat >= account.cutOff /\ s.by \in linked \cup {Password}
                       /\ s.iat <= now + Skew \/ s.iat = account.cutOff
    /\ apart /\ s.saw < cuts => s.iat < account.cutOff

Datings ==
    /\ \A q \in Requests : Proved(doing[q])
    /\ \A r \in Rows : Standing(sso[r])
    /\ \A s \in sessions : Good(s)

LEMMA DoingFields ==
    ASSUME NEW d \in Doing, d.step \in {"sign", "verify"}
    PROVE  d.at \in Nat /\ d.since \in Nat /\ d.saw \in Nat
BY CredentialsAssumption DEF Doing, Idle, Rotating, Dates

LEMMA SessionFields ==
    ASSUME NEW s \in Session
    PROVE  s.iat \in Nat /\ s.saw \in Nat
BY CredentialsAssumption DEF Session, Dates

LEMMA Numbers ==
    ASSUME TypeOK
    PROVE  /\ now \in Nat /\ cuts \in Nat /\ account.cutOff \in Nat /\ apart \in BOOLEAN
           /\ Skew \in Nat /\ Margin \in Nat /\ Skew < Margin
BY CredentialsAssumption DEF TypeOK, Dates

(* Whatever was in time stays so while there is no cut-off ... *)
LEMMA WithoutCutOff ==
    ASSUME TypeOK, now' \in {now, now + 1}, account'.cutOff = account.cutOff, cuts' = cuts, apart' = apart,
           linked \subseteq linked'
    PROVE  /\ \A d \in Doing : Proved(d) => Proved(d)'
           /\ \A h : Standing(h) => Standing(h)'
           /\ \A s \in Session : Good(s) => Good(s)'
<1> USE Numbers
<1>1. ASSUME NEW d \in Doing, Proved(d) PROVE Proved(d)'
  BY <1>1, DoingFields DEF Proved, InTime
<1>2. \A h : Standing(h) => Standing(h)' BY DEF Standing
<1>3. ASSUME NEW s \in Session, Good(s) PROVE Good(s)'
  BY <1>3, SessionFields DEF Good
<1>4. QED BY <1>1, <1>2, <1>3

(* ... and at one it is left behind, the handoffs being cancelled. *)
LEMMA AtCutOff ==
    ASSUME TypeOK, TypeOK', NEW clock \in Clock, NEW becomes, NEW rows \in [Rows -> SignInRow],
           CutOff(becomes, rows), becomes.cutOff = CutOffAt(clock), now' = now
    PROVE  /\ \A d \in Doing : Proved(d) => Proved(d)'
           /\ \A r \in Rows : Standing(sso[r])'
           /\ \A s \in Session : Good(s) => Good(s)'
<1> USE Numbers
<1>1. /\ account'.cutOff > now + Skew /\ account'.cutOff \in Nat
      /\ cuts' = cuts + 1
      /\ apart' => apart /\ account'.cutOff > account.cutOff
  <2>1. account'.cutOff > now + Skew /\ cuts' = cuts + 1 BY ClockTimes DEF CutOff
  <2>2. account'.cutOff \in Nat BY DEF TypeOK, Dates
  <2>3. apart' => apart /\ account'.cutOff > account.cutOff BY Zenon DEF CutOff
  <2>4. QED BY <2>1, <2>2, <2>3
<1>2. ASSUME NEW d \in Doing, Proved(d) PROVE Proved(d)'
  <2>1. d.step \in {"sign", "verify"} => InTime(d)'
    BY <1>1, <1>2, DoingFields DEF Proved, InTime
  <2>2. d.step = "sign" => d.saw # cuts'
    BY <1>1, <1>2, DoingFields DEF Proved, InTime
  <2>3. QED BY <2>1, <2>2 DEF Proved
<1>3. ASSUME NEW r \in Rows PROVE Standing(sso[r])'
  <2>1. sso'[r] = IF rows[r].step = "handoff" THEN [rows[r] EXCEPT !.step = "used"] ELSE rows[r]
    BY DEF CutOff, Cancelled
  <2>2. rows[r].step = "handoff" => [rows[r] EXCEPT !.step = "used"].step = "used"
    BY DEF SignInRow, NoSignIn
  <2>3. sso'[r].step # "handoff" BY <2>1, <2>2
  <2>4. QED BY <2>3 DEF Standing
<1>4. ASSUME NEW s \in Session, Good(s) PROVE Good(s)'
  BY <1>1, <1>4, SessionFields DEF Good
<1>5. QED BY <1>2, <1>3, <1>4
LEMMA PasswordDatings ==
    ASSUME Shape, Shape', Datings, NEW q \in Requests, SignIn(q)
    PROVE  Datings'
<1> USE Numbers DEF Shape
<1>1. doing \in [Requests -> Doing] /\ doing' \in [Requests -> Doing] /\ sessions \subseteq Session
  BY DEF TypeOK
<1>2. ASSUME NEW d, doing' = [doing EXCEPT ![q] = d], Proved(d)', sessions' = sessions,
             \A e \in Doing : Proved(e) => Proved(e)',
             \A r \in Rows : Standing(sso[r])',
             \A s \in Session : Good(s) => Good(s)'
      PROVE  Datings'
  <2>1. ASSUME NEW p \in Requests PROVE Proved(doing[p])'
    BY <1>1, <1>2 DEF Datings, Proved, InTime
  <2>2. \A s \in sessions' : Good(s)' BY <1>1, <1>2 DEF Datings
  <2>3. QED BY <1>2, <2>1, <2>2 DEF Datings
<1>3. CASE Login(q)
  <2>1. PICK at \in Clock : doing' = [doing EXCEPT ![q] = Signing(at, account.cutOff, Password, Nothing, cuts)]
    BY <1>3 DEF Login, Begin
  <2> DEFINE d == Signing(at, account.cutOff, Password, Nothing, cuts)
  <2>2. Proved(d)' BY <1>3, ClockTimes DEF Login, NoCutOff, Signing, Proved, InTime
  <2>3. QED BY <1>2, <1>3, <2>1, <2>2, WithoutCutOff DEF Login, NoCutOff, Datings
<1>4. CASE Sign(q)
  <2> DEFINE s == [iat |-> Dated(doing[q]), by |-> doing[q].by, from |-> doing[q].from, saw |-> doing[q].saw]
  <2>1. doing' = [doing EXCEPT ![q] = Idle] /\ doing[q].step = "sign" BY <1>4 DEF Sign, End
  <2>2. /\ \A e \in Doing : Proved(e) => Proved(e)'
        /\ \A r \in Rows : Standing(sso[r])'
        /\ \A t \in Session : Good(t) => Good(t)'
    BY <1>4, WithoutCutOff DEF Sign, NoCutOff, Datings
  <2>3. Good(s)
    <3>1. Proved(doing[q]) BY DEF Datings
    <3>2. doing[q].at \in Nat /\ doing[q].since \in Nat /\ doing[q].saw \in Nat
      BY <1>1, <2>1, DoingFields
    <3>3. s.iat = (IF doing[q].at > doing[q].since THEN doing[q].at ELSE doing[q].since)
      BY DEF Dated
    <3>4. s.saw = doing[q].saw /\ s.by = doing[q].by OBVIOUS
    <3> HIDE DEF s
    <3>5. QED BY <2>1, <3>1, <3>2, <3>3, <3>4 DEF Proved, InTime, Good
  <2>4. s \in Session
    BY <1>1, <2>1, SignFields DEF Dated, Session
  <2> HIDE DEF s
  <2>5. \A p \in Requests : Proved(doing[p])'
    BY <1>1, <2>1, <2>2 DEF Datings, Proved, Idle
  <2>6. sessions' \subseteq sessions \cup {s} BY <1>4 DEF Sign, s
  <2>7. \A t \in sessions' : Good(t)' BY <1>1, <2>2, <2>3, <2>4, <2>6 DEF Datings
  <2>8. QED BY <2>2, <2>5, <2>7 DEF Datings
<1>5. CASE VerifyRead(q)
  <2>1. PICK at \in Clock, proved \in BOOLEAN, confirmed \in BOOLEAN, session \in sessions \cup {Nothing} :
          doing' = [doing EXCEPT ![q] = Verifying(at, proved, confirmed, session)]
    BY <1>5 DEF VerifyRead, Begin
  <2>2. PICK d : d = Verifying(at, proved, confirmed, session) OBVIOUS
  <2>3. /\ \A e \in Doing : Proved(e) => Proved(e)'
        /\ \A r \in Rows : Standing(sso[r])'
        /\ \A t \in Session : Good(t) => Good(t)'
    BY <1>5, WithoutCutOff DEF VerifyRead, NoCutOff, Datings
  <2>4. doing' = [doing EXCEPT ![q] = d] /\ sessions' = sessions
    BY <1>5, <2>1, <2>2 DEF VerifyRead
  <2>5. Proved(d)' BY <1>5, <2>2, ClockTimes DEF VerifyRead, NoCutOff, Verifying, Proved, InTime
  <2>6. QED BY <1>2, <2>3, <2>4, <2>5
<1>6. CASE VerifyCommit(q)
  <2>1. doing[q].step = "verify" BY <1>6 DEF VerifyCommit
  <2>2. InTime(doing[q]) BY <2>1 DEF Datings, Proved
  <2>3. doing[q].at \in Nat /\ doing[q].since \in Nat /\ doing[q].saw \in Nat
    BY <1>1, <2>1, DoingFields
  <2>4. Proved(Idle)' BY DEF Proved, Idle
  <2>5. ASSUME account' = [account EXCEPT !.verified = TRUE],
               doing' = [doing EXCEPT ![q] = IF doing[q].proved
                            THEN Signing(doing[q].at, doing[q].since, Password, Nothing, doing[q].saw)
                            ELSE Idle],
               UNCHANGED <<linked, sso, cuts, apart, dropped, code, now, sessions, bundle, begun>>
        PROVE  Datings'
    <3>0. PICK d : d = Signing(doing[q].at, doing[q].since, Password, Nothing, doing[q].saw) OBVIOUS
    <3>1. account'.cutOff = account.cutOff BY <2>5 DEF TypeOK
    <3>2. UNCHANGED <<linked, sso, cuts, apart, now, sessions>> BY <2>5
    <3>3. Proved(d)' BY <2>2, <3>0, <3>1, <3>2 DEF Signing, Proved, InTime
    <3>4. doing' = [doing EXCEPT ![q] = IF doing[q].proved THEN d ELSE Idle] BY <2>5, <3>0
    <3>5. /\ \A e \in Doing : Proved(e) => Proved(e)'
          /\ \A r \in Rows : Standing(sso[r])'
          /\ \A t \in Session : Good(t) => Good(t)'
      BY <3>1, <3>2, WithoutCutOff DEF Datings
    <3>6. PICK e : e = (IF doing[q].proved THEN d ELSE Idle) OBVIOUS
    <3>7. Proved(e)' BY <2>4, <3>3, <3>6
    <3>8. QED BY <1>2, <3>2, <3>4, <3>5, <3>6, <3>7
  <2>6. ASSUME NEW clock \in Clock,
               CutOff([account EXCEPT !.verified = TRUE, !.cutOff = CutOffAt(clock)], sso),
               doing' = [doing EXCEPT ![q] = IF doing[q].proved
                            THEN Signing(doing[q].at, account'.cutOff, Password, Nothing, cuts')
                            ELSE Idle],
               UNCHANGED <<now, sessions, bundle, begun>>
        PROVE  Datings'
    <3> DEFINE becomes == [account EXCEPT !.verified = TRUE, !.cutOff = CutOffAt(clock)]
    <3>0. PICK d : d = Signing(doing[q].at, account'.cutOff, Password, Nothing, cuts') OBVIOUS
    <3>1. becomes.cutOff = CutOffAt(clock) BY DEF TypeOK
    <3>2. CutOff(becomes, sso) /\ now' = now /\ sessions' = sessions BY <2>6
    <3>3. doing' = [doing EXCEPT ![q] = IF doing[q].proved THEN d ELSE Idle] BY <2>6, <3>0
    <3>4. d.at = doing[q].at /\ d.since = account'.cutOff /\ d.by = Password /\ d.saw = cuts'
      BY <3>0 DEF Signing
    <3> HIDE DEF becomes
    <3>5. sso \in [Rows -> SignInRow] BY DEF TypeOK, SignInRow
    <3>6. /\ \A e \in Doing : Proved(e) => Proved(e)'
          /\ \A r \in Rows : Standing(sso[r])'
          /\ \A t \in Session : Good(t) => Good(t)'
      BY <3>1, <3>2, <3>5, AtCutOff
    <3>7. Proved(d)' BY <2>2, <2>3, <3>2, <3>4 DEF CutOff, Proved, InTime
    <3>8. PICK e : e = (IF doing[q].proved THEN d ELSE Idle) OBVIOUS
    <3>9. Proved(e)' BY <2>4, <3>7, <3>8
    <3>10. QED BY <1>2, <3>2, <3>3, <3>6, <3>8, <3>9
  <2>7. CASE End(q) /\ UNCHANGED <<linked, sso, now, sessions, bundle, begun>> /\ NoCutOff
    BY <1>2, <2>4, <2>7, WithoutCutOff DEF End, NoCutOff, Datings
  <2>8. QED BY <1>6, <2>5, <2>6, <2>7 DEF VerifyCommit
<1>7. QED BY <1>3, <1>4, <1>5, <1>6 DEF SignIn

LEMMA GoogleDatings ==
    ASSUME Shape, Shape', Datings, NEW r \in Rows, GoogleSignIn(r)
    PROVE  Datings'
<1> USE Numbers DEF Shape
<1>1. /\ doing \in [Requests -> Doing] /\ sessions \subseteq Session
      /\ sso \in [Rows -> SignInRow]
  BY DEF TypeOK, SignInRow
<1>2. ASSUME NoCutOff, linked \subseteq linked', UNCHANGED <<now, sessions, doing>>,
             NEW to, sso' = [sso EXCEPT ![r] = to], Standing(to)'
      PROVE  Datings'
  <2>1. /\ \A d \in Doing : Proved(d) => Proved(d)'
        /\ \A h : Standing(h) => Standing(h)'
        /\ \A s \in Session : Good(s) => Good(s)'
    BY <1>2, WithoutCutOff DEF NoCutOff
  <2>2. \A q \in Requests : Proved(doing[q])' BY <1>1, <1>2, <2>1 DEF Datings, Proved, InTime
  <2>3. \A p \in Rows : Standing(sso[p])' BY <1>1, <1>2, <2>1 DEF Datings, Standing
  <2>4. \A s \in sessions' : Good(s)' BY <1>1, <1>2, <2>1 DEF Datings
  <2>5. QED BY <2>2, <2>3, <2>4 DEF Datings
<1>3. ASSUME NEW g \in Google, Callback(r, g) PROVE Datings'
  <2>1. PICK to : to = [step |-> "claims", by |-> g, saw |-> 0] OBVIOUS
  <2>2. Standing(to)' BY <2>1 DEF Standing
  <2>3. sso' = [sso EXCEPT ![r] = to] BY <1>3, <2>1 DEF Callback
  <2>4. QED BY <1>2, <1>3, <2>2, <2>3 DEF Callback
<1>4. ASSUME sso[r].step # "idle", NEW step \in {"resolved", "used"}, sso' = To(r, step),
             NoCutOff, linked \subseteq linked', UNCHANGED <<now, sessions, doing>>
      PROVE  Datings'
  <2>1. PICK to : to = [sso[r] EXCEPT !.step = step] OBVIOUS
  <2>2. to.step = step BY <1>4, <2>1, SignInFields
  <2>3. Standing(to)' BY <2>2 DEF Standing
  <2>4. sso' = [sso EXCEPT ![r] = to] BY <1>4, <2>1 DEF To
  <2>5. QED BY <1>2, <1>4, <2>3, <2>4
<1>5. CASE Resolve(r)
  <2>1. sso[r].step = "claims" BY <1>5 DEF Resolve
  <2>2. CASE sso' = To(r, "used") /\ UNCHANGED linked /\ NoCutOff
    BY <1>4, <1>5, <2>1, <2>2 DEF Resolve
  <2>3. CASE sso' = To(r, "resolved") /\ linked' = linked \cup {sso[r].by} /\ NoCutOff
    BY <1>4, <1>5, <2>1, <2>3 DEF Resolve
  <2>4. ASSUME NEW clock \in Clock,
               CutOff([password |-> FALSE, verified |-> TRUE, cutOff |-> CutOffAt(clock)],
                      To(r, "resolved"))
        PROVE  Datings'
    <3>1. To(r, "resolved") \in [Rows -> SignInRow]
      <4>1. To(r, "resolved") = [sso EXCEPT ![r] = [sso[r] EXCEPT !.step = "resolved"]] BY DEF To
      <4>2. QED BY <1>1, <2>1, <4>1, ToRow
    <3>2. UNCHANGED <<now, sessions, doing>> BY <1>5 DEF Resolve
    <3>3. /\ \A d \in Doing : Proved(d) => Proved(d)'
          /\ \A p \in Rows : Standing(sso[p])'
          /\ \A s \in Session : Good(s) => Good(s)'
      BY <2>4, <3>1, <3>2, AtCutOff
    <3>4. \A q \in Requests : Proved(doing[q])' BY <1>1, <3>2, <3>3 DEF Datings, Proved, InTime
    <3>5. QED BY <1>1, <3>2, <3>3, <3>4 DEF Datings
  <2>5. QED BY <1>5, <2>2, <2>3, <2>4 DEF Resolve
<1>6. CASE IssueHandoff(r)
  <2>1. sso[r].step = "resolved" BY <1>6 DEF IssueHandoff
  <2>2. CASE ~StillHolds(r) BY <1>4, <1>6, <2>1, <2>2 DEF IssueHandoff, NoCutOff
  <2>3. CASE StillHolds(r)
    <3>1. PICK to : to = [sso[r] EXCEPT !.step = "handoff", !.saw = cuts] OBVIOUS
    <3>2. to.saw = cuts /\ to.by \in linked
      BY <2>1, <2>3, <3>1, SignInFields DEF StillHolds
    <3>3. sso' = [sso EXCEPT ![r] = to] BY <1>6, <2>3, <3>1 DEF IssueHandoff
    <3>4. Standing(to)' BY <1>6, <3>2 DEF IssueHandoff, NoCutOff, Standing
    <3>5. QED BY <1>2, <1>6, <3>3, <3>4 DEF IssueHandoff
  <2>4. QED BY <2>2, <2>3
<1>7. CASE HandoffExpires(r)
  BY <1>4, <1>7 DEF HandoffExpires
<1>8. ASSUME NEW q \in Requests, Exchange(q, r) PROVE Datings'
  <2>1. PICK at \in Clock :
          doing' = [doing EXCEPT ![q] = Signing(at, account.cutOff, sso[r].by, r, sso[r].saw)]
    BY <1>8 DEF Exchange
  <2>2. PICK d : d = Signing(at, account.cutOff, sso[r].by, r, sso[r].saw) OBVIOUS
  <2>3. sso[r].saw = cuts /\ sso[r].by \in linked BY <1>8 DEF Exchange, Datings, Standing
  <2>4. /\ \A e \in Doing : Proved(e) => Proved(e)'
        /\ \A h : Standing(h) => Standing(h)'
        /\ \A s \in Session : Good(s) => Good(s)'
    BY <1>8, WithoutCutOff DEF Exchange, NoCutOff
  <2>5. Proved(d)'
    BY <1>8, <2>2, <2>3, ClockTimes DEF Exchange, NoCutOff, Signing, Proved, InTime
  <2>6. doing' = [doing EXCEPT ![q] = d] BY <2>1, <2>2
  <2>7. \A p \in Requests : Proved(doing[p])'
    BY <1>1, <2>4, <2>5, <2>6 DEF Datings, Proved, InTime
  <2>8. sso' = [sso EXCEPT ![r] = [sso[r] EXCEPT !.step = "used"]] BY <1>8 DEF Exchange, Consumed, To
  <2>9. [sso[r] EXCEPT !.step = "used"].step = "used" BY <1>8, SignInFields DEF Exchange
  <2>10. \A p \in Rows : Standing(sso[p])'
    BY <1>1, <2>4, <2>8, <2>9 DEF Datings, Standing
  <2>11. \A s \in sessions' : Good(s)' BY <1>1, <1>8, <2>4 DEF Exchange, Datings
  <2>12. QED BY <2>7, <2>10, <2>11 DEF Datings
<1>9. QED BY <1>3, <1>5, <1>6, <1>7, <1>8 DEF GoogleSignIn

LEMMA DatingsInit == Init => Datings
BY DEF Init, Datings, Proved, Standing, Idle, NoSignIn

LEMMA DatingsStep == Shape /\ Shape' /\ Datings /\ [Next]_vars => Datings'
<1> SUFFICES ASSUME Shape, Shape', Datings, [Next]_vars PROVE Datings' OBVIOUS
<1> USE DEF Shape
<1>1. /\ doing \in [Requests -> Doing] /\ sessions \subseteq Session
      /\ sso \in [Rows -> SignInRow]
  BY DEF TypeOK, SignInRow
(* A step that has nothing to do with sessions. *)
<1>2. ASSUME now' \in {now, now + 1}, UNCHANGED <<account, cuts, apart, linked, sso, sessions>>,
             \A q \in Requests : doing'[q] = doing[q] \/ doing'[q].step \in {"idle", "rotate"}
      PROVE  Datings'
  <2>1. /\ \A d \in Doing : Proved(d) => Proved(d)'
        /\ \A h : Standing(h) => Standing(h)'
        /\ \A s \in Session : Good(s) => Good(s)'
    BY <1>2, WithoutCutOff
  <2>2. \A q \in Requests : Proved(doing[q])' BY <1>1, <1>2, <2>1 DEF Datings, Proved, InTime
  <2>3. \A p \in Rows : Standing(sso[p])' BY <1>1, <1>2, <2>1 DEF Datings, Standing
  <2>4. \A s \in sessions' : Good(s)' BY <1>1, <1>2, <2>1 DEF Datings
  <2>5. QED BY <2>2, <2>3, <2>4 DEF Datings
<1>3. CASE Tick BY <1>2, <1>3 DEF Tick, NoCutOff
<1>4. CASE Reset
  <2>1. PICK clock \in Clock, full \in BOOLEAN :
           CutOff([password |-> TRUE, verified |-> account.verified \/ ~full,
                   cutOff |-> CutOffAt(clock)], sso)
    BY <1>4 DEF Reset
  <2>2. UNCHANGED <<now, sessions, doing>> BY <1>4 DEF Reset
  <2>3. /\ \A d \in Doing : Proved(d) => Proved(d)'
        /\ \A p \in Rows : Standing(sso[p])'
        /\ \A s \in Session : Good(s) => Good(s)'
    BY <1>1, <2>1, <2>2, AtCutOff
  <2>4. \A q \in Requests : Proved(doing[q])' BY <1>1, <2>2, <2>3 DEF Datings, Proved, InTime
  <2>5. QED BY <1>1, <2>2, <2>3, <2>4 DEF Datings
<1>5. CASE \E q \in Requests : SignIn(q) BY <1>5, PasswordDatings
<1>6. CASE \E r \in Rows : GoogleSignIn(r) BY <1>6, GoogleDatings
<1>7. ASSUME NEW c \in Consents, Connect(c) PROVE Datings'
  <2>1. UNCHANGED <<now, account, cuts, apart, linked, sso, sessions, doing>>
    BY <1>7 DEF Connect, GrantJudge, GrantMint, CodeExpires, Redeem, RedeemedInVain, MintBundle, CodeStep
  <2>2. QED BY <1>2, <2>1
<1>8. ASSUME NEW b \in Bundles, BundleEnds(b) \/ \E q \in Requests : RefreshConsume(q, b) \/ RefreshEnds(q, b)
      PROVE  Datings'
  <2>1. UNCHANGED <<now, account, cuts, apart, linked, sso, sessions>>
    BY <1>8 DEF BundleEnds, RefreshConsume, RefreshEnds, BundleStep, NoCutOff
  <2>2. \/ doing' = doing
        \/ \E q \in Requests : \/ doing' = [doing EXCEPT ![q] = Idle]
                              \/ doing' = [doing EXCEPT ![q] = Rotating(b)]
    BY <1>8 DEF BundleEnds, RefreshConsume, RefreshEnds, End
  <2>3. \A q \in Requests : doing'[q] = doing[q] \/ doing'[q].step \in {"idle", "rotate"}
    BY <1>1, <2>2 DEF Idle, Rotating
  <2>4. QED BY <1>2, <2>1, <2>3
<1>9. CASE UNCHANGED vars BY <1>2, <1>9 DEF vars
<1>10. QED BY <1>3, <1>4, <1>5, <1>6, <1>7, <1>8, <1>9 DEF Next

(***************************************************************************)
(* Consents and connections                                                *)
(***************************************************************************)

(* A consent has no connection while its code is anything but over, and    *)
(* none ever if the code was dropped at a cut-off; and of the connections  *)
(* that follow one another by refresh tokens one is live.                  *)
Lines ==
    \A c \in Consents :
        /\ code[c] # "over" => c \notin dropped /\ \A b \in Bundles : bundle[b].line # c
        /\ c \in dropped => \A b \in Bundles : bundle[b].line # c
        /\ \A a, b \in Bundles : bundle[a] = Live(c) /\ bundle[b] = Live(c) => a = b

LEMMA LinesAtCutOff ==
    ASSUME Shape, Lines, NEW becomes, NEW rows, CutOff(becomes, rows), UNCHANGED bundle
    PROVE  Lines'
<1>1. dropped' = dropped \cup {c \in Consents : code[c] = "pending"} BY DEF CutOff
<1>2. \A c \in Consents : code'[c] = IF code[c] = "pending" THEN "over" ELSE code[c]
  BY DEF CutOff, Deleted
<1>3. QED BY <1>1, <1>2 DEF Lines, Live

LEMMA LinesOfCode ==
    ASSUME Shape, Lines, NEW c \in Consents, NEW from, NEW to, from # "over", CodeStep(c, from, to),
           UNCHANGED bundle
    PROVE  Lines'
<1>1. \A d \in Consents \ {c} : code'[d] = code[d]
  BY DEF CodeStep, Shape, TypeOK
<1>2. code[c] # "over" /\ UNCHANGED dropped BY DEF CodeStep
<1>3. QED BY <1>1, <1>2 DEF Lines, Live

LEMMA LinesStep == Shape /\ Lines /\ [Next]_vars => Lines'
<1> SUFFICES ASSUME Shape, Lines, [Next]_vars PROVE Lines' OBVIOUS
<1>1. CASE UNCHANGED <<bundle, code, dropped>> BY <1>1 DEF Lines, Live
<1>2. CASE Tick \/ UNCHANGED vars BY <1>1, <1>2 DEF Tick, NoCutOff, vars
<1>3. CASE Reset BY <1>3, LinesAtCutOff DEF Reset
<1>4. ASSUME NEW q \in Requests, SignIn(q) PROVE Lines'
  <2>1. CASE UNCHANGED code /\ UNCHANGED dropped
    BY <1>1, <1>4, <2>1 DEF SignIn, Login, Sign, VerifyRead, VerifyCommit
  <2>2. ASSUME NEW becomes, CutOff(becomes, sso) PROVE Lines'
    BY <1>4, <2>2, LinesAtCutOff DEF SignIn, Login, Sign, VerifyRead, VerifyCommit
  <2>3. QED BY <1>4, <2>1, <2>2 DEF SignIn, Login, Sign, VerifyRead, VerifyCommit, NoCutOff
<1>5. ASSUME NEW r \in Rows, GoogleSignIn(r) PROVE Lines'
  <2>1. CASE NoCutOff
    BY <1>1, <1>5, <2>1 DEF NoCutOff, GoogleSignIn, Callback, Resolve, IssueHandoff, HandoffExpires, Exchange
  <2>2. ASSUME NEW becomes, CutOff(becomes, To(r, "resolved")), UNCHANGED bundle PROVE Lines'
    BY <2>2, LinesAtCutOff
  <2>3. QED BY <1>5, <2>1, <2>2 DEF GoogleSignIn, Callback, Resolve, IssueHandoff, HandoffExpires, Exchange
<1>6. ASSUME NEW c \in Consents, Connect(c) PROVE Lines'
  <2>1. CASE GrantJudge(c) \/ GrantMint(c) \/ CodeExpires(c) \/ Redeem(c) \/ RedeemedInVain(c)
    BY <2>1, LinesOfCode DEF GrantJudge, GrantMint, CodeExpires, Redeem, RedeemedInVain
  <2>2. ASSUME NEW b \in Bundles, MintBundle(c, b) PROVE Lines'
    <3>1. /\ code[c] = "redeemed" /\ bundle[b] = NoBundle /\ UNCHANGED dropped
          /\ \A d \in Consents \ {c} : code'[d] = code[d]
          /\ bundle'[b] = Live(c) /\ \A a \in Bundles \ {b} : bundle'[a] = bundle[a]
      BY <2>2 DEF MintBundle, CodeStep, Shape, TypeOK
    <3>2. c \notin dropped /\ \A a \in Bundles : bundle[a].line # c BY <3>1 DEF Lines
    <3>3. Live(c).line = c BY DEF Live
    <3>4. code'[c] = "over" BY <2>2 DEF MintBundle, CodeStep, Shape, TypeOK
    <3>5. ASSUME NEW d \in Consents
          PROVE  /\ code'[d] # "over" => d \notin dropped' /\ \A a \in Bundles : bundle'[a].line # d
                 /\ d \in dropped' => \A a \in Bundles : bundle'[a].line # d
                 /\ \A a, e \in Bundles : bundle'[a] = Live(d) /\ bundle'[e] = Live(d) => a = e
      <4>1. CASE d = c BY <3>1, <3>2, <3>3, <3>4, <4>1 DEF Live
      <4>2. CASE d # c
        <5>1. \A a \in Bundles : bundle'[a].line = d => bundle'[a] = bundle[a]
          BY <3>1, <3>3, <4>2
        <5>2. \A a \in Bundles : bundle'[a] = Live(d) => bundle[a] = Live(d)
          BY <3>1, <4>2 DEF Live
        <5>3. QED BY <3>1, <4>2, <5>1, <5>2 DEF Lines
      <4>3. QED BY <4>1, <4>2
    <3>6. QED BY <3>5 DEF Lines, Live
  <2>3. QED BY <1>6, <2>1, <2>2 DEF Connect
<1>7. ASSUME NEW b \in Bundles, BundleEnds(b) PROVE Lines'
  <2>1. UNCHANGED <<code, dropped>> BY <1>7 DEF BundleEnds, BundleStep, NoCutOff
  <2>2. bundle[b] \in [line : Consents, state : {"live", "spent", "over"}]
    BY <1>7 DEF BundleEnds, NoBundle, Shape, TypeOK
  <2>3. /\ \A a \in Bundles : bundle'[a].line = bundle[a].line
        /\ \A a \in Bundles : bundle'[a].state = "live" => bundle'[a] = bundle[a]
    BY <1>7, <2>2 DEF BundleEnds, Shape, TypeOK
  <2>4. \A a \in Bundles, c \in Consents : bundle'[a] = Live(c) => bundle[a] = Live(c)
    BY <2>3 DEF Live
  <2>5. QED BY <2>1, <2>3, <2>4 DEF Lines, Live
<1>8. ASSUME NEW q \in Requests, NEW b \in Bundles, RefreshConsume(q, b) \/ RefreshEnds(q, b) PROVE Lines'
  <2>1. UNCHANGED <<code, dropped>> BY <1>8 DEF RefreshConsume, RefreshEnds, BundleStep, NoCutOff
  <2>2. CASE UNCHANGED bundle BY <1>1, <2>1, <2>2
  <2>3. CASE /\ RefreshEnds(q, b) /\ bundle[b] = NoBundle
             /\ bundle' = [bundle EXCEPT ![doing[q].of].state = "spent", ![b] = Live(bundle[doing[q].of].line)]
    <3>1. PICK old \in Bundles : doing[q] = Rotating(old)
      BY <2>3, RotateFields DEF RefreshEnds, Shape
    <3>2. doing[q].of = old /\ Rotates(q, old) BY <3>1 DEF Rotating, Rotates
    <3>3. bundle[old].state = "live" BY <3>2 DEF Shape, Rotations
    <3>4. bundle[old] \in [line : Consents, state : {"live", "spent", "over"}] /\ old # b
      BY <2>3, <3>3 DEF NoBundle, Shape, TypeOK
    <3>5. PICK c \in Consents : c = bundle[old].line BY <3>4
    <3>6. bundle[old] = Live(c) BY <3>3, <3>4, <3>5 DEF Live
    <3>7. /\ bundle'[b] = Live(c)
          /\ bundle'[old].line = c /\ bundle'[old].state = "spent"
          /\ \A a \in Bundles \ {b, old} : bundle'[a] = bundle[a]
      BY <2>3, <3>2, <3>4, <3>5 DEF Shape, TypeOK
    <3>8. \A d \in Consents : bundle'[old] # Live(d) BY <3>7 DEF Live
    <3>9. code[c] = "over" /\ c \notin dropped BY <3>5 DEF Lines
    <3>10. Live(c).line = c BY DEF Live
    <3>11. ASSUME NEW d \in Consents
           PROVE  /\ code'[d] # "over" => d \notin dropped' /\ \A a \in Bundles : bundle'[a].line # d
                  /\ d \in dropped' => \A a \in Bundles : bundle'[a].line # d
                  /\ \A a, e \in Bundles : bundle'[a] = Live(d) /\ bundle'[e] = Live(d) => a = e
      <4>1. CASE d = c
        <5>1. \A a \in Bundles : bundle'[a] = Live(c) => a = b
          BY <3>4, <3>6, <3>7, <3>8 DEF Lines
        <5>2. QED BY <2>1, <3>9, <4>1, <5>1
      <4>2. CASE d # c
        <5>1. \A a \in Bundles : bundle'[a].line = d => bundle'[a] = bundle[a]
          BY <3>7, <3>10, <4>2
        <5>2. \A a \in Bundles : bundle'[a] = Live(d) => bundle[a] = Live(d)
          BY <3>7, <3>8, <4>2 DEF Live
        <5>3. QED BY <2>1, <4>2, <5>1, <5>2 DEF Lines
      <4>3. QED BY <4>1, <4>2
    <3>12. QED BY <3>11 DEF Lines, Live
  <2>4. QED BY <1>8, <2>2, <2>3 DEF RefreshConsume, RefreshEnds
<1>9. QED BY <1>2, <1>3, <1>4, <1>5, <1>6, <1>7, <1>8 DEF Next

LEMMA LinesInit == Init => Lines
BY CredentialsAssumption DEF Init, Lines, NoBundle, Live

(* A session is refused from the first cut-off after its proof on and      *)
(* accepted until then, for any number of requests and cut-offs, as long   *)
(* as no clock is as much as Margin ahead of another; and no consent       *)
(* pending at a cut-off ever becomes a connection (invalidateSessions,     *)
(* sessionState, signInProved).                                            *)
THEOREM CutOffsDecide == Spec => []CutOffDecides
<1>1. Init => Shape /\ Datings /\ Lines BY ShapeInit, DatingsInit, LinesInit
<1>2. Shape /\ Datings /\ Lines /\ [Next]_vars => (Shape /\ Datings /\ Lines)'
  BY ShapeStep, DatingsStep, LinesStep
<1>3. Shape /\ Datings /\ Lines => CutOffDecides
  <2> SUFFICES ASSUME Shape, Datings, Lines PROVE CutOffDecides OBVIOUS
  <2>1. ASSUME NEW s \in sessions
        PROVE  /\ s.saw = cuts => Accepted(s) /\ s.by \in linked \cup {Password}
               /\ apart /\ s.saw < cuts => ~Accepted(s)
    <3>1. Good(s) /\ s.iat \in Nat /\ account.cutOff \in Nat
      BY SessionFields, Numbers DEF Datings, Shape, TypeOK
    <3>2. QED BY <3>1 DEF Good, Accepted
  <2>2. \A b \in Bundles : bundle[b].line \notin dropped
    BY CredentialsAssumption DEF Lines, Shape, TypeOK, NoBundle
  <2>3. QED BY <2>1, <2>2 DEF CutOffDecides
<1>4. QED BY <1>1, <1>2, <1>3, PTL DEF Spec

(***************************************************************************)
(* Handoffs                                                                *)
(***************************************************************************)

Signs(q, r) == doing[q].step = "sign" /\ doing[q].from = r

(* Nobody signs for a handoff that is yet to be used, and for one that is, *)
(* one request does or one session exists.                                 *)
Handoffs ==
    \A r \in Rows :
        /\ sso[r].step # "used" =>
              (\A q \in Requests : ~Signs(q, r)) /\ (\A s \in sessions : s.from # r)
        /\ \A q \in Requests, s \in sessions : ~(Signs(q, r) /\ s.from = r)
        /\ \A p, q \in Requests : Signs(p, r) /\ Signs(q, r) => p = q
        /\ \A s, t \in sessions : s.from = r /\ t.from = r => s = t

UsedStays == \A r \in Rows : sso[r].step = "used" => sso'[r].step = "used"

(* A step in which nobody begins to sign for a handoff. *)
LEMMA NoneBegun ==
    ASSUME Handoffs, UsedStays, UNCHANGED sessions,
           \A q \in Requests, r \in Rows : Signs(q, r)' => Signs(q, r)
    PROVE  Handoffs'
BY DEF Handoffs, UsedStays

LEMMA PasswordHandoffs ==
    ASSUME Shape, Handoffs, NEW q \in Requests, SignIn(q)
    PROVE  Handoffs'
<1> USE CredentialsAssumption DEF Shape
<1>1. doing \in [Requests -> Doing] BY DEF TypeOK
<1>2. UsedStays
  BY DEF UsedStays, SignIn, Login, Sign, VerifyRead, VerifyCommit, CutOff, Cancelled, NoCutOff
<1>3. ASSUME NEW d, doing' = [doing EXCEPT ![q] = d], UNCHANGED sessions,
             d.step = "sign" => d.from = Nothing
      PROVE  Handoffs'
  <2>1. \A p \in Requests, r \in Rows : Signs(p, r)' => Signs(p, r) BY <1>1, <1>3 DEF Signs
  <2>2. QED BY <1>2, <1>3, <2>1, NoneBegun
<1>4. /\ \A at, since, by, saw : Signing(at, since, by, Nothing, saw).from = Nothing
      /\ \A at, proved, confirmed, session : Verifying(at, proved, confirmed, session).step # "sign"
      /\ Idle.step # "sign"
  BY DEF Signing, Verifying, Idle
<1>5. CASE Login(q)
  <2>1. PICK at \in Clock : doing' = [doing EXCEPT ![q] = Signing(at, account.cutOff, Password, Nothing, cuts)]
    BY <1>5 DEF Login, Begin
  <2>2. PICK d : d = Signing(at, account.cutOff, Password, Nothing, cuts) OBVIOUS
  <2>3. UNCHANGED sessions BY <1>5 DEF Login
  <2>4. QED BY <1>3, <1>4, <2>1, <2>2, <2>3
<1>6. CASE Sign(q)
  <2>1. doing[q].step = "sign" BY <1>6 DEF Sign
  <2>2. PICK s : s = [iat |-> Dated(doing[q]), by |-> doing[q].by, from |-> doing[q].from, saw |-> doing[q].saw]
    OBVIOUS
  <2>3. s.from = doing[q].from BY <2>2
  <2>4. sessions' = sessions \/ sessions' = sessions \cup {s} BY <1>6, <2>2 DEF Sign
  <2>5. doing' = [doing EXCEPT ![q] = Idle] BY <1>6 DEF Sign, End
  <2>6. \A p \in Requests, r \in Rows : Signs(p, r)' => p # q /\ Signs(p, r)
    BY <1>1, <1>4, <2>5 DEF Signs
  <2>7. CASE UNCHANGED sessions BY <1>2, <2>6, <2>7, NoneBegun
  <2>8. CASE sessions' = sessions \cup {s}
    <3>1. ASSUME NEW r \in Rows
          PROVE  /\ sso'[r].step # "used" =>
                       (\A p \in Requests : ~Signs(p, r)') /\ (\A t \in sessions' : t.from # r)
                 /\ \A p \in Requests, t \in sessions' : ~(Signs(p, r)' /\ t.from = r)
                 /\ \A p, o \in Requests : Signs(p, r)' /\ Signs(o, r)' => p = o
                 /\ \A t, u \in sessions' : t.from = r /\ u.from = r => t = u
      <4>1. CASE s.from # r BY <1>2, <2>6, <2>8, <4>1 DEF Handoffs, UsedStays
      <4>2. CASE s.from = r
        <5>1. Signs(q, r) BY <2>1, <2>3, <4>2 DEF Signs
        <5>2. sso[r].step = "used" /\ sso'[r].step = "used" BY <1>2, <5>1 DEF Handoffs, UsedStays
        <5>3. \A p \in Requests : ~Signs(p, r)' BY <2>6, <5>1 DEF Handoffs
        <5>4. \A t \in sessions : t.from # r BY <5>1 DEF Handoffs
        <5>5. QED BY <2>8, <5>2, <5>3, <5>4
      <4>3. QED BY <4>1, <4>2
    <3>2. QED BY <3>1 DEF Handoffs
  <2>9. QED BY <2>4, <2>7, <2>8
<1>7. CASE VerifyRead(q)
  <2>1. PICK at, proved, confirmed, session :
          doing' = [doing EXCEPT ![q] = Verifying(at, proved, confirmed, session)]
    BY <1>7 DEF VerifyRead, Begin
  <2>2. PICK d : d = Verifying(at, proved, confirmed, session) OBVIOUS
  <2>3. UNCHANGED sessions BY <1>7 DEF VerifyRead
  <2>4. QED BY <1>3, <1>4, <2>1, <2>2, <2>3
<1>8. CASE VerifyCommit(q)
  <2>1. PICK since, saw, d : /\ d = Idle \/ d = Signing(doing[q].at, since, Password, Nothing, saw)
                             /\ doing' = [doing EXCEPT ![q] = d]
    <3>1. CASE End(q) BY <3>1 DEF End
    <3>2. CASE ~End(q) BY <1>8, <3>2 DEF VerifyCommit
    <3>3. QED BY <3>1, <3>2
  <2>2. UNCHANGED sessions BY <1>8 DEF VerifyCommit
  <2>3. QED BY <1>3, <1>4, <2>1, <2>2
<1>9. QED BY <1>5, <1>6, <1>7, <1>8 DEF SignIn

LEMMA HandoffsStep == Shape /\ Handoffs /\ [Next]_vars => Handoffs'
<1> SUFFICES ASSUME Shape, Handoffs, [Next]_vars PROVE Handoffs' OBVIOUS
<1> USE DEF Shape
<1>1. doing \in [Requests -> Doing] BY DEF TypeOK
<1>2. CASE UNCHANGED <<sso, sessions, doing>> BY <1>2 DEF Handoffs, Signs
<1>3. CASE Tick BY <1>2, <1>3 DEF Tick
<1>4. CASE Reset
  <2>1. UsedStays BY <1>4 DEF Reset, CutOff, Cancelled, UsedStays
  <2>2. UNCHANGED <<sessions, doing>> BY <1>4 DEF Reset
  <2>3. QED BY <2>1, <2>2, NoneBegun DEF Signs
<1>5. CASE \E q \in Requests : SignIn(q) BY <1>5, PasswordHandoffs
<1>6. ASSUME NEW r \in Rows, GoogleSignIn(r) PROVE Handoffs'
  <2>1. UsedStays
    <3>1. ASSUME NEW to, sso' = [sso EXCEPT ![r] = to], sso[r].step # "used" PROVE UsedStays
      BY <3>1 DEF UsedStays, TypeOK
    <3>2. CASE Resolve(r)
      <4>1. sso[r].step = "claims" BY <3>2 DEF Resolve
      <4>2. CASE \E becomes : CutOff(becomes, To(r, "resolved"))
        BY <4>1, <4>2 DEF CutOff, Cancelled, To, UsedStays, TypeOK
      <4>3. CASE sso' = To(r, "used") \/ sso' = To(r, "resolved")
        BY <3>1, <4>1, <4>3 DEF To
      <4>4. QED BY <3>2, <4>2, <4>3 DEF Resolve
    <3>3. QED
      BY <1>6, <3>1, <3>2 DEF GoogleSignIn, Callback, IssueHandoff, HandoffExpires, Exchange, Consumed, To
  <2>2. CASE UNCHANGED <<sessions, doing>> BY <2>1, <2>2, NoneBegun DEF Signs
  <2>3. ASSUME NEW q \in Requests, Exchange(q, r) PROVE Handoffs'
    <3>1. PICK d : d.step = "sign" /\ d.from = r /\ doing' = [doing EXCEPT ![q] = d]
      BY <2>3 DEF Exchange, Signing
    <3>2. sso[r].step # "used" /\ UNCHANGED sessions BY <2>3 DEF Exchange
    <3>3. sso'[r].step = "used"
      <4>1. sso' = [sso EXCEPT ![r] = [sso[r] EXCEPT !.step = "used"]] BY <2>3 DEF Exchange, Consumed, To
      <4>2. [sso[r] EXCEPT !.step = "used"].step = "used" BY <2>3, SignInFields DEF Exchange
      <4>3. QED BY <4>1, <4>2 DEF TypeOK
    <3>4. /\ \A p \in Requests \ {q}, o \in Rows : Signs(p, o)' <=> Signs(p, o)
          /\ \A o \in Rows : Signs(q, o)' <=> o = r
      BY <1>1, <3>1 DEF Signs
    <3>5. ASSUME NEW o \in Rows
          PROVE  /\ sso'[o].step # "used" =>
                       (\A p \in Requests : ~Signs(p, o)') /\ (\A t \in sessions' : t.from # o)
                 /\ \A p \in Requests, t \in sessions' : ~(Signs(p, o)' /\ t.from = o)
                 /\ \A p, a \in Requests : Signs(p, o)' /\ Signs(a, o)' => p = a
                 /\ \A t, u \in sessions' : t.from = o /\ u.from = o => t = u
      <4>1. CASE o = r
        <5>1. (\A p \in Requests : ~Signs(p, r)) /\ (\A t \in sessions : t.from # r)
          BY <3>2 DEF Handoffs
        <5>2. QED BY <3>2, <3>3, <3>4, <4>1, <5>1
      <4>2. CASE o # r
        <5>1. \A p \in Requests : Signs(p, o)' => Signs(p, o) BY <3>4, <4>2
        <5>2. QED BY <2>1, <3>2, <5>1 DEF Handoffs, UsedStays
      <4>3. QED BY <4>1, <4>2
    <3>6. QED BY <3>5 DEF Handoffs
  <2>4. QED
    BY <1>6, <2>2, <2>3 DEF GoogleSignIn, Callback, Resolve, IssueHandoff, HandoffExpires
<1>7. ASSUME NEW c \in Consents, Connect(c) PROVE Handoffs'
  BY <1>2, <1>7 DEF Connect, GrantJudge, GrantMint, CodeExpires, Redeem, RedeemedInVain, MintBundle, CodeStep
<1>8. ASSUME NEW b \in Bundles, BundleEnds(b) \/ \E q \in Requests : RefreshConsume(q, b) \/ RefreshEnds(q, b)
      PROVE  Handoffs'
  <2>1. UNCHANGED <<sso, sessions>> BY <1>8 DEF BundleEnds, RefreshConsume, RefreshEnds, BundleStep
  <2>2. \/ doing' = doing
        \/ \E q \in Requests : \/ doing' = [doing EXCEPT ![q] = Idle]
                              \/ doing' = [doing EXCEPT ![q] = Rotating(b)]
    BY <1>8 DEF BundleEnds, RefreshConsume, RefreshEnds, End
  <2>3. \A q \in Requests, r \in Rows : Signs(q, r)' => Signs(q, r)
    BY <1>1, <2>2 DEF Signs, Idle, Rotating
  <2>4. QED BY <2>1, <2>3, NoneBegun DEF UsedStays
<1>9. CASE UNCHANGED vars BY <1>2, <1>9 DEF vars
<1>10. QED BY <1>3, <1>4, <1>5, <1>6, <1>7, <1>8, <1>9 DEF Next

LEMMA HandoffsInit == Init => Handoffs
BY DEF Init, Handoffs, Signs, Idle

LEMMA AtMostOne ==
    ASSUME NEW S, \A a, b \in S : a = b
    PROVE  IsFiniteSet(S) /\ Cardinality(S) \in {0, 1} /\ (S = {} => Cardinality(S) = 0)
<1>1. CASE S = {} BY <1>1, FS_EmptySet
<1>2. CASE S # {}
  <2>1. PICK a : a \in S BY <1>2
  <2>2. S = {a} BY <2>1
  <2>3. QED BY <1>2, <2>2, FS_Singleton
<1>3. QED BY <1>1, <1>2

(* A handoff signs one session and a consent has one live connection, for  *)
(* any number of requests that present the same code or the same refresh   *)
(* token at once (exchangeHandoff, redeemAuthCode, consumeRefreshToken).   *)
THEOREM UsedOnce == Spec => []EachUsedOnce
<1>1. Init => Shape /\ Lines /\ Handoffs BY ShapeInit, LinesInit, HandoffsInit
<1>2. Shape /\ Lines /\ Handoffs /\ [Next]_vars => (Shape /\ Lines /\ Handoffs)'
  BY ShapeStep, LinesStep, HandoffsStep
<1>3. Lines /\ Handoffs => EachUsedOnce
  <2> SUFFICES ASSUME Lines, Handoffs PROVE EachUsedOnce OBVIOUS
  <2>1. ASSUME NEW r \in Rows PROVE Cardinality(SignedBy(r)) + Cardinality(SigningFor(r)) <= 1
    <3>1. /\ \A s, t \in SignedBy(r) : s = t
          /\ \A p, q \in SigningFor(r) : p = q
          /\ SignedBy(r) = {} \/ SigningFor(r) = {}
      BY DEF Handoffs, SignedBy, SigningFor, Signs
    <3>2. QED BY <3>1, AtMostOne
  <2>2. ASSUME NEW c \in Consents PROVE Cardinality(Running(c)) <= 1
    <3>1. \A a, b \in Running(c) : a = b BY DEF Lines, Running
    <3>2. QED BY <3>1, AtMostOne
  <2>3. QED BY <2>1, <2>2 DEF EachUsedOnce
<1>4. QED BY <1>1, <1>2, <1>3, PTL DEF Spec
=============================================================================
