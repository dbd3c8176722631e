------------------------ MODULE DirectoryCheckProofs ------------------------
(* Theorems about DirectoryCheck, for any members, managers and requests   *)
(* in flight, and for any hours that satisfy DirectoryAssumption.          *)
EXTENDS DirectoryCheck, FiniteSetTheorems, TLAPS

---------------------------------------------------------------------------
(* Types, and what a connection's dates say of each other: the warning of  *)
(* a run of failures is younger than the last success.                     *)
ConnRec == [connected : 0..Horizon, success : 0..Quiet, warned : 0..StaleHours \cup {Never},
            run : BOOLEAN]
RowRec == [status : {"none", "active", "off"}, checked : 0..StaleHours \cup {Never}, claimed : BOOLEAN]

WarnedSince(c) == c.run => c.warned # Never /\ (c.warned <= c.success \/ c.success = Quiet)

ConnOK == conn = NoConn \/ (conn \in ConnRec /\ WarnedSince(conn))

Shape ==
    /\ google \in [Members -> {"active", "off"}]
    /\ domain \in BOOLEAN
    /\ ConnOK
    /\ row \in [Members -> RowRec]
    /\ task \in [Tasks -> Asks \cup {Idle}]
    /\ off \in [Members -> 0..Horizon]

LEMMA Bounds ==
    /\ StaleHours \in Nat \ {0} /\ Quiet \in Nat \ {0} /\ Horizon \in Nat
    /\ Quiet <= StaleHours /\ StaleHours <= Horizon /\ Horizon < Never /\ Never \in Nat
    /\ HoldHours \in Nat \ {0} /\ HoldHours <= Quiet
BY DirectoryAssumption DEF Quiet, Never

LEMMA OlderType ==
    ASSUME NEW limit \in Nat \ {0}, limit < Never, NEW age \in 0..limit \cup {Never}
    PROVE  /\ Older(age, limit) \in 0..limit \cup {Never}
           /\ age # Never => Older(age, limit) \in 1..limit
           /\ age = Never => Older(age, limit) = Never
BY DEF Older, Never

LEMMA ShapeImpliesType == ASSUME Shape PROVE TypeOK
<1>1. conn \in [connected : Age, success : Age, warned : Age, run : BOOLEAN]
  <2>1. /\ 0..Horizon \subseteq Age /\ 0..Quiet \subseteq Age
        /\ 0..StaleHours \cup {Never} \subseteq Age /\ Never \in Age
    BY Bounds DEF Age
  <2>2. NoConn \in [connected : Age, success : Age, warned : Age, run : BOOLEAN]
    BY <2>1 DEF NoConn
  <2>3. ConnRec \subseteq [connected : Age, success : Age, warned : Age, run : BOOLEAN]
    BY <2>1 DEF ConnRec
  <2>4. QED BY <2>2, <2>3 DEF Shape, ConnOK
<1>2. conn.run => conn.warned # Never /\ (conn.success = 0 => conn.warned = 0)
  BY Bounds DEF Shape, ConnOK, ConnRec, NoConn, WarnedSince
<1>3. RowRec \subseteq [status : {"none", "active", "off"}, checked : Age, claimed : BOOLEAN]
  BY Bounds DEF RowRec, Age
<1>4. QED BY <1>1, <1>2, <1>3 DEF Shape, TypeOK

(* The connection's possible changes.                                      *)
LEMMA NewConnOK == NewConn \in ConnRec /\ WarnedSince(NewConn)
BY Bounds DEF NewConn, ConnRec, WarnedSince

LEMMA WarnOK == ASSUME conn \in ConnRec
    PROVE  Warn \in ConnRec /\ WarnedSince(Warn) /\ Warn.connected = conn.connected
<1>1. 0 \in 0..StaleHours \cup {Never} BY Bounds
<1>2. Warn \in ConnRec BY <1>1 DEF Warn, ConnRec
<1>3. Warn.warned = 0 BY DEF Warn, ConnRec
<1>4. Warn.success = conn.success BY DEF Warn, ConnRec
<1>5. Warn.connected = conn.connected BY DEF Warn, ConnRec
<1>6. conn.success \in 0..Quiet BY DEF ConnRec
<1>7. QED BY <1>2, <1>3, <1>4, <1>5, <1>6, Bounds DEF WarnedSince

LEMMA SuccessOK == ASSUME conn \in ConnRec
    PROVE  Success \in ConnRec /\ WarnedSince(Success) /\ Success.connected = conn.connected
<1>1. 0 \in 0..Quiet BY Bounds
<1>2. Success \in ConnRec BY <1>1 DEF Success, ConnRec
<1>3. ~Success.run BY DEF Success, ConnRec
<1>4. Success.connected = conn.connected BY DEF Success, ConnRec
<1>5. QED BY <1>2, <1>3, <1>4 DEF WarnedSince

AgedConn == [conn EXCEPT !.connected = Older(@, Horizon), !.success = Older(@, Quiet),
                         !.warned = Older(@, StaleHours)]

LEMMA AgedConnOK == ASSUME ConnOK
    PROVE  /\ conn = NoConn => AgedConn = NoConn
           /\ conn \in ConnRec => AgedConn \in ConnRec /\ WarnedSince(AgedConn)
<1>1. ASSUME conn = NoConn PROVE AgedConn = NoConn
  BY <1>1 DEF AgedConn, NoConn, Older
<1>2. ASSUME conn \in ConnRec, WarnedSince(conn) PROVE AgedConn \in ConnRec /\ WarnedSince(AgedConn)
  <2>1. Older(conn.connected, Horizon) \in 0..Horizon
    BY <1>2, Bounds, OlderType DEF ConnRec
  <2>2. Older(conn.success, Quiet) \in 0..Quiet
    BY <1>2, Bounds, OlderType DEF ConnRec
  <2>3. Older(conn.warned, StaleHours) \in 0..StaleHours \cup {Never}
    BY <1>2, Bounds, OlderType DEF ConnRec
  <2>4. AgedConn \in ConnRec BY <1>2, <2>1, <2>2, <2>3 DEF AgedConn, ConnRec
  <2>5. conn.run /\ conn.warned <= conn.success =>
          Older(conn.warned, StaleHours) <= Older(conn.success, Quiet)
            \/ Older(conn.success, Quiet) = Quiet
    BY <1>2, Bounds DEF ConnRec, Older, WarnedSince
  <2>6. conn.success = Quiet => Older(conn.success, Quiet) = Quiet
    BY <1>2, Bounds DEF Older
  <2>7. conn.warned # Never => Older(conn.warned, StaleHours) # Never
    BY <1>2, Bounds DEF ConnRec, Older
  <2>8. /\ AgedConn.run = conn.run
        /\ AgedConn.warned = Older(conn.warned, StaleHours)
        /\ AgedConn.success = Older(conn.success, Quiet)
    BY <1>2 DEF AgedConn, ConnRec
  <2>9. QED BY <1>2, <2>4, <2>5, <2>6, <2>7, <2>8 DEF WarnedSince
<1>3. NoConn \notin ConnRec BY Bounds DEF NoConn, ConnRec
<1>4. QED BY <1>1, <1>2, <1>3 DEF ConnOK

---------------------------------------------------------------------------
(* Each step's effect on the rows and the tasks.                           *)
LEMMA AskingTask == ASSUME Shape, NEW t \in Tasks, task[t] # Idle
    PROVE  task[t] \in Asks /\ task[t].member \in Members
BY DEF Shape, Asks

LEMMA NewAsk == ASSUME NEW m \in Members, NEW for \in Purposes PROVE Ask(m, for) \in Asks
BY DEF Ask, Asks

LEMMA AgainOK == ASSUME NEW b \in Asks
    PROVE  /\ \A s \in {"answered", "recorded", "holding", "change"} : [b EXCEPT !.step = s] \in Asks
           /\ \A a \in {"none", "active", "off", "unreachable", "error"} :
                 [b EXCEPT !.step = "answered", !.answer = a] \in Asks
           /\ \A g \in {"slow", "late"} : [b EXCEPT !.age = g] \in Asks
           /\ [b EXCEPT !.old = TRUE] \in Asks
BY DEF Asks

LEMMA OutlivedOK == ASSUME NEW ts \in [Tasks -> Asks \cup {Idle}]
    PROVE  Outlived(ts) \in [Tasks -> Asks \cup {Idle}]
BY AgainOK DEF Outlived

LEMMA ClearedOK == Cleared \in [Members -> RowRec]
BY DEF Cleared, NoRow, RowRec

(* A step that changes only the requests in flight. *)
LEMMA TaskStepShape ==
    ASSUME Shape, UNCHANGED <<google, domain, conn, row, off>>,
           task' \in [Tasks -> Asks \cup {Idle}]
    PROVE  Shape'
BY DEF Shape, ConnOK

LEMMA StartingShape == ASSUME Shape, NEW t \in Tasks, NEW m \in Members, Starting(t, m) PROVE Shape'
<1>1. row' \in [Members -> RowRec]
  <2>1. row' = row \/ row' = [row EXCEPT ![m].claimed = TRUE]
    BY DEF Starting, Claim, ManagerAsks
  <2>2. [row[m] EXCEPT !.claimed = TRUE] \in RowRec BY DEF Shape, RowRec
  <2>3. QED BY <2>1, <2>2 DEF Shape
<1>2. task' \in [Tasks -> Asks \cup {Idle}]
  <2>1. \E for \in Purposes : task' = [task EXCEPT ![t] = Ask(m, for)]
    BY DEF Starting, Claim, ManagerAsks, Purposes
  <2>2. QED BY <2>1, NewAsk DEF Shape
<1>3. UNCHANGED <<google, domain, conn, off>> BY DEF Starting, Claim, ManagerAsks
<1>4. QED BY <1>1, <1>2, <1>3 DEF Shape, ConnOK

LEMMA AnswerShape == ASSUME Shape, NEW t \in Tasks, Answer(t) PROVE Shape'
<1>1. task[t] # Idle BY DEF Answer, Idle
<1>2. PICK a \in {google[task[t].member], "unreachable", "error"} :
        task' = [task EXCEPT ![t].step = "answered", ![t].answer = a]
  BY DEF Answer
<1>3. a \in {"none", "active", "off", "unreachable", "error"}
  BY <1>1, AskingTask DEF Shape
<1>4. task' = [task EXCEPT ![t] = [task[t] EXCEPT !.step = "answered", !.answer = a]]
  BY <1>2
<1>5. task' \in [Tasks -> Asks \cup {Idle}]
  BY <1>1, <1>3, <1>4, AskingTask, AgainOK DEF Shape
<1>6. QED BY <1>5, TaskStepShape DEF Answer

LEMMA AnsweredShape == ASSUME Shape, NEW t \in Tasks, Answered(t) PROVE Shape'
<1>1. task[t] # Idle BY DEF Answered, Idle
<1> DEFINE m == task[t].member
           told == [status |-> task[t].answer, checked |-> 0, claimed |-> FALSE]
           held == [row[m] EXCEPT !.claimed = TRUE]
<1>2. m \in Members /\ row[m] \in RowRec BY <1>1, AskingTask DEF Shape
<1>3. held \in RowRec BY <1>2 DEF RowRec
<1>4. Says(t) => told \in RowRec BY Bounds DEF Says, RowRec
<1>5. row' = [row EXCEPT ![m] = IF Says(t) THEN told ELSE held] BY DEF Answered
<1>6. row' \in [Members -> RowRec] BY <1>2, <1>3, <1>4, <1>5 DEF Shape
<1>7. task' \in [Tasks -> Asks \cup {Idle}]
  BY <1>1, AskingTask, AgainOK DEF Answered, Shape
<1>8. QED BY <1>6, <1>7 DEF Answered, Shape, ConnOK

LEMMA AfterOK == ASSUME Shape, NEW t \in Tasks, task[t] # Idle PROVE After(t) \in Asks \cup {Idle}
BY AskingTask, AgainOK DEF After

LEMMA RecordedShape == ASSUME Shape, NEW t \in Tasks, Recorded(t) PROVE Shape'
<1>1. task[t] # Idle BY DEF Recorded, Idle
<1>2. task' \in [Tasks -> Asks \cup {Idle}] BY <1>1, AfterOK DEF Recorded, Shape
<1>3. conn' = conn \/ (Connected /\ conn' \in {Success, Warn}) BY DEF Recorded
<1>4. ConnOK' BY <1>3, WarnOK, SuccessOK DEF Shape, ConnOK, WarnedSince, Connected
<1>5. QED BY <1>2, <1>4 DEF Recorded, Shape

LEMMA HoldOverShape == ASSUME Shape, NEW t \in Tasks, HoldOver(t) PROVE Shape'
<1>1. task[t] # Idle BY DEF HoldOver, Idle
<1>2. task' = [task EXCEPT ![t] = Idle] \/ task' = [task EXCEPT ![t] = [task[t] EXCEPT !.step = "change"]]
  BY DEF HoldOver
<1>3. task' \in [Tasks -> Asks \cup {Idle}]
  <2>1. [task[t] EXCEPT !.step = "change"] \in Asks BY <1>1, AskingTask, AgainOK
  <2>2. QED BY <1>2, <2>1 DEF Shape
<1>4. conn' = conn \/ (Connected /\ conn' = Warn) BY DEF HoldOver
<1>5. ConnOK' BY <1>4, WarnOK DEF Shape, ConnOK, WarnedSince, Connected
<1>6. QED BY <1>3, <1>5 DEF HoldOver, Shape

LEMMA NewCredentialShape == ASSUME Shape, NEW t \in Tasks, NewCredentialSays(t) PROVE Shape'
<1>1. task[t] # Idle BY DEF NewCredentialSays, Idle
<1>2. task' \in [Tasks -> Asks \cup {Idle}] BY <1>1, AfterOK DEF NewCredentialSays, Shape
<1>3. QED BY <1>2, TaskStepShape DEF NewCredentialSays

(* The connection is saved or removed: no member has a status any more.    *)
LEMMA ChangeShape ==
    ASSUME Shape, conn' \in {NoConn, NewConn}, row' = Cleared, UNCHANGED <<google, domain, off>>,
           NEW ts \in [Tasks -> Asks \cup {Idle}], task' = Outlived(ts)
    PROVE  Shape'
<1>1. task' \in [Tasks -> Asks \cup {Idle}] BY OutlivedOK
<1>2. ConnOK' BY NewConnOK DEF ConnOK, WarnedSince
<1>3. row' \in [Members -> RowRec] BY ClearedOK
<1>4. QED BY <1>1, <1>2, <1>3 DEF Shape

LEMMA EndedTask == ASSUME Shape, NEW t \in Tasks
    PROVE  [task EXCEPT ![t] = Idle] \in [Tasks -> Asks \cup {Idle}]
BY DEF Shape

LEMMA SaveShape == ASSUME Shape, NEW t \in Tasks, SaveConnection(t) PROVE Shape'
<1>1. CASE Inactive(task[t].member)
  BY <1>1, EndedTask, TaskStepShape DEF SaveConnection
<1>2. CASE ~Inactive(task[t].member)
  BY <1>2, EndedTask, ChangeShape DEF SaveConnection
<1>3. QED BY <1>1, <1>2

LEMMA GoingShape == ASSUME Shape, NEW t \in Tasks, Going(t) PROVE Shape'
<1>1. ASSUME DeleteConnection(t) PROVE Shape'
  <2>1. [task EXCEPT ![t] = Idle] \in [Tasks -> Asks \cup {Idle}] BY EndedTask
  <2>2. /\ conn' = NoConn /\ row' = Cleared /\ UNCHANGED <<google, domain, off>>
        /\ task' = Outlived([task EXCEPT ![t] = Idle])
    BY <1>1 DEF DeleteConnection, Removal
  <2>3. QED BY <2>1, <2>2, ChangeShape
<1>2. QED BY <1>1, AnswerShape, AnsweredShape, RecordedShape, NewCredentialShape, HoldOverShape,
             SaveShape DEF Going

LEMMA WorldShape == ASSUME Shape, World PROVE Shape'
<1>1. ASSUME DomainTurns PROVE Shape' BY <1>1 DEF DomainTurns, Shape, ConnOK
<1>2. ASSUME NEW m \in Members, Suspend(m) PROVE Shape' BY <1>2 DEF Suspend, Shape, ConnOK
<1>3. ASSUME NEW m \in Members, Restore(m) PROVE Shape'
  BY <1>3, Bounds DEF Restore, Shape, ConnOK
<1>4. ASSUME NEW m \in Members, ClaimEnds(m) PROVE Shape'
  <2>1. row' \in [Members -> RowRec]
    <3>1. [row[m] EXCEPT !.claimed = StillClaimed] \in RowRec
      BY DEF Shape, RowRec, StillClaimed
    <3>2. QED BY <1>4, <3>1 DEF ClaimEnds, Shape
  <2>2. task' \in [Tasks -> Asks \cup {Idle}]
    BY <1>4, AskingTask, AgainOK DEF ClaimEnds, Shape
  <2>3. QED BY <1>4, <2>1, <2>2 DEF ClaimEnds, Shape, ConnOK
<1>5. QED BY <1>1, <1>2, <1>3, <1>4 DEF World

LEMMA HourShape == ASSUME Shape, Hour PROVE Shape'
<1>1. task' \in [Tasks -> Asks \cup {Idle}]
  BY AskingTask, AgainOK DEF Hour, Shape
<1>2. ConnOK'
  <2>1. conn' = AgedConn BY DEF Hour, AgedConn
  <2>2. ConnOK BY DEF Shape
  <2>3. QED BY <2>1, <2>2, AgedConnOK DEF ConnOK, WarnedSince
<1>3. row' \in [Members -> RowRec]
  <2>1. ASSUME NEW m \in Members
        PROVE  [row[m] EXCEPT !.checked = Older(@, StaleHours), !.claimed = @ /\ StillClaimed] \in RowRec
    <3>1. row[m] \in RowRec BY DEF Shape
    <3>2. Older(row[m].checked, StaleHours) \in 0..StaleHours \cup {Never}
      BY <3>1, Bounds, OlderType DEF RowRec
    <3>3. (row[m].claimed /\ StillClaimed) \in BOOLEAN BY DEF StillClaimed
    <3>4. QED BY <3>1, <3>2, <3>3 DEF RowRec
  <2>2. QED BY <2>1 DEF Hour
<1>4. off' \in [Members -> 0..Horizon]
  <2>1. ASSUME NEW m \in Members
        PROVE  (IF google[m] = "off" THEN Older(off[m], Horizon) ELSE 0) \in 0..Horizon
    BY Bounds DEF Shape, Older
  <2>2. QED BY <2>1 DEF Hour
<1>5. QED BY <1>1, <1>2, <1>3, <1>4 DEF Hour, Shape

LEMMA InitShape == Init => Shape
BY NewConnOK, ClearedOK, Bounds DEF Init, Shape, ConnOK

LEMMA NextShape == Shape /\ [Next]_vars => Shape'
<1> SUFFICES ASSUME Shape, [Next]_vars PROVE Shape'
  OBVIOUS
<1>1. CASE UNCHANGED vars BY <1>1 DEF vars, Shape, ConnOK
<1>2. ASSUME NEW t \in Tasks, TaskDies(t) PROVE Shape'
  BY <1>2, EndedTask, TaskStepShape DEF TaskDies
<1>3. CASE OperatorDeletes
  <2>1. task \in [Tasks -> Asks \cup {Idle}] BY DEF Shape
  <2>2. QED BY <1>3, <2>1, ChangeShape DEF OperatorDeletes, Removal
<1>4. QED
  BY <1>1, <1>2, <1>3, GoingShape, StartingShape, WorldShape, HourShape DEF Next

(* Every reachable state is well typed, and a run of failures has a        *)
(* warning that is no older than its last success allows.                  *)
THEOREM TypeCorrect == Spec => []TypeOK
<1>1. Spec => []Shape BY InitShape, NextShape, PTL DEF Spec
<1>2. QED BY <1>1, ShapeImpliesType, PTL

---------------------------------------------------------------------------
(* A connection ends only together with every member's status.             *)
LEMMA ConnectionEnds ==
    ASSUME Shape, [Next]_vars, Connected, ~Connected' PROVE row' = Cleared
<1>0. conn \in ConnRec BY DEF Shape, ConnOK, Connected
<1>1. NoConn \notin ConnRec BY Bounds DEF NoConn, ConnRec
<1>2. Warn # NoConn /\ Success # NoConn /\ AgedConn # NoConn
  BY <1>0, <1>1, WarnOK, SuccessOK, AgedConnOK DEF Shape
<1>3. conn' = NoConn BY DEF Connected
<1>4. ASSUME NEW t \in Tasks, Going(t) PROVE row' = Cleared
  BY <1>2, <1>3, <1>4
  DEF Going, Answer, Answered, Recorded, NewCredentialSays, HoldOver, SaveConnection,
      DeleteConnection, Removal, Connected
<1>5. ASSUME NEW t \in Tasks, NEW m \in Members, Starting(t, m) PROVE FALSE
  BY <1>3, <1>5 DEF Starting, Claim, ManagerAsks, Connected
<1>6. ~World BY <1>3 DEF World, DomainTurns, Suspend, Restore, ClaimEnds, Connected
<1>7. ~Hour
  <2>1. Hour => conn' = AgedConn BY DEF Hour, AgedConn
  <2>2. QED BY <2>1, <1>2, <1>3
<1>8. ASSUME NEW t \in Tasks, TaskDies(t) PROVE FALSE BY <1>3, <1>8 DEF TaskDies, Connected
<1>9. QED BY <1>3, <1>4, <1>5, <1>6, <1>7, <1>8 DEF Next, OperatorDeletes, Removal, vars, Connected

(* Once the directory has refused someone, only another answer of the      *)
(* directory or a change of the connection lets them in (OB-C9).           *)
THEOREM RefusedStay == Spec => RefusalHolds
<1>1. ASSUME Shape, [Next]_vars
      PROVE  \A m \in Members :
               Refused(m) /\ row[m].status = "off" /\ row'[m].status = "off" => Refused(m)'
  <2>1. ASSUME NEW m \in Members, Refused(m), row'[m].status = "off" PROVE Refused(m)'
    <3>1. Connected BY <2>1 DEF Refused, Inactive, Unconfirmed
    <3>2. row' # Cleared BY <2>1 DEF Cleared, NoRow
    <3>3. Connected' BY <1>1, <3>1, <3>2, ConnectionEnds
    <3>4. QED BY <2>1, <3>3 DEF Refused, Inactive
  <2>2. QED BY <2>1
<1>2. QED
  BY <1>1, InitShape, NextShape, PTL DEF Spec, RefusalHolds

---------------------------------------------------------------------------
(* The hold lets a manager go ahead only in its own step, which looks at   *)
(* the connection's dates.                                                 *)
LEMMA OnlyHoldOver ==
    ASSUME Shape, [Next]_vars, NEW t \in Tasks,
           task[t].step = "holding", task'[t].step = "change"
    PROVE  HoldOver(t)
<1>0. task \in [Tasks -> Asks \cup {Idle}] /\ task[t] # Idle /\ task[t] \in Asks
  BY DEF Shape, Idle
<1>1. ASSUME NEW u \in Tasks, Going(u) PROVE HoldOver(t)
  <2>1. CASE u = t
    BY <1>1, <2>1
    DEF Going, Answer, Answered, Recorded, NewCredentialSays, SaveConnection, DeleteConnection
  <2>2. CASE u # t
    <3>1. CASE task'[t] = task[t] BY <3>1
    <3>2. CASE task'[t] = [task[t] EXCEPT !.old = TRUE] BY <1>0, <3>2 DEF Asks
    <3>3. task'[t] = task[t] \/ task'[t] = [task[t] EXCEPT !.old = TRUE]
      BY <1>0, <1>1, <2>2
      DEF Going, Answer, Answered, Recorded, NewCredentialSays, HoldOver, SaveConnection,
          DeleteConnection, Outlived
    <3>4. QED BY <3>1, <3>2, <3>3
  <2>3. QED BY <2>1, <2>2
<1>2. ASSUME NEW u \in Tasks, NEW m \in Members, Starting(u, m) PROVE FALSE
  <2>1. u # t BY <1>0, <1>2 DEF Starting, Claim, ManagerAsks
  <2>2. QED BY <1>0, <1>2, <2>1 DEF Starting, Claim, ManagerAsks
<1>3. ~World BY <1>0 DEF World, DomainTurns, Suspend, Restore, ClaimEnds, Asks
<1>4. ~Hour
  <2>1. ASSUME Hour PROVE task'[t] = [task[t] EXCEPT !.age = "late"] BY <1>0, <2>1 DEF Hour
  <2>2. [task[t] EXCEPT !.age = "late"].step = task[t].step BY <1>0 DEF Asks
  <2>3. QED BY <2>1, <2>2
<1>5. ASSUME NEW u \in Tasks, TaskDies(u) PROVE FALSE
  <2>1. CASE u = t BY <1>0, <1>5, <2>1 DEF TaskDies, Idle
  <2>2. CASE u # t BY <1>0, <1>5, <2>2 DEF TaskDies
  <2>3. QED BY <2>1, <2>2
<1>6. ~OperatorDeletes BY <1>0 DEF OperatorDeletes, Outlived, Asks
<1>7. QED BY <1>1, <1>2, <1>3, <1>4, <1>5, <1>6 DEF Next, vars

(* A manager Google does not confirm changes the connection only when the  *)
(* others were warned HoldHours ago, and nothing has succeeded since.      *)
THEOREM OthersWereWarned == Spec => OthersHadTheirTime
<1>1. ASSUME Shape, [Next]_vars
      PROVE  \A t \in Tasks :
               task[t].step = "holding" /\ task'[t].step = "change" /\ Connected
                 => conn.warned \in HoldHours..StaleHours /\ conn.success >= HoldHours
  <2>1. ASSUME NEW t \in Tasks, task[t].step = "holding", task'[t].step = "change", Connected
        PROVE  conn.warned \in HoldHours..StaleHours /\ conn.success >= HoldHours
    <3>1. HoldOver(t) BY <1>1, <2>1, OnlyHoldOver
    <3>2. conn \in ConnRec /\ WarnedSince(conn)
      BY <1>1, <2>1 DEF Shape, ConnOK, Connected
    <3>3. task \in [Tasks -> Asks \cup {Idle}] BY <1>1 DEF Shape
    <3>4. task' # [task EXCEPT ![t] = Idle] BY <2>1, <3>3 DEF Idle
    <3>5. conn.run /\ ~(conn.warned < HoldHours)
      BY <2>1, <3>1, <3>4 DEF HoldOver, WarnedThisRun
    <3>6. QED BY <3>2, <3>5, Bounds DEF ConnRec, WarnedSince
  <2>2. QED BY <2>1
<1>2. QED
  BY <1>1, InitShape, NextShape, PTL DEF Spec, OthersHadTheirTime

---------------------------------------------------------------------------
(* One question at a time.  A claim that is live covers its member: until  *)
(* the claim ends nobody finds the check due, and when its answer is       *)
(* recorded the hour begins.                                               *)
Fresh(ts, t) ==
    /\ ts[t] # Idle /\ ts[t].step = "asking" /\ ts[t].for = "check"
    /\ ts[t].age = "fresh" /\ ~ts[t].old

Covered(r, m) == r[m].claimed \/ r[m].checked = 0

Exclusive ==
    /\ \A t \in Tasks : Fresh(task, t) => Covered(row, task[t].member)
    /\ \A t, u \in Tasks :
        Fresh(task, t) /\ Fresh(task, u) /\ task[t].member = task[u].member => t = u

(* A step that asks nothing new and keeps the covered covered. *)
LEMMA KeepExclusive ==
    ASSUME Exclusive,
           \A t \in Tasks : Fresh(task', t) =>
               /\ Fresh(task, t) /\ task'[t].member = task[t].member
               /\ Covered(row, task[t].member) => Covered(row', task[t].member)
    PROVE  Exclusive'
BY DEF Exclusive

(* One request goes on, and is no longer asking. *)
LEMMA OneGoesOn ==
    ASSUME Shape, NEW t \in Tasks, NEW x, task' = [task EXCEPT ![t] = x], ~Fresh(task', t)
    PROVE  \A u \in Tasks : Fresh(task', u) => Fresh(task, u) /\ task'[u] = task[u]
<1>1. \A u \in Tasks : u # t => task'[u] = task[u] BY DEF Shape
<1>2. QED BY <1>1 DEF Fresh

LEMMA NothingFreshOutlives ==
    ASSUME Shape, NEW ts \in [Tasks -> Asks \cup {Idle}], task' = Outlived(ts)
    PROVE  \A t \in Tasks : ~Fresh(task', t)
<1>1. ASSUME NEW t \in Tasks, ts[t] # Idle PROVE task'[t].old
  <2>1. task'[t] = [ts[t] EXCEPT !.old = TRUE] BY <1>1 DEF Outlived
  <2>2. QED BY <1>1, <2>1 DEF Asks
<1>2. ASSUME NEW t \in Tasks, ts[t] = Idle PROVE task'[t] = Idle BY <1>2 DEF Outlived
<1>3. QED BY <1>1, <1>2 DEF Fresh

LEMMA GoingExclusive == ASSUME Shape, Exclusive, NEW t \in Tasks, Going(t) PROVE Exclusive'
<1>0. task \in [Tasks -> Asks \cup {Idle}] BY DEF Shape
<1>1. ASSUME Answer(t) PROVE Exclusive'
  <2>1. task[t] \in Asks BY <1>0, <1>1 DEF Answer, Idle
  <2>2. PICK a : task' = [task EXCEPT ![t] = [task[t] EXCEPT !.step = "answered", !.answer = a]]
    BY <1>1 DEF Answer
  <2>3. [task[t] EXCEPT !.step = "answered", !.answer = a].step = "answered" BY <2>1 DEF Asks
  <2>4. ~Fresh(task', t) BY <1>0, <2>2, <2>3 DEF Fresh
  <2>5. \A u \in Tasks : Fresh(task', u) => Fresh(task, u) /\ task'[u] = task[u]
    BY <2>2, <2>4, OneGoesOn
  <2>6. row' = row BY <1>1 DEF Answer
  <2>7. QED BY <2>5, <2>6, KeepExclusive
<1>2. ASSUME Answered(t) PROVE Exclusive'
  <2>1. task[t] \in Asks BY <1>0, <1>2 DEF Answered, Idle
  <2> DEFINE x == [task[t] EXCEPT !.step = "recorded"]
             m == task[t].member
  <2>2. x.step = "recorded" BY <2>1 DEF Asks
  <2>3. task' = [task EXCEPT ![t] = x] BY <1>2 DEF Answered
  <2>4. ~Fresh(task', t) BY <1>0, <2>2, <2>3 DEF Fresh
  <2>5. \A u \in Tasks : Fresh(task', u) => Fresh(task, u) /\ task'[u] = task[u]
    BY <2>3, <2>4, OneGoesOn
  <2>6. m \in Members /\ row \in [Members -> RowRec] BY <2>1 DEF Asks, Shape
  <2>7. Covered(row', m)
    <3>1. Says(t) => row'[m].checked = 0 BY <1>2, <2>6 DEF Answered
    <3>2. ~Says(t) => row'[m] = [row[m] EXCEPT !.claimed = TRUE] BY <1>2, <2>6 DEF Answered
    <3>3. [row[m] EXCEPT !.claimed = TRUE].claimed BY <2>6 DEF RowRec
    <3>4. QED BY <3>1, <3>2, <3>3 DEF Covered
  <2>8. \A n \in Members : n # m => row'[n] = row[n] BY <1>2, <2>6 DEF Answered
  <2>9. \A u \in Tasks : Fresh(task, u) => task[u].member \in Members
    BY <1>0 DEF Fresh, Asks
  <2>10. QED BY <2>5, <2>7, <2>8, <2>9, KeepExclusive DEF Covered
<1>3. ASSUME Recorded(t) \/ NewCredentialSays(t) PROVE Exclusive'
  <2>1. task[t] # Idle /\ task[t] \in Asks
    BY <1>0, <1>3 DEF Recorded, NewCredentialSays, Idle
  <2>2. task' = [task EXCEPT ![t] = After(t)] /\ row' = row
    BY <1>3 DEF Recorded, NewCredentialSays
  <2>3. After(t) # Idle => After(t).step \in {"change", "holding"}
    BY <2>1 DEF After, Asks
  <2>4. ~Fresh(task', t) BY <1>0, <2>2, <2>3 DEF Fresh
  <2>5. \A u \in Tasks : Fresh(task', u) => Fresh(task, u) /\ task'[u] = task[u]
    BY <2>2, <2>4, OneGoesOn
  <2>6. QED BY <2>2, <2>5, KeepExclusive
<1>4. ASSUME HoldOver(t) PROVE Exclusive'
  <2>1. task[t] \in Asks BY <1>0, <1>4 DEF HoldOver, Idle
  <2>2. PICK x \in {Idle, [task[t] EXCEPT !.step = "change"]} : task' = [task EXCEPT ![t] = x]
    BY <1>4 DEF HoldOver
  <2>3. x = Idle \/ x.step = "change" BY <2>1, <2>2 DEF Asks
  <2>4. ~Fresh(task', t) BY <1>0, <2>2, <2>3 DEF Fresh
  <2>5. \A u \in Tasks : Fresh(task', u) => Fresh(task, u) /\ task'[u] = task[u]
    BY <2>2, <2>4, OneGoesOn
  <2>6. row' = row BY <1>4 DEF HoldOver
  <2>7. QED BY <2>5, <2>6, KeepExclusive
<1>5. ASSUME SaveConnection(t) \/ DeleteConnection(t) PROVE Exclusive'
  <2> DEFINE ended == [task EXCEPT ![t] = Idle]
  <2>1. ended \in [Tasks -> Asks \cup {Idle}] BY EndedTask
  <2>2. (task' = ended /\ row' = row) \/ task' = Outlived(ended)
    BY <1>5 DEF SaveConnection, DeleteConnection
  <2>3. CASE task' = Outlived(ended)
    <3>1. \A u \in Tasks : ~Fresh(task', u) BY <2>1, <2>3, NothingFreshOutlives
    <3>2. QED BY <3>1, KeepExclusive
  <2>4. CASE task' = ended /\ row' = row
    <3>1. ~Fresh(task', t) BY <1>0, <2>4 DEF Fresh
    <3>2. \A u \in Tasks : Fresh(task', u) => Fresh(task, u) /\ task'[u] = task[u]
      BY <2>4, <3>1, OneGoesOn
    <3>3. QED BY <2>4, <3>2, KeepExclusive
  <2>5. QED BY <2>2, <2>3, <2>4
<1>6. QED BY <1>1, <1>2, <1>3, <1>4, <1>5 DEF Going

(* Only a claim asks anew, of a member nobody has covered. *)
LEMMA StartingExclusive ==
    ASSUME Shape, Exclusive, NEW t \in Tasks, NEW m \in Members, Starting(t, m) PROVE Exclusive'
<1>0. task \in [Tasks -> Asks \cup {Idle}] /\ row \in [Members -> RowRec] BY DEF Shape
<1>1. ASSUME NEW for, ManagerAsks(t, m, for), for \in {"disconnect", "connect"} PROVE Exclusive'
  <2>1. task' = [task EXCEPT ![t] = Ask(m, for)] BY <1>1 DEF ManagerAsks
  <2>2. ~Fresh(task', t) BY <1>0, <1>1, <2>1 DEF Fresh, Ask
  <2>3. \A u \in Tasks : Fresh(task', u) => Fresh(task, u) /\ task'[u] = task[u]
    BY <2>1, <2>2, OneGoesOn
  <2>4. \A n \in Members : Covered(row, n) => Covered(row', n)
    <3>1. row' = row \/ row' = [row EXCEPT ![m].claimed = TRUE] BY <1>1 DEF ManagerAsks
    <3>2. [row[m] EXCEPT !.claimed = TRUE].claimed BY <1>0 DEF RowRec
    <3>3. QED BY <1>0, <3>1, <3>2 DEF Covered
  <2>5. \A u \in Tasks : Fresh(task, u) => task[u].member \in Members
    BY <1>0 DEF Fresh, Asks
  <2>6. QED BY <2>3, <2>4, <2>5, KeepExclusive
<1>2. ASSUME Claim(t, m) PROVE Exclusive'
  <2>1. task' = [task EXCEPT ![t] = Ask(m, "check")] BY <1>2 DEF Claim
  <2>2. ~Covered(row, m) BY <1>2, Bounds DEF Claim, Due, ClaimFree, Covered, Never
  <2>3. \A u \in Tasks : Fresh(task, u) => task[u].member # m BY <2>2 DEF Exclusive
  <2>4. \A u \in Tasks : u # t => task'[u] = task[u] BY <1>0, <2>1
  <2>5. task'[t].member = m BY <1>0, <2>1 DEF Ask
  <2>6. row' = [row EXCEPT ![m] = [row[m] EXCEPT !.claimed = TRUE]] BY <1>2 DEF Claim
  <2>7. Covered(row', m)
    <3>1. [row[m] EXCEPT !.claimed = TRUE].claimed BY <1>0 DEF RowRec
    <3>2. QED BY <1>0, <2>6, <3>1 DEF Covered
  <2>8. \A n \in Members : n # m => row'[n] = row[n] BY <1>0, <2>6
  <2>9. \A u \in Tasks : Fresh(task, u) => task[u].member \in Members
    BY <1>0 DEF Fresh, Asks
  <2>10. \A u \in Tasks : u # t /\ Fresh(task', u) => Fresh(task, u) BY <2>4 DEF Fresh
  <2>11. \A u \in Tasks : Fresh(task', u) => Covered(row', task'[u].member)
    BY <2>3, <2>4, <2>5, <2>7, <2>8, <2>9, <2>10 DEF Exclusive, Covered
  <2>12. \A u, v \in Tasks :
           Fresh(task', u) /\ Fresh(task', v) /\ task'[u].member = task'[v].member => u = v
    BY <2>3, <2>4, <2>5, <2>10 DEF Exclusive
  <2>13. QED BY <2>11, <2>12 DEF Exclusive
<1>3. QED BY <1>1, <1>2 DEF Starting

LEMMA ClaimEndsExclusive ==
    ASSUME Shape, Exclusive, NEW m \in Members, ClaimEnds(m) PROVE Exclusive'
<1>0. task \in [Tasks -> Asks \cup {Idle}] /\ row \in [Members -> RowRec] BY DEF Shape
<1>1. ASSUME NEW t \in Tasks, Fresh(task', t)
      PROVE  Fresh(task, t) /\ task'[t] = task[t] /\ task[t].member # m
  <2>1. CASE task[t] # Idle /\ task[t].member = m /\ task[t].age = "fresh"
    <3>1. task'[t] = [task[t] EXCEPT !.age = "slow"] BY <2>1 DEF ClaimEnds
    <3>2. [task[t] EXCEPT !.age = "slow"].age = "slow" BY <1>0, <2>1 DEF Asks
    <3>3. QED BY <1>1, <3>1, <3>2 DEF Fresh
  <2>2. CASE ~(task[t] # Idle /\ task[t].member = m /\ task[t].age = "fresh")
    <3>1. task'[t] = task[t] BY <2>2 DEF ClaimEnds
    <3>2. QED BY <1>1, <2>2, <3>1 DEF Fresh
  <2>3. QED BY <2>1, <2>2
<1>2. \A n \in Members : n # m => row'[n] = row[n] BY <1>0 DEF ClaimEnds
<1>3. \A u \in Tasks : Fresh(task, u) => task[u].member \in Members BY <1>0 DEF Fresh, Asks
<1>4. QED BY <1>1, <1>2, <1>3, KeepExclusive DEF Covered

LEMMA NextExclusive == Shape /\ Exclusive /\ [Next]_vars => Exclusive'
<1> SUFFICES ASSUME Shape, Exclusive, [Next]_vars PROVE Exclusive'
  OBVIOUS
<1>0. task \in [Tasks -> Asks \cup {Idle}] BY DEF Shape
<1>1. CASE UNCHANGED vars BY <1>1 DEF vars, Exclusive
<1>2. ASSUME NEW t \in Tasks, TaskDies(t) PROVE Exclusive'
  <2>1. task' = [task EXCEPT ![t] = Idle] /\ row' = row BY <1>2 DEF TaskDies
  <2>2. ~Fresh(task', t) BY <1>0, <2>1 DEF Fresh
  <2>3. QED BY <2>1, <2>2, OneGoesOn, KeepExclusive
<1>3. CASE OperatorDeletes
  <2>1. \A t \in Tasks : ~Fresh(task', t)
    BY <1>0, <1>3, NothingFreshOutlives DEF OperatorDeletes
  <2>2. QED BY <2>1, KeepExclusive
<1>4. CASE Hour
  <2>1. ASSUME NEW t \in Tasks PROVE ~Fresh(task', t)
    <3>1. CASE task[t] = Idle BY <1>4, <3>1 DEF Hour, Fresh
    <3>2. CASE task[t] # Idle
      <4>1. task'[t] = [task[t] EXCEPT !.age = "late"] BY <1>4, <3>2 DEF Hour
      <4>2. [task[t] EXCEPT !.age = "late"].age = "late" BY <1>0, <3>2 DEF Asks
      <4>3. QED BY <4>1, <4>2 DEF Fresh
    <3>3. QED BY <3>1, <3>2
  <2>2. QED BY <2>1, KeepExclusive
<1>5. CASE World
  <2>1. ASSUME UNCHANGED <<row, task>> PROVE Exclusive' BY <2>1 DEF Exclusive
  <2>2. QED BY <1>5, <2>1, ClaimEndsExclusive DEF World, DomainTurns, Suspend, Restore
<1>6. QED BY <1>1, <1>2, <1>3, <1>4, <1>5, GoingExclusive, StartingExclusive DEF Next

LEMMA InitExclusive == Init => Exclusive
BY DEF Init, Exclusive, Fresh

LEMMA AtMostOne == ASSUME Exclusive PROVE OneAskAtATime
<1> DEFINE S(m) == {t \in Tasks : /\ task[t] # Idle /\ task[t].step = "asking"
                                 /\ task[t].member = m /\ task[t].for = "check"
                                 /\ task[t].age = "fresh" /\ ~task[t].old}
<1>1. ASSUME NEW m \in Members PROVE Cardinality(S(m)) <= 1
  <2>1. \A t, u \in S(m) : t = u BY DEF Exclusive, Fresh
  <2>2. CASE S(m) = {} BY <2>2, FS_EmptySet
  <2>3. CASE S(m) # {}
    <3>1. PICK t \in S(m) : TRUE BY <2>3
    <3>2. S(m) = {t} BY <2>1, <3>1
    <3>3. QED BY <3>2, FS_Singleton
  <2>4. QED BY <2>2, <2>3
<1>2. QED BY <1>1 DEF OneAskAtATime

(* While a claim is live nobody else asks Google about the member under    *)
(* the same connection, however many requests come (OB-C5).                *)
THEOREM OneAsk == Spec => []OneAskAtATime
<1>1. Spec => []Shape BY InitShape, NextShape, PTL DEF Spec
<1>2. Spec => []Exclusive BY <1>1, InitExclusive, NextExclusive, PTL DEF Spec
<1>3. QED BY <1>2, AtMostOne, PTL

---------------------------------------------------------------------------
(* Out within the day.  An answer "active" was true when it was given, and *)
(* is recorded within the hour it or the next began in: so whoever is on   *)
(* record as active, checked so many hours ago, has been off for at most   *)
(* one hour more.                                                          *)
InTime(b, hours) ==
    b # Idle /\ b.step = "answered" /\ b.answer = "active" =>
        hours[b.member] <= IF b.age = "late" THEN 1 ELSE 0

Dated(r, hours) ==
    /\ r.status = "none" => r.checked = Never
    /\ r.status = "active" => r.checked >= StaleHours \/ hours <= r.checked + 1

TrueLately ==
    /\ \A m \in Members : google[m] = "active" => off[m] = 0
    /\ \A t \in Tasks : InTime(task[t], off)
    /\ \A m \in Members : Dated(row[m], off[m])

(* A step at which no time passes. *)
LEMMA KeepsLately ==
    ASSUME TrueLately, google' = google, off' = off,
           \A t \in Tasks : InTime(task[t], off) => InTime(task'[t], off),
           \A m \in Members : Dated(row[m], off[m]) => Dated(row'[m], off[m])
    PROVE  TrueLately'
<1>1. (\A m \in Members : google[m] = "active" => off[m] = 0)' BY DEF TrueLately
<1>2. (\A t \in Tasks : InTime(task[t], off))' BY DEF TrueLately, InTime
<1>3. (\A m \in Members : Dated(row[m], off[m]))' BY DEF TrueLately, Dated
<1>4. QED BY <1>1, <1>2, <1>3 DEF TrueLately

LEMMA OneTaskInTime ==
    ASSUME Shape, NEW t \in Tasks, NEW b, task' = [task EXCEPT ![t] = b], InTime(b, off)
    PROVE  \A u \in Tasks : InTime(task[u], off) => InTime(task'[u], off)
BY DEF Shape

LEMMA ClearedLately == \A m \in Members : Dated(Cleared[m], off[m])
BY DEF Cleared, NoRow, Dated

LEMMA OutlivedLately ==
    ASSUME NEW ts \in [Tasks -> Asks \cup {Idle}], \A t \in Tasks : InTime(ts[t], off)
    PROVE  \A t \in Tasks : InTime(Outlived(ts)[t], off)
<1> SUFFICES ASSUME NEW t \in Tasks PROVE InTime(Outlived(ts)[t], off)
  OBVIOUS
<1>1. CASE ts[t] = Idle BY <1>1 DEF Outlived, InTime
<1>2. CASE ts[t] # Idle
  <2>1. Outlived(ts)[t] = [ts[t] EXCEPT !.old = TRUE] BY <1>2 DEF Outlived
  <2>2. QED BY <1>2, <2>1 DEF InTime, Asks
<1>3. QED BY <1>1, <1>2

LEMMA ClaimedDated == ASSUME Shape, NEW m \in Members, NEW claimed
    PROVE  Dated(row[m], off[m]) => Dated([row[m] EXCEPT !.claimed = claimed], off[m])
BY DEF Shape, RowRec, Dated

LEMMA StartingLately ==
    ASSUME Shape, TrueLately, NEW t \in Tasks, NEW m \in Members, Starting(t, m) PROVE TrueLately'
<1>1. PICK for : task' = [task EXCEPT ![t] = Ask(m, for)] BY DEF Starting, Claim, ManagerAsks
<1>2. InTime(Ask(m, for), off) BY DEF InTime, Ask
<1>3. row' = row \/ row' = [row EXCEPT ![m] = [row[m] EXCEPT !.claimed = TRUE]]
  BY DEF Starting, Claim, ManagerAsks
<1>4. \A n \in Members : Dated(row[n], off[n]) => Dated(row'[n], off[n])
  BY <1>3, ClaimedDated DEF Shape
<1>5. google' = google /\ off' = off BY DEF Starting, Claim, ManagerAsks
<1>6. QED BY <1>1, <1>2, <1>4, <1>5, OneTaskInTime, KeepsLately

LEMMA GoingLately ==
    ASSUME Shape, TrueLately, NEW t \in Tasks, Going(t) PROVE TrueLately'
<1>0. google' = google /\ off' = off
  BY DEF Going, Answer, Answered, Recorded, NewCredentialSays, HoldOver, SaveConnection,
         DeleteConnection, Removal
<1>1. task[t] # Idle
  BY DEF Going, Answer, Answered, Recorded, NewCredentialSays, HoldOver, SaveConnection,
         DeleteConnection, Idle
<1>2. task[t] \in Asks /\ task[t].member \in Members BY <1>1, AskingTask
<1>3. CASE Answer(t)
  <2>1. PICK a \in {google[task[t].member], "unreachable", "error"} :
          task' = [task EXCEPT ![t] = [task[t] EXCEPT !.step = "answered", !.answer = a]]
    BY <1>3 DEF Answer
  <2> DEFINE b == [task[t] EXCEPT !.step = "answered", !.answer = a]
  <2>2. b.member = task[t].member /\ b.answer = a BY <1>2 DEF Asks
  <2>3. a = "active" => off[task[t].member] = 0 BY <1>2 DEF TrueLately
  <2>4. InTime(b, off) BY <2>2, <2>3 DEF InTime
  <2>5. row' = row BY <1>3 DEF Answer
  <2> HIDE DEF b
  <2>6. task' = [task EXCEPT ![t] = b] BY <2>1 DEF b
  <2>7. QED BY <1>0, <2>4, <2>5, <2>6, OneTaskInTime, KeepsLately
<1>4. CASE Answered(t)
  <2> DEFINE m == task[t].member
             b == [task[t] EXCEPT !.step = "recorded"]
             r == IF Says(t) THEN [status |-> task[t].answer, checked |-> 0, claimed |-> FALSE]
                  ELSE [row[m] EXCEPT !.claimed = TRUE]
  <2>1. task' = [task EXCEPT ![t] = b] /\ row' = [row EXCEPT ![m] = r] BY <1>4 DEF Answered
  <2>2. InTime(b, off) BY <1>2 DEF InTime, Asks
  <2>3. off[m] \in 0..Horizon BY <1>2 DEF Shape
  <2>4. task[t].answer = "active" => off[m] <= 1
    <3>1. InTime(task[t], off) BY DEF TrueLately
    <3>2. QED BY <1>1, <1>4, <2>3, <3>1, Bounds DEF InTime, Answered
  <2>5. Dated(row[m], off[m]) => Dated(r, off[m])
    <3>1. CASE Says(t) BY <2>4, <3>1 DEF Says, Dated
    <3>2. CASE ~Says(t) BY <1>2, <3>2, ClaimedDated
    <3>3. QED BY <3>1, <3>2
  <2> HIDE DEF b, r, m
  <2>6. \A n \in Members : Dated(row[n], off[n]) => Dated(row'[n], off[n])
    BY <2>1, <2>5 DEF Shape
  <2>7. QED BY <1>0, <2>1, <2>2, <2>6, OneTaskInTime, KeepsLately
<1>5. CASE Recorded(t) \/ NewCredentialSays(t) \/ HoldOver(t)
  <2>1. PICK b \in {Idle, [task[t] EXCEPT !.step = "change"], [task[t] EXCEPT !.step = "holding"]} :
          task' = [task EXCEPT ![t] = b]
    BY <1>5 DEF Recorded, NewCredentialSays, HoldOver, After
  <2>2. InTime(b, off) BY <1>2, <2>1 DEF InTime, Asks
  <2>3. row' = row BY <1>5 DEF Recorded, NewCredentialSays, HoldOver
  <2>4. QED BY <1>0, <2>1, <2>2, <2>3, OneTaskInTime, KeepsLately
<1>6. CASE SaveConnection(t) \/ DeleteConnection(t)
  <2> DEFINE ended == [task EXCEPT ![t] = Idle]
  <2>1. ended \in [Tasks -> Asks \cup {Idle}] BY EndedTask
  <2>2. \A u \in Tasks : InTime(ended[u], off) BY DEF TrueLately, InTime, Shape
  <2>3. task' = ended \/ task' = Outlived(ended) BY <1>6 DEF SaveConnection, DeleteConnection
  <2>4. row' = row \/ row' = Cleared BY <1>6 DEF SaveConnection, DeleteConnection, Removal
  <2> HIDE DEF ended
  <2>5. \A u \in Tasks : InTime(task'[u], off) BY <2>1, <2>2, <2>3, OutlivedLately
  <2>6. \A n \in Members : Dated(row[n], off[n]) => Dated(row'[n], off[n])
    BY <2>4, ClearedLately
  <2>7. QED BY <1>0, <2>5, <2>6, KeepsLately
<1>7. QED BY <1>3, <1>4, <1>5, <1>6 DEF Going

LEMMA WorldLately == ASSUME Shape, TrueLately, World PROVE TrueLately'
<1>1. CASE DomainTurns
  BY <1>1, KeepsLately DEF DomainTurns
<1>2. ASSUME NEW m \in Members, Suspend(m) PROVE TrueLately'
  <2>1. \A n \in Members : google'[n] = "active" => google[n] = "active"
    BY <1>2 DEF Suspend, Shape
  <2>2. (\A n \in Members : google[n] = "active" => off[n] = 0)'
    BY <1>2, <2>1 DEF Suspend, TrueLately
  <2>3. (\A t \in Tasks : InTime(task[t], off))' BY <1>2 DEF Suspend, TrueLately, InTime
  <2>4. (\A n \in Members : Dated(row[n], off[n]))' BY <1>2 DEF Suspend, TrueLately, Dated
  <2>5. QED BY <2>2, <2>3, <2>4 DEF TrueLately
<1>3. ASSUME NEW m \in Members, Restore(m) PROVE TrueLately'
  <2>1. \A n \in Members : off'[n] = IF n = m THEN 0 ELSE off[n] BY <1>3 DEF Restore, Shape
  <2>2. (\A n \in Members : google[n] = "active" => off[n] = 0)'
    BY <1>3, <2>1 DEF Restore, Shape, TrueLately
  <2>3. ASSUME NEW t \in Tasks PROVE InTime(task'[t], off')
    <3>1. task' = task BY <1>3 DEF Restore
    <3>2. task[t] # Idle => task[t].member \in Members BY AskingTask
    <3>3. QED BY <2>1, <3>1, <3>2 DEF TrueLately, InTime
  <2>4. ASSUME NEW n \in Members PROVE Dated(row'[n], off'[n])
    <3>1. row' = row /\ Dated(row[n], off[n]) BY <1>3 DEF Restore, TrueLately
    <3>2. row[n].checked \in 0..StaleHours \cup {Never} BY DEF Shape, RowRec
    <3>3. QED BY <2>1, <3>1, <3>2, Bounds DEF Dated
  <2>5. QED BY <2>2, <2>3, <2>4 DEF TrueLately, InTime, Dated
<1>4. ASSUME NEW m \in Members, ClaimEnds(m) PROVE TrueLately'
  <2>1. google' = google /\ off' = off BY <1>4 DEF ClaimEnds
  <2>2. row' = [row EXCEPT ![m] = [row[m] EXCEPT !.claimed = StillClaimed]] BY <1>4 DEF ClaimEnds
  <2>3. \A n \in Members : Dated(row[n], off[n]) => Dated(row'[n], off[n])
    BY <2>2, ClaimedDated DEF Shape
  <2>4. ASSUME NEW t \in Tasks, InTime(task[t], off) PROVE InTime(task'[t], off)
    <3>1. task'[t] = task[t] \/ (/\ task[t] # Idle /\ task[t].age = "fresh"
                                 /\ task'[t] = [task[t] EXCEPT !.age = "slow"])
      BY <1>4 DEF ClaimEnds
    <3>2. CASE task'[t] = task[t] BY <2>4, <3>2
    <3>3. CASE task[t] # Idle /\ task[t].age = "fresh" /\ task'[t] = [task[t] EXCEPT !.age = "slow"]
      <4>1. task[t] \in Asks BY <3>3, AskingTask
      <4>2. QED BY <2>4, <3>3, <4>1 DEF InTime, Asks
    <3>4. QED BY <3>1, <3>2, <3>3
  <2>5. QED BY <2>1, <2>3, <2>4, KeepsLately
<1>5. QED BY <1>1, <1>2, <1>3, <1>4 DEF World

LEMMA HourLately == ASSUME Shape, TrueLately, Hour PROVE TrueLately'
<1>1. \A m \in Members : off'[m] = IF google[m] = "off" THEN Older(off[m], Horizon) ELSE 0
  BY DEF Hour
<1>2. \A m \in Members : off[m] \in 0..Horizon /\ off'[m] <= off[m] + 1
  BY <1>1, Bounds DEF Shape, Older, Never
<1>3. (\A m \in Members : google[m] = "active" => off[m] = 0)'
  BY <1>1 DEF Hour
<1>4. ASSUME NEW t \in Tasks PROVE InTime(task'[t], off')
  <2>1. CASE task[t] = Idle BY <2>1 DEF Hour, InTime
  <2>2. CASE task[t] # Idle
    <3>1. task[t] \in Asks /\ task[t].member \in Members /\ task[t].age # "late"
      BY <2>2, AskingTask DEF Hour
    <3>2. task'[t] = [task[t] EXCEPT !.age = "late"] BY <2>2 DEF Hour
    <3>3. /\ task'[t].member = task[t].member /\ task'[t].age = "late"
          /\ task'[t].step = task[t].step /\ task'[t].answer = task[t].answer
      BY <3>1, <3>2 DEF Asks
    <3>4. InTime(task[t], off) BY DEF TrueLately
    <3>5. task[t].step = "answered" /\ task[t].answer = "active" => off[task[t].member] <= 0
      BY <2>2, <3>1, <3>4 DEF InTime
    <3>6. task[t].step = "answered" /\ task[t].answer = "active" => off'[task[t].member] <= 1
      BY <1>1, <1>2, <3>1, <3>5, Bounds DEF Older, Never
    <3>7. QED BY <3>3, <3>6 DEF InTime
  <2>3. QED BY <2>1, <2>2
<1>5. ASSUME NEW m \in Members PROVE Dated(row'[m], off'[m])
  <2>1. row[m] \in RowRec /\ Dated(row[m], off[m]) BY DEF Shape, TrueLately
  <2>2. row'[m] = [row[m] EXCEPT !.checked = Older(row[m].checked, StaleHours),
                                 !.claimed = row[m].claimed /\ StillClaimed]
    BY DEF Hour
  <2>3. row'[m].status = row[m].status /\ row'[m].checked = Older(row[m].checked, StaleHours)
    BY <2>1, <2>2 DEF RowRec
  <2>4. row[m].checked \in 0..StaleHours \cup {Never} BY <2>1 DEF RowRec
  <2>5. Older(Never, StaleHours) = Never BY DEF Older
  <2>6. row[m].checked >= StaleHours => Older(row[m].checked, StaleHours) >= StaleHours
    BY <2>4, Bounds DEF Older
  <2>7. row[m].checked < StaleHours => Older(row[m].checked, StaleHours) = row[m].checked + 1
    BY <2>4, Bounds DEF Older
  <2>8. off'[m] \in Int BY <1>1, <1>2, Bounds DEF Older, Never
  <2>9. QED BY <1>2, <2>1, <2>3, <2>4, <2>5, <2>6, <2>7, <2>8, Bounds DEF Dated
<1>6. QED BY <1>3, <1>4, <1>5 DEF TrueLately, InTime, Dated

LEMMA NextLately == Shape /\ TrueLately /\ [Next]_vars => TrueLately'
<1> SUFFICES ASSUME Shape, TrueLately, [Next]_vars PROVE TrueLately'
  OBVIOUS
<1>1. CASE UNCHANGED vars BY <1>1, KeepsLately DEF vars
<1>2. ASSUME NEW t \in Tasks, TaskDies(t) PROVE TrueLately'
  <2>1. task' = [task EXCEPT ![t] = Idle] /\ UNCHANGED <<google, row, off>> BY <1>2 DEF TaskDies
  <2>2. InTime(Idle, off) BY DEF InTime
  <2>3. QED BY <2>1, <2>2, OneTaskInTime, KeepsLately
<1>3. CASE OperatorDeletes
  <2>1. task' = Outlived(task) /\ row' = Cleared /\ UNCHANGED <<google, off>>
    BY <1>3 DEF OperatorDeletes, Removal
  <2>2. \A t \in Tasks : InTime(task'[t], off) BY <2>1, OutlivedLately DEF Shape, TrueLately
  <2>3. QED BY <2>1, <2>2, ClearedLately, KeepsLately
<1>4. QED
  BY <1>1, <1>2, <1>3, GoingLately, StartingLately, WorldLately, HourLately DEF Next

(* Someone the company has switched off does not work on past the stale    *)
(* period and the hour an old answer may take, whatever fails (OB-C7).     *)
THEOREM SwitchedOffAreOut == Spec => []OutWithinTheDay
<1>1. Init => TrueLately
  BY DEF Init, TrueLately, InTime, Dated, Cleared, NoRow
<1>2. ASSUME Shape, TrueLately PROVE OutWithinTheDay
  <2> SUFFICES ASSUME NEW m \in Members, Connected, domain, off[m] > StaleHours,
                      conn.connected > StaleHours
               PROVE  Refused(m)
    BY DEF OutWithinTheDay
  <2>1. row[m] \in RowRec /\ Dated(row[m], off[m]) /\ off[m] \in 0..Horizon
    BY <1>2 DEF Shape, TrueLately
  <2>2. conn.connected \in Int BY <1>2, Bounds DEF Connected, Shape, ConnOK, ConnRec
  <2>3. CASE row[m].status = "off" BY <2>3 DEF Refused, Inactive
  <2>4. CASE row[m].status = "none"
    BY <2>1, <2>2, <2>4, Bounds DEF Refused, Unconfirmed, Dated
  <2>5. CASE row[m].status = "active"
    <3>1. row[m].checked \in 0..StaleHours \cup {Never} BY <2>1 DEF RowRec
    <3>2. row[m].checked >= StaleHours BY <2>1, <2>5, <3>1, Bounds DEF Dated
    <3>3. QED BY <2>2, <3>2, Bounds DEF Refused, Unconfirmed
  <2>6. QED BY <2>1, <2>3, <2>4, <2>5 DEF RowRec
<1>3. Spec => []Shape BY InitShape, NextShape, PTL DEF Spec
<1>4. Spec => []TrueLately BY <1>1, <1>3, NextLately, PTL DEF Spec
<1>5. QED BY <1>2, <1>3, <1>4, PTL
=============================================================================
