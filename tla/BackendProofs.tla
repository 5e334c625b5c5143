---------------------------- MODULE BackendProofs ----------------------------
(***************************************************************************)
(* Proofs about the backend's own records: the releases that are deployed  *)
(* (Deployment), the users and their sessions (Accounts).                  *)
(***************************************************************************)
EXTENDS Deployment, Accounts, TLAPS

-----------------------------------------------------------------------------
(***************************************************************************)
(* Deployment.  The invariant says what a producer relies on between its   *)
(* lock and its commit, and that the trail explains the state.             *)
(***************************************************************************)
GateStates ==
  {"activating", "health_check", "rolling_back", "succeeded", "rolled_back",
   "recovery_failed"}

\* A producer between its lock and its commit holds the lock.
LockHeld ==
  \A p \in Producers : producer[p].step \in {"locked", "inserted"} => lock = p

\* What a producer found under the lock stays so until it commits.
StillClear ==
  \A p \in Producers : producer[p].step = "inserted" => Clear

\* The recorded events of a deployment explain its state.
TrailHolds(d) ==
  /\ state[d] \in CancellableStates \cup {"absent", "failed"} =>
       "activation_started" \notin trail[d]
  /\ state[d] \in GateStates => "activation_started" \in trail[d]
  /\ state[d] \in {"health_check", "succeeded"} => "health_check_started" \in trail[d]

DeploymentInv ==
  /\ TypeOK
  /\ LockHeld
  /\ StillClear
  /\ OneJob
  /\ \A d \in Deployments : TrailHolds(d)

-----------------------------------------------------------------------------
\* An event leads from an active state to a state.
LEMMA EventTypes ==
  ASSUME NEW e \in Events
  PROVE  /\ From[e] \subseteq ActiveStates
         /\ To[e] \in States
BY DEF Events, From, To, ActiveStates, TerminalStates, CancellableStates, States

\* What an event does to the gate: the states before it are left by the gate
\* or by a failure, and only the gate enters the states behind it.
LEMMA EventGate ==
  ASSUME NEW e \in Events, NEW s \in From[e]
  PROVE  /\ To[e] \in CancellableStates \cup {"failed"} =>
              s \in CancellableStates /\ e # "activation_started"
         /\ To[e] \in GateStates => e = "activation_started" \/ s \in GateStates
         /\ To[e] = "health_check" => e = "health_check_started"
         /\ To[e] = "succeeded" => s = "health_check"
         /\ To[e] # "absent" /\ To[e] # "cancelled"
BY DEF Events, From, To, CancellableStates, GateStates

LEMMA InitHolds == Init => DeploymentInv
BY DEF Init, DeploymentInv, TypeOK, LockHeld, StillClear, OneJob, TrailHolds, Clear, Idle,
       ActiveDeployment, ActiveCommand, ActiveStates, CancellableStates, GateStates,
       States, Jobs, DeploymentAssumption

\* Steps that make nothing active keep the parts about jobs.
LEMMA NothingStarts ==
  ASSUME OneJob,
         \A d \in Deployments : ActiveDeployment(d)' => ActiveDeployment(d),
         \A c \in Commands : ActiveCommand(c)' => ActiveCommand(c)
  PROVE  /\ OneJob'
         /\ Clear => Clear'
<1>1. OneJob'
  BY Zenon DEF OneJob, ActiveDeployment, ActiveCommand
<1>2. Clear => Clear'
  BY Zenon DEF Clear
<1> QED BY <1>1, <1>2

\* An accepted event, the gate included.
LEMMA AcceptKeeps ==
  ASSUME DeploymentInv, NEW d \in Deployments, NEW e \in Events,
         state[d] \in From[e], Accept(d, e)
  PROVE  DeploymentInv'
<1> USE DEF DeploymentInv
<1>1. TypeOK'
  BY EventTypes DEF TypeOK, Accept
<1>2. ActiveDeployment(d)
  BY EventTypes DEF ActiveDeployment
<1>3. \A f \in Deployments : ActiveDeployment(f)' => ActiveDeployment(f)
  BY <1>2 DEF TypeOK, Accept, ActiveDeployment
<1>4. \A c \in Commands : ActiveCommand(c)' => ActiveCommand(c)
  BY DEF Accept, ActiveCommand
<1>5. OneJob' /\ (Clear => Clear')
  BY <1>3, <1>4, NothingStarts
<1>6. LockHeld' /\ StillClear'
  BY <1>5 DEF LockHeld, StillClear, Accept
<1>7. ASSUME NEW f \in Deployments PROVE TrailHolds(f)'
  <2>1. CASE f # d
    BY <2>1 DEF TrailHolds, TypeOK, Accept
  <2>2. CASE f = d
    <3>1. state'[d] = To[e] /\ trail'[d] = trail[d] \cup {e}
      BY DEF TypeOK, Accept
    <3> QED BY <2>2, <3>1, EventGate DEF TrailHolds, GateStates, CancellableStates
  <2> QED BY <2>1, <2>2
<1> QED BY <1>1, <1>5, <1>6, <1>7

-----------------------------------------------------------------------------
LEMMA StepHolds == DeploymentInv /\ [Next]_vars => DeploymentInv'
<1> SUFFICES ASSUME DeploymentInv, [Next]_vars PROVE DeploymentInv'
  OBVIOUS
<1> USE DEF DeploymentInv
<1>1. ASSUME NEW p \in Producers, NEW j \in Jobs, Dispatch(p, j) PROVE DeploymentInv'
  <2>1. TypeOK'
    BY <1>1 DEF TypeOK, Dispatch, tables
  <2>2. LockHeld' /\ StillClear' /\ OneJob'
    BY <1>1 DEF TypeOK, Dispatch, tables, LockHeld, StillClear, OneJob, Clear, ActiveDeployment,
                ActiveCommand
  <2>3. \A d \in Deployments : TrailHolds(d)'
    BY <1>1 DEF Dispatch, tables, TrailHolds
  <2> QED BY <2>1, <2>2, <2>3
<1>2. ASSUME NEW p \in Producers, Check(p) PROVE DeploymentInv'
  <2>1. TypeOK'
    BY <1>2 DEF TypeOK, Check, tables
  <2>2. LockHeld' /\ StillClear' /\ OneJob'
    BY <1>2 DEF TypeOK, Check, tables, LockHeld, StillClear, OneJob, Clear, ActiveDeployment,
                ActiveCommand
  <2>3. \A d \in Deployments : TrailHolds(d)'
    BY <1>2 DEF Check, tables, TrailHolds
  <2> QED BY <2>1, <2>2, <2>3
<1>3. ASSUME NEW p \in Producers, Lock(p) PROVE DeploymentInv'
  <2>1. TypeOK'
    BY <1>3 DEF TypeOK, Lock, tables
  <2>2. LockHeld'
    BY <1>3, DeploymentAssumption DEF TypeOK, Lock, LockHeld
  <2>3. StillClear' /\ OneJob'
    BY <1>3 DEF TypeOK, Lock, tables, StillClear, OneJob, Clear, ActiveDeployment, ActiveCommand
  <2>4. \A d \in Deployments : TrailHolds(d)'
    BY <1>3 DEF Lock, tables, TrailHolds
  <2> QED BY <2>1, <2>2, <2>3, <2>4
<1>4. ASSUME NEW p \in Producers, Insert(p) PROVE DeploymentInv'
  <2>1. TypeOK'
    BY <1>4 DEF TypeOK, Insert, tables
  <2>2. LockHeld' /\ StillClear' /\ OneJob'
    BY <1>4 DEF TypeOK, Insert, tables, LockHeld, StillClear, OneJob, Clear, ActiveDeployment,
                ActiveCommand
  <2>3. \A d \in Deployments : TrailHolds(d)'
    BY <1>4 DEF Insert, tables, TrailHolds
  <2> QED BY <2>1, <2>2, <2>3
<1>5. ASSUME NEW p \in Producers, Commit(p) PROVE DeploymentInv'
  <2> DEFINE j == producer[p].job
  <2>0. lock = p /\ Clear
    BY <1>5 DEF Commit, LockHeld, StillClear
  <2>1. \A q \in Producers : q # p => producer[q].step \notin {"locked", "inserted"}
    BY <2>0 DEF TypeOK, LockHeld
  <2>2. /\ producer' = [producer EXCEPT ![p].step = "done"]
        /\ lock' = None
        /\ loop' = Without(loop, p)
    BY <1>5, <2>0 DEF Commit, Ended, Without
  <2>3. TypeOK'
    BY <1>5, <2>2, SMTT(30) DEF TypeOK, Commit, Without, States, ActiveStates, CancellableStates
  <2>4. LockHeld' /\ StillClear'
    BY <2>1, <2>2 DEF TypeOK, LockHeld, StillClear
  <2>5. CASE j \in Deployments
    <3>1. /\ state' = [state EXCEPT ![j] = "authorized"]
          /\ trail' = [trail EXCEPT ![j] = {"authorized"}]
          /\ command' = command
      BY <1>5, <2>5 DEF Commit
    <3>2. OneJob'
      BY <2>0, <2>5, <3>1 DEF TypeOK, OneJob, Clear, ActiveDeployment, ActiveCommand
    <3>3. \A d \in Deployments : TrailHolds(d)'
      BY <2>5, <3>1 DEF TypeOK, TrailHolds, GateStates
    <3> QED BY <2>3, <2>4, <3>2, <3>3
  <2>6. CASE j \notin Deployments
    <3>1. /\ command' = [command EXCEPT ![j] = "active"]
          /\ UNCHANGED <<state, trail>>
      BY <1>5, <2>6 DEF Commit
    <3>2. OneJob'
      BY <2>0, <3>1 DEF TypeOK, OneJob, Clear, ActiveDeployment, ActiveCommand
    <3>3. \A d \in Deployments : TrailHolds(d)'
      BY <3>1 DEF TrailHolds
    <3> QED BY <2>3, <2>4, <3>2, <3>3
  <2> QED BY <2>5, <2>6
<1>6. ASSUME NEW p \in Producers, Refuse(p) PROVE DeploymentInv'
  <2>1. TypeOK'
    BY <1>6 DEF TypeOK, Refuse, Ended, Without, tables
  <2>2. LockHeld'
    BY <1>6 DEF TypeOK, Refuse, Ended, Without, LockHeld
  <2>3. StillClear' /\ OneJob'
    BY <1>6 DEF TypeOK, Refuse, Ended, Without, tables, StillClear, OneJob, Clear, ActiveDeployment,
                ActiveCommand
  <2>4. \A d \in Deployments : TrailHolds(d)'
    BY <1>6 DEF Refuse, tables, TrailHolds
  <2> QED BY <2>1, <2>2, <2>3, <2>4
<1>7. ASSUME NEW p \in Producers, Conflict(p) PROVE DeploymentInv'
  <2>1. TypeOK'
    BY <1>7 DEF TypeOK, Conflict, Ended, Without, tables
  <2>2. LockHeld'
    BY <1>7 DEF TypeOK, Conflict, Ended, Without, LockHeld
  <2>3. StillClear' /\ OneJob'
    BY <1>7 DEF TypeOK, Conflict, Ended, Without, tables, StillClear, OneJob, Clear,
                ActiveDeployment,
                ActiveCommand
  <2>4. \A d \in Deployments : TrailHolds(d)'
    BY <1>7 DEF Conflict, tables, TrailHolds
  <2> QED BY <2>1, <2>2, <2>3, <2>4
<1>8. ASSUME NEW p \in Producers, Close(p) PROVE DeploymentInv'
  <2>1. TypeOK'
    BY <1>8 DEF TypeOK, Close, Idle, Without, tables
  <2>2. LockHeld'
    BY <1>8 DEF TypeOK, Close, Idle, Without, LockHeld
  <2>3. StillClear' /\ OneJob'
    BY <1>8 DEF TypeOK, Close, Idle, Without, tables, StillClear, OneJob, Clear, ActiveDeployment,
                ActiveCommand
  <2>4. \A d \in Deployments : TrailHolds(d)'
    BY <1>8 DEF Close, tables, TrailHolds
  <2> QED BY <2>1, <2>2, <2>3, <2>4
<1>9. ASSUME Restart PROVE DeploymentInv'
  <2>1. TypeOK'
    BY <1>9 DEF TypeOK, Restart, Idle
  <2>2. LockHeld' /\ StillClear' /\ OneJob'
    BY <1>9 DEF Restart, Idle, LockHeld, StillClear, OneJob, ActiveDeployment,
                 ActiveCommand
  <2>3. \A d \in Deployments : TrailHolds(d)'
    BY <1>9 DEF Restart, TrailHolds
  <2> QED BY <2>1, <2>2, <2>3
<1>10. ASSUME NEW c \in Commands, CommandOver(c) PROVE DeploymentInv'
  <2>1. TypeOK'
    BY <1>10 DEF TypeOK, CommandOver
  <2>2. \A b \in Commands : ActiveCommand(b)' => ActiveCommand(b)
    BY <1>10 DEF TypeOK, CommandOver, ActiveCommand
  <2>3. \A d \in Deployments : ActiveDeployment(d)' => ActiveDeployment(d)
    BY <1>10 DEF CommandOver, ActiveDeployment
  <2>4. OneJob' /\ (Clear => Clear')
    BY <2>2, <2>3, NothingStarts
  <2>5. LockHeld' /\ StillClear'
    BY <1>10, <2>4 DEF CommandOver, LockHeld, StillClear
  <2>6. \A d \in Deployments : TrailHolds(d)'
    BY <1>10 DEF CommandOver, TrailHolds
  <2> QED BY <2>1, <2>4, <2>5, <2>6
<1>11. ASSUME NEW d \in Deployments, NEW e \in Events, Report(d, e) PROVE DeploymentInv'
  BY <1>11, AcceptKeeps DEF Report
<1>12. ASSUME NEW d \in Deployments, AuthorizeActivation(d) PROVE DeploymentInv'
  <2>1. "activation_started" \in Events
    BY DEF Events, From
  <2>2. From["activation_started"] = From.activation_started
    OBVIOUS
  <2> QED BY <1>12, <2>1, <2>2, AcceptKeeps DEF AuthorizeActivation
<1>13. ASSUME NEW d \in Deployments, BeginCancel(d) PROVE DeploymentInv'
  <2>1. TypeOK'
    BY <1>13 DEF TypeOK, BeginCancel
  <2>2. LockHeld' /\ StillClear' /\ OneJob'
    BY <1>13 DEF BeginCancel, LockHeld, StillClear, OneJob, Clear, ActiveDeployment,
                ActiveCommand
  <2>3. \A f \in Deployments : TrailHolds(f)'
    BY <1>13 DEF BeginCancel, TrailHolds
  <2> QED BY <2>1, <2>2, <2>3
<1>14. ASSUME NEW d \in Deployments, FinishCancel(d) PROVE DeploymentInv'
  <2>1. TypeOK'
    BY <1>14 DEF TypeOK, FinishCancel, States, TerminalStates
  <2>2. \A f \in Deployments : ActiveDeployment(f)' => ActiveDeployment(f)
    BY <1>14 DEF TypeOK, FinishCancel, ActiveDeployment, ActiveStates, CancellableStates
  <2>3. \A c \in Commands : ActiveCommand(c)' => ActiveCommand(c)
    BY <1>14 DEF FinishCancel, ActiveCommand
  <2>4. OneJob' /\ (Clear => Clear')
    BY <2>2, <2>3, NothingStarts
  <2>5. LockHeld' /\ StillClear'
    BY <1>14, <2>4 DEF FinishCancel, LockHeld, StillClear
  <2>6. \A f \in Deployments : TrailHolds(f)'
    BY <1>14 DEF TypeOK, FinishCancel, TrailHolds, GateStates, CancellableStates
  <2> QED BY <2>1, <2>4, <2>5, <2>6
<1>15. CASE UNCHANGED vars
  BY <1>15 DEF vars, tables, TypeOK, LockHeld, StillClear, OneJob, TrailHolds, Clear,
               ActiveDeployment, ActiveCommand
<1> QED BY <1>1, <1>2, <1>3, <1>4, <1>5, <1>6, <1>7, <1>8, <1>9, <1>10, <1>11,
            <1>12, <1>13, <1>14, <1>15 DEF Next

\* The inductive invariant holds in every reachable state.
LEMMA InvariantHolds == Spec => []DeploymentInv
BY InitHolds, StepHolds, PTL DEF Spec

\* The tables and the requests in flight keep their types.
THEOREM DeploymentTypes == Spec => []TypeOK
<1>1. DeploymentInv => TypeOK
  BY DEF DeploymentInv
<1> QED BY <1>1, InvariantHolds, PTL

\* A client never has two jobs at once, however many producers race.
THEOREM DeploymentExclusion == Spec => []OneJob
<1>1. DeploymentInv => OneJob
  BY DEF DeploymentInv
<1> QED BY <1>1, InvariantHolds, PTL

\* The outcome of a deployment agrees with whether its gate was opened.
THEOREM DeploymentOutcome == Spec => []OutcomeAgreesWithGate
<1>1. DeploymentInv => OutcomeAgreesWithGate
  BY DEF DeploymentInv, TrailHolds, OutcomeAgreesWithGate, GateStates
<1> QED BY <1>1, InvariantHolds, PTL

-----------------------------------------------------------------------------
(***************************************************************************)
(* The refresh tokens.  Rows are only added and ended: a row's user, the   *)
(* credentials and the time it was opened with, and its absolute end stay. *)
(***************************************************************************)
Row ==
  [user : Users, as : Users \cup {Nobody}, sid : Nat, live : BOOLEAN, expires : Nat,
   since : Nat, born : Nat, late : BOOLEAN]

Rotations == {"refresh", "start", "stop"}

AccTypes ==
  /\ rows \in Seq(Row)
  /\ changes \in [Users -> Nat]
  /\ now \in Nat
  /\ reqs \in [Reqs -> [kind : Rotations \cup {"none", "deactivate"}, row : Nat, at : Nat,
                        actor : Users \cup {Nobody}, target : Users \cup {Nobody}]]

\* A request to renew or switch has read a row that was live then.
RowWasRead ==
  \A q \in Reqs : reqs[q].kind \in Rotations =>
    LET row == rows[reqs[q].row] IN
    reqs[q].row \in DOMAIN rows /\ (row.since = reqs[q].at \/ row.late)

AccInv == AccTypes /\ RowWasRead /\ SessionsEndWithCredentials /\ SessionHasAbsoluteEnd

\* Nothing of the rows but that some may have ended.
Kept(rs) ==
  /\ rs \in Seq(Row) /\ Len(rs) = Len(rows)
  /\ \A i \in DOMAIN rows :
       /\ rs[i].user = rows[i].user /\ rs[i].since = rows[i].since
       /\ rs[i].late = rows[i].late
       /\ rs[i].born = rows[i].born /\ rs[i].expires = rows[i].expires
       /\ rs[i].live => rows[i].live

LEMMA AccInitHolds == AccInit => AccInv
BY DEF AccInit, AccInv, AccTypes, RowWasRead, SessionsEndWithCredentials, SessionHasAbsoluteEnd,
       NoReq, Rotations

LEMMA RowsAreTyped ==
  ASSUME AccInv, NEW i \in DOMAIN rows
  PROVE  /\ rows[i] \in Row /\ i \in Nat /\ rows[i].user \in Users /\ rows[i].sid \in Nat
         /\ rows[i].as \in Users \cup {Nobody} /\ rows[i].born \in Nat
<1>1. rows[i] \in Row /\ i \in Nat
  BY DEF AccInv, AccTypes
<1> QED
  BY <1>1 DEF Row

\* The rows with a property end.
LEMMA EndedAreKept ==
  ASSUME AccInv, NEW Gone \in SUBSET (DOMAIN rows), NEW rs,
         rs = [i \in DOMAIN rows |->
                 IF i \in Gone THEN [rows[i] EXCEPT !.live = FALSE] ELSE rows[i]]
  PROVE  Kept(rs) /\ \A i \in Gone : ~rs[i].live
<1>1. rows \in Seq(Row) /\ DOMAIN rows = 1..Len(rows) /\ Len(rows) \in Nat
  BY DEF AccInv, AccTypes
<1>2. \A r \in Row : LET e == [r EXCEPT !.live = FALSE] IN
        /\ e \in Row /\ e.user = r.user /\ e.since = r.since /\ e.late = r.late
        /\ e.born = r.born /\ e.expires = r.expires /\ ~e.live
  BY DEF Row
<1>3. \A i \in DOMAIN rows : rows[i] \in Row
  BY <1>1
<1>4. \A i \in DOMAIN rows : rs[i] \in Row
  BY <1>2, <1>3
<1>5. rs \in Seq(Row) /\ Len(rs) = Len(rows)
  BY <1>1, <1>4
<1> QED
  BY <1>2, <1>3, <1>5 DEF Kept

LEMMA RevokedAreKept ==
  ASSUME AccInv, NEW u
  PROVE  /\ Kept(Revoked(rows, u))
         /\ \A i \in DOMAIN rows : rows[i].user = u => ~Revoked(rows, u)[i].live
<1> DEFINE Gone == {i \in DOMAIN rows : rows[i].user = u}
<1>1. Revoked(rows, u) = [i \in DOMAIN rows |->
        IF i \in Gone THEN [rows[i] EXCEPT !.live = FALSE] ELSE rows[i]]
  BY DEF Revoked
<1>2. Gone \in SUBSET (DOMAIN rows)
  OBVIOUS
<1>3. \A i \in DOMAIN rows : rows[i].user = u => i \in Gone
  OBVIOUS
<1> HIDE DEF Gone
<1> QED
  BY <1>1, <1>2, <1>3, EndedAreKept

LEMMA OneIsKept ==
  ASSUME AccInv, NEW i \in DOMAIN rows
  PROVE  Kept([rows EXCEPT ![i].live = FALSE])
<1>1. [rows EXCEPT ![i].live = FALSE] = [j \in DOMAIN rows |->
        IF j \in {i} THEN [rows[j] EXCEPT !.live = FALSE] ELSE rows[j]]
  BY DEF AccInv, AccTypes
<1> QED
  BY <1>1, EndedAreKept

-----------------------------------------------------------------------------
LEMMA NoReqIsTyped ==
  NoReq \in [kind : Rotations \cup {"none", "deactivate"}, row : Nat, at : Nat,
             actor : Users \cup {Nobody}, target : Users \cup {Nobody}]
  /\ NoReq.kind \notin Rotations
BY DEF NoReq, Rotations

\* At most one request is released.
LEMMA ReleasedIsTyped ==
  ASSUME AccInv, reqs' = reqs \/ \E q \in Reqs : reqs' = [reqs EXCEPT ![q] = NoReq]
  PROVE  /\ reqs' \in [Reqs -> [kind : Rotations \cup {"none", "deactivate"}, row : Nat,
                               at : Nat, actor : Users \cup {Nobody},
                               target : Users \cup {Nobody}]]
         /\ \A q \in Reqs : reqs'[q].kind \in Rotations => reqs'[q] = reqs[q]
<1>1. CASE reqs' = reqs
  BY <1>1 DEF AccInv, AccTypes
<1>2. ASSUME NEW q \in Reqs, reqs' = [reqs EXCEPT ![q] = NoReq]
      PROVE  /\ reqs' \in [Reqs -> [kind : Rotations \cup {"none", "deactivate"}, row : Nat,
                                   at : Nat, actor : Users \cup {Nobody},
                                   target : Users \cup {Nobody}]]
             /\ \A p \in Reqs : reqs'[p].kind \in Rotations => reqs'[p] = reqs[p]
  BY <1>2, NoReqIsTyped DEF AccInv, AccTypes
<1> QED
  BY <1>1, <1>2

\* Rows end and credentials change: whoever's change, the rows have ended.
LEMMA RowsEnd ==
  ASSUME AccInv, Kept(rows'), now' = now, changes' \in [Users -> Nat],
         reqs' = reqs \/ \E q \in Reqs : reqs' = [reqs EXCEPT ![q] = NoReq],
         \A i \in DOMAIN rows : rows'[i].live => changes'[rows[i].user] = changes[rows[i].user]
  PROVE  AccInv'
<1> USE DEF AccInv, AccTypes, Kept
<1>1. DOMAIN rows' = DOMAIN rows
  OBVIOUS
<1>2. AccTypes'
  BY ReleasedIsTyped
<1>3. RowWasRead'
  BY <1>1, ReleasedIsTyped DEF RowWasRead
<1>4. SessionsEndWithCredentials'
  BY <1>1 DEF SessionsEndWithCredentials
<1>5. SessionHasAbsoluteEnd'
  BY <1>1 DEF SessionHasAbsoluteEnd
<1> QED
  BY <1>2, <1>3, <1>4, <1>5

\* A request takes or gives up its place.
LEMMA RequestsMove ==
  ASSUME AccInv, UNCHANGED <<rows, changes, now>>, NEW q \in Reqs, NEW r,
         reqs' = [reqs EXCEPT ![q] = r],
         r \in [kind : Rotations \cup {"none", "deactivate"}, row : Nat, at : Nat,
                actor : Users \cup {Nobody}, target : Users \cup {Nobody}],
         r.kind \in Rotations =>
           r.row \in DOMAIN rows /\ (rows[r.row].since = r.at \/ rows[r.row].late)
  PROVE  AccInv'
BY DEF AccInv, AccTypes, RowWasRead, SessionsEndWithCredentials, SessionHasAbsoluteEnd

LEMMA BeginKeeps ==
  ASSUME AccInv, NEW q \in Reqs, NEW kind \in Rotations \cup {"deactivate"},
         NEW i \in DOMAIN rows, NEW t \in Users \cup {Nobody}, Begin(q, kind, i, t), rows[i].live
  PROVE  AccInv'
<1>1. rows[i] \in Row /\ i \in Nat
  BY DEF AccInv, AccTypes
<1>2. rows[i].since = changes[rows[i].user] \/ rows[i].late
  BY DEF AccInv, SessionsEndWithCredentials
<1>3. rows[i].user \in Users /\ changes[rows[i].user] \in Nat
  BY <1>1 DEF Row, AccInv, AccTypes
<1> DEFINE r == [kind |-> kind, row |-> i, actor |-> rows[i].user, target |-> t,
                 at |-> changes[rows[i].user]]
<1>4. /\ reqs' = [reqs EXCEPT ![q] = r] /\ UNCHANGED <<rows, changes, now>>
      /\ r \in [kind : Rotations \cup {"none", "deactivate"}, row : Nat, at : Nat,
                actor : Users \cup {Nobody}, target : Users \cup {Nobody}]
      /\ r.row = i /\ r.at = changes[rows[i].user]
  BY <1>1, <1>3 DEF Begin
<1> HIDE DEF r
<1> QED
  BY <1>2, <1>4, RequestsMove

\* One more row; those that were there are kept, or end.
LEMMA RowIsAdded ==
  ASSUME AccInv, NEW rs, Kept(rs), NEW row \in Row, rows' = Append(rs, row),
         row.live => row.since = changes[row.user] \/ row.late,
         row.expires <= row.born + Timeout,
         UNCHANGED <<changes, now>>,
         reqs' = reqs \/ \E q \in Reqs : reqs' = [reqs EXCEPT ![q] = NoReq]
  PROVE  AccInv'
<1> USE DEF AccInv, AccTypes, Kept
<1>0. rs \in Seq(Row) /\ Len(rs) = Len(rows) /\ DOMAIN rs = DOMAIN rows /\ Len(rs) \in Nat
  OBVIOUS
<1>a. /\ rows' \in Seq(Row) /\ Len(rows') = Len(rs) + 1
      /\ \A i \in 1..Len(rs) : rows'[i] = rs[i]
      /\ rows'[Len(rs) + 1] = row
  BY <1>0
<1>b. DOMAIN rows' = 1..(Len(rs) + 1) /\ DOMAIN rows = 1..Len(rs)
  BY <1>0, <1>a
<1>1. /\ \A i \in DOMAIN rows : i \in DOMAIN rows' /\ rows'[i] = rs[i]
      /\ \A i \in DOMAIN rows' : i \in DOMAIN rows \/ rows'[i] = row
  BY <1>0, <1>a, <1>b
<1>2. AccTypes'
  BY <1>a, ReleasedIsTyped
<1>c. \A i \in DOMAIN rows :
        i \in DOMAIN rows' /\ rows'[i].since = rows[i].since /\ rows'[i].late = rows[i].late
  BY <1>1
<1>3. RowWasRead'
  <2> SUFFICES ASSUME NEW q \in Reqs, reqs'[q].kind \in Rotations
               PROVE  /\ reqs'[q].row \in DOMAIN rows'
                      /\ \/ rows'[reqs'[q].row].since = reqs'[q].at
                         \/ rows'[reqs'[q].row].late
    BY DEF RowWasRead
  <2>1. reqs'[q] = reqs[q]
    BY ReleasedIsTyped
  <2>2. reqs[q].row \in DOMAIN rows
        /\ (rows[reqs[q].row].since = reqs[q].at \/ rows[reqs[q].row].late)
    BY <2>1 DEF RowWasRead
  <2> HIDE DEF AccInv, AccTypes, Kept
  <2> QED
    BY <2>1, <2>2, <1>c
<1>4. SessionsEndWithCredentials'
  BY <1>1, SMTT(30) DEF SessionsEndWithCredentials
<1>5. SessionHasAbsoluteEnd'
  BY <1>1 DEF SessionHasAbsoluteEnd
<1> QED
  BY <1>2, <1>3, <1>4, <1>5

-----------------------------------------------------------------------------
LEMMA LoginKeeps == ASSUME AccInv, NEW u \in Users, Login(u) PROVE AccInv'
<1> DEFINE row == NewRow(u, Nobody, Len(rows) + 1, now + Timeout, changes[u], now, FALSE)
<1>0. /\ Timeout \in Nat /\ now \in Nat /\ now + Timeout \in Nat
      /\ Len(rows) + 1 \in Nat /\ changes[u] \in Nat
  BY AccountsAssumption DEF AccInv, AccTypes
<1>1. /\ row \in Row /\ row.since = changes[u] /\ row.user = u
      /\ row.expires = now + Timeout /\ row.born = now
  BY <1>0 DEF NewRow, Row
<1>2. Kept(rows)
  BY DEF Kept, AccInv, AccTypes
<1>3. rows' = Append(rows, row) /\ UNCHANGED <<reqs, changes, now>>
  BY DEF Login
<1>4. row.expires <= row.born + Timeout
  <2>1. now + Timeout <= now + Timeout
    BY <1>0
  <2> QED
    BY <1>1, <2>1
<1> HIDE DEF row
<1> QED
  BY <1>1, <1>2, <1>3, <1>4, RowIsAdded

\* The renewed row takes over the credentials and the end of the old one.
LEMMA RotationKeeps ==
  ASSUME AccInv, NEW q \in Reqs, NEW kind \in Rotations, NEW sid \in Nat,
         RotationCommit(q, kind, sid)
  PROVE  AccInv'
<1> DEFINE i == reqs[q].row
           row == NewRow(rows[i].user, reqs[q].target, sid, rows[i].expires, rows[i].since,
                         rows[i].born, rows[i].late \/ reqs[q].at # changes[rows[i].user])
           rs == [rows EXCEPT ![i].live = FALSE]
<1>1. i \in DOMAIN rows /\ (rows[i].since = reqs[q].at \/ rows[i].late)
  BY DEF AccInv, RowWasRead, RotationCommit
<1>2. rows[i] \in Row /\ reqs[q].target \in Users \cup {Nobody}
  BY <1>1 DEF AccInv, AccTypes
<1>3. /\ row \in Row /\ row.since = rows[i].since /\ row.user = rows[i].user
      /\ row.late = (rows[i].late \/ reqs[q].at # changes[rows[i].user])
      /\ row.expires = rows[i].expires /\ row.born = rows[i].born
  BY <1>2 DEF NewRow, Row
<1>4. Kept(rs)
  BY <1>1, OneIsKept
<1>5. /\ rows' = Append(rs, row) /\ reqs' = [reqs EXCEPT ![q] = NoReq]
      /\ UNCHANGED <<changes, now>>
  BY DEF RotationCommit, Rotated
<1>6. row.expires <= row.born + Timeout
  BY <1>1, <1>3 DEF AccInv, SessionHasAbsoluteEnd
<1>7. row.since = changes[row.user] \/ row.late
  BY <1>1, <1>3
<1> HIDE DEF row, rs
<1> QED
  BY <1>3, <1>4, <1>5, <1>6, <1>7, RowIsAdded

LEMMA CredentialsChange ==
  ASSUME AccInv, NEW u, rows' = Revoked(rows, u), changes' = [changes EXCEPT ![u] = @ + 1],
         now' = now,
         reqs' = reqs \/ \E q \in Reqs : reqs' = [reqs EXCEPT ![q] = NoReq]
  PROVE  AccInv'
<1>1. Kept(rows') /\ \A i \in DOMAIN rows : rows[i].user = u => ~rows'[i].live
  BY RevokedAreKept
<1>2. changes' \in [Users -> Nat] /\ \A v \in Users : v # u => changes'[v] = changes[v]
  <2>1. changes \in [Users -> Nat]
    BY DEF AccInv, AccTypes
  <2>2. CASE u \in Users
    BY <2>1, <2>2
  <2>3. CASE u \notin Users
    <3>1. changes' = changes
      BY <2>1, <2>3
    <3> QED
      BY <2>1, <3>1
  <2> QED
    BY <2>2, <2>3
<1>3. \A i \in DOMAIN rows : rows[i].user \in Users
  BY RowsAreTyped
<1> QED
  BY <1>1, <1>2, <1>3, RowsEnd

LEMMA SessionsKeep == ASSUME AccInv, Sessions PROVE AccInv'
<1> USE DEF AccInv, AccTypes
<1>1. ASSUME Kept(rows'), UNCHANGED <<reqs, now, changes>> PROVE AccInv'
  BY <1>1, RowsEnd
<1>2. ASSUME NEW i \in DOMAIN rows, RefreshReused(i) \/ Logout(i) PROVE AccInv'
  BY <1>1, <1>2, RevokedAreKept, OneIsKept DEF RefreshReused, Logout
<1>3. ASSUME NEW i \in DOMAIN rows, NEW sids, RevokeSessions(i, sids) PROVE AccInv'
  <2> DEFINE Gone == {j \in DOMAIN rows : rows[j].user = rows[i].user /\ rows[j].sid \in sids}
  <2>1. rows' = [j \in DOMAIN rows |->
          IF j \in Gone THEN [rows[j] EXCEPT !.live = FALSE] ELSE rows[j]]
    BY <1>3, Zenon DEF RevokeSessions
  <2>2. Gone \in SUBSET (DOMAIN rows)
    OBVIOUS
  <2> HIDE DEF Gone
  <2>3. Kept(rows')
    BY <2>1, <2>2, EndedAreKept
  <2> QED
    BY <1>1, <1>3, <2>3 DEF RevokeSessions
<1>4. ASSUME NEW i \in DOMAIN rows, NEW q \in Reqs, RefreshRead(q, i) \/ StopRead(q, i)
      PROVE  AccInv'
  <2>1. rows[i].as \in Users \cup {Nobody} /\ Nobody \in Users \cup {Nobody}
    BY RowsAreTyped
  <2>2. rows[i].live
    BY <1>4 DEF RefreshRead, StopRead, Resolves
  <2>3. Begin(q, "refresh", i, rows[i].as) \/ Begin(q, "stop", i, Nobody)
    BY <1>4 DEF RefreshRead, StopRead
  <2>4. {"refresh", "stop"} \subseteq Rotations \cup {"deactivate"}
    BY DEF Rotations
  <2> HIDE DEF AccInv, AccTypes
  <2> QED
    BY <2>1, <2>2, <2>3, <2>4, BeginKeeps
<1>5. ASSUME NEW i \in DOMAIN rows, NEW q \in Reqs, NEW t \in Users,
             StartRead(q, i, t) \/ DeactivateRead(q, i, t)
      PROVE  AccInv'
  <2>1. rows[i].live
    BY <1>5 DEF StartRead, DeactivateRead, Self, Resolves
  <2>2. Begin(q, "start", i, t) \/ Begin(q, "deactivate", i, t)
    BY <1>5 DEF StartRead, DeactivateRead
  <2>3. {"start", "deactivate"} \subseteq Rotations \cup {"deactivate"} /\ t \in Users \cup {Nobody}
    BY DEF Rotations
  <2> HIDE DEF AccInv, AccTypes
  <2> QED
    BY <2>1, <2>2, <2>3, BeginKeeps
<1>6. ASSUME NEW q \in Reqs, RefreshCommit(q) \/ SwitchCommit(q) PROVE AccInv'
  <2>1. RefreshCommit(q) => rows[reqs[q].row].sid \in Nat
    <3>1. RefreshCommit(q) => reqs[q].row \in DOMAIN rows
      BY DEF RefreshCommit, RotationCommit, RowWasRead, Rotations
    <3> QED
      BY <3>1, RowsAreTyped
  <2>2. Len(rows) + 1 \in Nat
    OBVIOUS
  <2> QED
    BY <1>6, <2>1, <2>2, RotationKeeps DEF RefreshCommit, SwitchCommit, Rotations
<1>7. ASSUME NEW q \in Reqs, SwitchRefused(q) PROVE AccInv'
  BY <1>7, RequestsMove, NoReqIsTyped DEF SwitchRefused
<1>8. ASSUME NEW q \in Reqs, DeactivateCommit(q) PROVE AccInv'
  <2>1. now' = now /\ \E p \in Reqs : reqs' = [reqs EXCEPT ![p] = NoReq]
    BY <1>8 DEF DeactivateCommit
  <2>2. /\ rows' = Revoked(rows, reqs[q].target)
        /\ changes' = [changes EXCEPT ![reqs[q].target] = @ + 1]
    BY <1>8 DEF DeactivateCommit
  <2> HIDE DEF AccInv, AccTypes
  <2> QED
    BY <2>1, <2>2, CredentialsChange
<1>9. ASSUME NEW u \in Users, Login(u) PROVE AccInv'
  BY <1>9, LoginKeeps
<1> QED
  BY <1>2, <1>3, <1>4, <1>5, <1>6, <1>7, <1>8, <1>9 DEF Sessions, RevokeOthers

LEMMA UsersOnly == ASSUME AccInv, UNCHANGED <<rows, reqs, changes, now>> PROVE AccInv'
BY DEF AccInv, AccTypes, RowWasRead, SessionsEndWithCredentials, SessionHasAbsoluteEnd

LEMMA AdministrationKeeps == ASSUME AccInv, Administration PROVE AccInv'
<1>1. ASSUME NEW u, NEW f, Changed(u, f) PROVE AccInv'
  BY <1>1, CredentialsChange DEF Changed
<1>2. ASSUME NEW u, NEW lockout, SendLink(u, lockout) PROVE AccInv'
  BY <1>2, CredentialsChange, UsersOnly DEF SendLink
<1>3. ASSUME NEW a, NEW u, NEW r, CreateUser(a, u, r) \/ ChangeRole(a, u, r) PROVE AccInv'
  BY <1>1, <1>3, UsersOnly DEF CreateUser, ChangeRole
<1>4. ASSUME NEW a, NEW u, NEW on, SetActive(a, u, on) PROVE AccInv'
  BY <1>1, <1>4 DEF SetActive
<1>5. ASSUME NEW a, NEW u, TemporaryPassword(a, u) \/ DeleteUser(a, u) \/ AdminLink(a, u)
      PROVE  AccInv'
  BY <1>1, <1>2, <1>5 DEF TemporaryPassword, DeleteUser, AdminLink
<1>6. ASSUME NEW u, ChangePassword(u) \/ ForgotPassword(u) \/ ResetPassword(u) PROVE AccInv'
  BY <1>1, <1>2, <1>6 DEF ChangePassword, ForgotPassword, ResetPassword
<1>7. ASSUME MailSent \/ MailFails PROVE AccInv'
  BY <1>7, UsersOnly DEF MailSent, MailFails
<1> QED
  BY <1>3, <1>4, <1>5, <1>6, <1>7 DEF Administration

LEMMA AccStepKeeps == ASSUME AccInv, [AccNext]_accvars PROVE AccInv'
<1>1. CASE Tick
  BY <1>1 DEF Tick, AccInv, AccTypes, RowWasRead, SessionsEndWithCredentials,
              SessionHasAbsoluteEnd
<1>2. CASE UNCHANGED accvars
  BY <1>2, UsersOnly DEF accvars
<1> QED
  BY <1>1, <1>2, SessionsKeep, AdministrationKeeps DEF AccNext

LEMMA AccInvHolds == AccSpec => []AccInv
BY AccInitHolds, AccStepKeeps, PTL DEF AccSpec

(***************************************************************************)
(* A session ends with the credentials it was opened with.                 *)
(***************************************************************************)
THEOREM SessionsEnd == AccSpec => []SessionsEndWithCredentials
<1>1. AccInv => SessionsEndWithCredentials
  BY DEF AccInv
<1> QED
  BY <1>1, AccInvHolds, PTL

(***************************************************************************)
(* No renewal and no switch of users moves the absolute end of a session.  *)
(***************************************************************************)
THEOREM SessionsExpire == AccSpec => []SessionHasAbsoluteEnd
<1>1. AccInv => SessionHasAbsoluteEnd
  BY DEF AccInv
<1> QED
  BY <1>1, AccInvHolds, PTL
=============================================================================
