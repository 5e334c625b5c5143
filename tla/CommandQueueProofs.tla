------------------------- MODULE CommandQueueProofs -------------------------
(***************************************************************************)
(* Invariants of CommandQueue for every set of commands, every attempt     *)
(* limit, every lease and every clock bound.                               *)
(*                                                                         *)
(* The argument is by rows.  GoodRow says of one row what the invariants   *)
(* say of the table; each helper that makes a row from a row is shown to   *)
(* stay in the table's type and to keep GoodRow, and each handler then     *)
(* only applies helpers to the rows it holds.                              *)
(***************************************************************************)
EXTENDS CommandQueue, TLAPS

(***************************************************************************)
(* The values that stand for "none" lie in the ranges of their fields.     *)
(***************************************************************************)
LEMMA Zeroes == /\ 0 \in 0..MaxAttempts
                /\ 0 \in 0..MaxBoot
                /\ 0 \in 0..MaxTime
                /\ 0 \in 0..(MaxTime + Lease)
BY QueueAssumption

LEMMA NoRowType == NoRow \in Row
BY Zeroes DEF Row, NoRow, NoToken, NoBoot, Kinds

(***************************************************************************)
(* The three ways to leave a claim give a row of the table.                *)
(***************************************************************************)
LEMMA ClearClaimType ==
  ASSUME NEW row \in Row
  PROVE  ClearClaim(row) \in Row
BY Zeroes DEF Row, ClearClaim, NoToken

LEMMA FinishedType ==
  ASSUME NEW row \in Row, NEW status \in Terminal
  PROVE  Finished(row, status) \in Row
<1>1. [row EXCEPT !.status = status] \in Row
  BY DEF Row
<1> QED
  BY <1>1, ClearClaimType DEF Finished

LEMMA RequeuedType ==
  ASSUME NEW row \in Row, NEW at \in 0..MaxTime
  PROVE  Requeued(row, at) \in Row
<1>1. [row EXCEPT !.status = "queued", !.available = at] \in Row
  BY DEF Row, Active
<1> QED
  BY <1>1, ClearClaimType DEF Requeued

LEMMA ClaimTimesType ==
  ASSUME TypeOK, NEW at \in ClaimTimes
  PROVE  at \in 0..MaxTime
BY QueueAssumption DEF TypeOK, ClaimTimes

LEMMA ReconciledType ==
  ASSUME NEW row \in Row, NEW at \in 0..MaxTime
  PROVE  Reconciled(row, at) \in Row
BY FinishedType, RequeuedType DEF Reconciled, Terminal

LEMMA ClaimedType ==
  ASSUME NEW row \in Row, NEW at \in 0..MaxTime, row.attempts < MaxAttempts
  PROVE  Claimed(row, at) \in Row
<1>1. row.attempts + 1 \in 0..MaxAttempts /\ at + Lease \in 0..(MaxTime + Lease)
  BY QueueAssumption DEF Row
<1> QED
  BY <1>1 DEF Claimed, Row, Active

(***************************************************************************)
(* Capping at the end of the command keeps a time within the clock.        *)
(***************************************************************************)
LEMMA LeastType ==
  ASSUME NEW a \in Nat, NEW b \in 0..MaxTime
  PROVE  Least(a, b) \in 0..MaxTime /\ Least(a, b) \in 0..(MaxTime + Lease)
BY QueueAssumption DEF Least

LEMMA TypeInit == Init => TypeOK
BY NoRowType, Zeroes DEF Init, TypeOK, NoBoot, NoToken

LEMMA TypeStep == TypeOK /\ [Next]_vars => TypeOK'
<1> SUFFICES ASSUME TypeOK, [Next]_vars PROVE TypeOK'
  OBVIOUS
<1>0. \A c \in Commands :
        rows[c] \in Row /\ \A at \in ClaimTimes : Reconciled(rows[c], at) \in Row
  BY ReconciledType, ClaimTimesType DEF TypeOK
<1>1. ASSUME NEW c \in Commands, NEW k \in Kinds, NEW boot \in 0..MaxBoot,
             Enqueue(c, k, boot)
      PROVE  TypeOK'
  <2>1. now \in 0..MaxTime /\ now + Ttl \in 0..MaxTime
    BY <1>1, QueueAssumption DEF TypeOK, Enqueue
  <2>2. [NoRow EXCEPT !.status = "queued", !.kind = k, !.boot = boot,
                      !.available = now, !.expires = now + Ttl] \in Row
    BY <2>1, NoRowType DEF Row, Active
  <2> QED
    BY <1>1, <2>2 DEF Enqueue, TypeOK
<1>2. ASSUME NEW at \in ClaimTimes, ClaimNothing(at) PROVE TypeOK'
  BY <1>0, <1>2 DEF ClaimNothing, TypeOK
<1>3. ASSUME NEW at \in ClaimTimes, NEW c \in Commands, Claim(c, at) PROVE TypeOK'
  <2>1. Claimed(Reconciled(rows[c], at), at) \in Row
    BY <1>0, <1>3, ClaimedType, ClaimTimesType DEF Claim, FirstClaimable, Claimable
  <2> QED
    BY <1>0, <1>3, <2>1 DEF Claim, TypeOK
<1>4. ASSUME NEW c \in Commands, NEW t \in 1..MaxAttempts, Renew(c, t)
      PROVE  TypeOK'
  <2>0. rows[c].expires \in 0..MaxTime /\ now + Lease \in Nat
    BY <1>0, QueueAssumption DEF TypeOK, Row
  <2>1. Least(now + Lease, rows[c].expires) \in 0..(MaxTime + Lease)
    BY <2>0, LeastType
  <2>2. [rows[c] EXCEPT !.lease = Least(now + Lease, rows[c].expires)] \in Row
    BY <1>0, <2>1 DEF Row
  <2> QED
    BY <1>4, <2>2 DEF Renew, TypeOK
<1>5. ASSUME NEW c \in Commands, NEW t \in 1..MaxAttempts, Complete(c, t)
      PROVE  TypeOK'
  <2>1. Finished(rows[c], "succeeded") \in Row
    BY <1>0, FinishedType DEF Terminal
  <2> QED
    BY <1>5, <2>1 DEF Complete, TypeOK
<1>6. ASSUME NEW c \in Commands, NEW t \in 1..MaxAttempts, NEW r \in BOOLEAN,
             Fail(c, t, r)
      PROVE  TypeOK'
  <2>0. rows[c].expires \in 0..MaxTime /\ now + RetryDelay \in Nat
    BY <1>0, QueueAssumption DEF TypeOK, Row
  <2>1. Least(now + RetryDelay, rows[c].expires) \in 0..MaxTime
    BY <2>0, LeastType
  <2>2. /\ Finished(rows[c], "failed") \in Row
        /\ Requeued(rows[c], Least(now + RetryDelay, rows[c].expires)) \in Row
    BY <1>0, <2>1, FinishedType, RequeuedType DEF Terminal
  <2> QED
    BY <1>6, <2>2 DEF Fail, TypeOK
<1>7. ASSUME NEW boot \in 1..MaxBoot, ReportBoot(boot) PROVE TypeOK'
  BY <1>7, QueueAssumption DEF ReportBoot, TypeOK
<1>8. CASE Tick
  BY <1>8, QueueAssumption DEF Tick, TypeOK
<1>9. CASE UNCHANGED vars
  BY <1>9 DEF vars, TypeOK
<1> QED
  BY <1>1, <1>2, <1>3, <1>4, <1>5, <1>6, <1>7, <1>8, <1>9 DEF Next, ClaimCall

(***************************************************************************)
(* Every variable keeps its type.                                          *)
(***************************************************************************)
THEOREM TypeCorrect == Spec => []TypeOK
BY TypeInit, TypeStep, PTL DEF Spec

-----------------------------------------------------------------------------
(* The invariants of one row *)

(***************************************************************************)
(* What holds of a row that claim t moved to succeeded, if it succeeded.   *)
(* The conjunct on queued rows carries the others through the next claim.  *)
(***************************************************************************)
GoodRow(row, t) ==
  /\ row.status = "claimed" <=> row.token # NoToken
  /\ row.token # NoToken => row.token = row.attempts
  /\ row.status = "queued" => row.attempts < MaxAttempts
  /\ row.status = "succeeded" => t = row.attempts

GoodRows == \A c \in Commands : GoodRow(rows[c], ackedBy[c])

LEMMA FinishedGood ==
  ASSUME NEW row \in Row, NEW t, NEW status \in Terminal,
         status = "succeeded" => t = row.attempts
  PROVE  GoodRow(Finished(row, status), t)
BY DEF GoodRow, Finished, ClearClaim, Row, Terminal

LEMMA RequeuedGood ==
  ASSUME NEW row \in Row, NEW t, NEW at, row.attempts < MaxAttempts
  PROVE  GoodRow(Requeued(row, at), t)
BY DEF GoodRow, Requeued, ClearClaim, Row

LEMMA ReconciledGood ==
  ASSUME NEW row \in Row, NEW t, NEW at, GoodRow(row, t)
  PROVE  GoodRow(Reconciled(row, at), t)
<1>1. \A s \in {"expired", "failed"} : GoodRow(Finished(row, s), t)
  BY FinishedGood DEF Terminal
<1>2. ~(row.attempts >= MaxAttempts) => GoodRow(Requeued(row, at), t)
  BY RequeuedGood, QueueAssumption DEF Row
<1> QED
  BY <1>1, <1>2 DEF Reconciled

LEMMA ClaimedGood ==
  ASSUME NEW row \in Row, NEW t, NEW at
  PROVE  GoodRow(Claimed(row, at), t)
<1>1. row.attempts \in Nat
  BY DEF Row
<1> QED
  BY <1>1 DEF GoodRow, Claimed, Row, NoToken

(***************************************************************************)
(* Every handler leaves every row good.                                    *)
(***************************************************************************)
LEMMA GoodRowsStep == TypeOK /\ GoodRows /\ [Next]_vars => GoodRows'
<1> SUFFICES ASSUME TypeOK, GoodRows, [Next]_vars PROVE GoodRows'
  OBVIOUS
<1>0. /\ \A c \in Commands : rows[c] \in Row /\ GoodRow(rows[c], ackedBy[c])
      /\ \A c \in Commands, at \in ClaimTimes :
           /\ Reconciled(rows[c], at) \in Row
           /\ GoodRow(Reconciled(rows[c], at), ackedBy[c])
      /\ \A t \in 1..MaxAttempts : t \in 0..MaxAttempts
  BY ReconciledType, ClaimTimesType, ReconciledGood, QueueAssumption DEF TypeOK, GoodRows
<1>1. ASSUME NEW c \in Commands, NEW k \in Kinds, NEW boot \in 0..MaxBoot,
             Enqueue(c, k, boot)
      PROVE  GoodRows'
  <2>1. GoodRow([NoRow EXCEPT !.status = "queued", !.kind = k, !.boot = boot,
                              !.available = now, !.expires = now + Ttl], ackedBy[c])
    BY QueueAssumption DEF GoodRow, NoRow, NoToken
  <2> QED
    BY <1>0, <1>1, <2>1 DEF Enqueue, GoodRows, TypeOK
<1>2. ASSUME NEW at \in ClaimTimes, ClaimNothing(at) PROVE GoodRows'
  BY <1>0, <1>2 DEF ClaimNothing, GoodRows
<1>3. ASSUME NEW at \in ClaimTimes, NEW c \in Commands, Claim(c, at) PROVE GoodRows'
  <2>1. GoodRow(Claimed(Reconciled(rows[c], at), at), ackedBy[c])
    BY <1>0, ClaimedGood
  <2> QED
    BY <1>0, <1>3, <2>1 DEF Claim, GoodRows
<1>4. ASSUME NEW c \in Commands, NEW t \in 1..MaxAttempts, Renew(c, t)
      PROVE  GoodRows'
  <2>1. GoodRow([rows[c] EXCEPT !.lease = Least(now + Lease, rows[c].expires)],
                ackedBy[c])
    BY <1>0 DEF GoodRow, Row
  <2> QED
    BY <1>0, <1>4, <2>1 DEF Renew, GoodRows, TypeOK
<1>5. ASSUME NEW c \in Commands, NEW t \in 1..MaxAttempts, Complete(c, t)
      PROVE  GoodRows'
  <2>1. t = rows[c].attempts
    BY <1>0, <1>5 DEF Complete, HoldsClaim, GoodRow, Row
  <2>2. GoodRow(Finished(rows[c], "succeeded"), t)
    BY <1>0, <2>1, FinishedGood DEF Terminal
  <2> QED
    BY <1>0, <1>5, <2>2 DEF Complete, GoodRows, TypeOK
<1>6. ASSUME NEW c \in Commands, NEW t \in 1..MaxAttempts, NEW r \in BOOLEAN,
             Fail(c, t, r)
      PROVE  GoodRows'
  <2>1. GoodRow(Finished(rows[c], "failed"), ackedBy[c])
    BY <1>0, FinishedGood DEF Terminal
  <2>2. rows[c].attempts < MaxAttempts =>
          GoodRow(Requeued(rows[c], Least(now + RetryDelay, rows[c].expires)), ackedBy[c])
    BY <1>0, RequeuedGood
  <2>3. GoodRow(rows'[c], ackedBy[c])
    BY <1>0, <1>6, <2>1, <2>2 DEF Fail, TypeOK
  <2> QED
    BY <1>0, <1>6, <2>3 DEF Fail, GoodRows, TypeOK
<1>7. ASSUME NEW boot \in 1..MaxBoot, ReportBoot(boot) PROVE GoodRows'
  BY <1>7 DEF ReportBoot, GoodRows
<1>8. CASE Tick
  BY <1>8 DEF Tick, GoodRows
<1>9. CASE UNCHANGED vars
  BY <1>9 DEF vars, GoodRows
<1> QED
  BY <1>1, <1>2, <1>3, <1>4, <1>5, <1>6, <1>7, <1>8, <1>9 DEF Next, ClaimCall

LEMMA RowsStayGood == Spec => []GoodRows
<1>0. GoodRow(NoRow, NoToken)
  BY DEF GoodRow, NoRow, NoToken
<1>1. Init => GoodRows
  BY <1>0 DEF Init, GoodRows
<1> QED
  BY <1>1, GoodRowsStep, TypeCorrect, PTL DEF Spec

(***************************************************************************)
(* A call with an old token never completes a command, however late.       *)
(***************************************************************************)
THEOREM LatestClaimWins == Spec => []OnlyLatestClaimSucceeds
<1>1. GoodRows => OnlyLatestClaimSucceeds
  BY DEF GoodRows, GoodRow, OnlyLatestClaimSucceeds
<1> QED
  BY <1>1, RowsStayGood, PTL

(***************************************************************************)
(* No path out of a claim leaves a token behind.                           *)
(***************************************************************************)
THEOREM TokensAreCurrent == Spec => []ClaimIsLatestAttempt
<1>1. GoodRows => ClaimIsLatestAttempt
  BY DEF GoodRows, GoodRow, ClaimIsLatestAttempt
<1> QED
  BY <1>1, RowsStayGood, PTL

(***************************************************************************)
(* No row waits in the queue with its attempts used up.                    *)
(***************************************************************************)
THEOREM NothingQueuedIsExhausted == Spec => []QueuedHasAttempt
<1>1. GoodRows => QueuedHasAttempt
  BY DEF GoodRows, GoodRow, QueuedHasAttempt
<1> QED
  BY <1>1, RowsStayGood, PTL

-----------------------------------------------------------------------------

(***************************************************************************)
(* No handler changes a row that has reached a terminal status.            *)
(***************************************************************************)
THEOREM TerminalRowsStay == Spec => TerminalIsFinal
<1> DEFINE Stays == \A c \in Commands : rows[c].status \in Terminal => rows'[c] = rows[c]
<1>1. TypeOK /\ [Next]_vars => [Stays]_vars
  <2> SUFFICES ASSUME TypeOK, [Next]_vars PROVE Stays
    OBVIOUS
  <2> SUFFICES ASSUME NEW d \in Commands, rows[d].status \in Terminal
               PROVE  rows'[d] = rows[d]
    OBVIOUS
  <2>0. /\ \A at : Reconciled(rows[d], at) = rows[d]
        /\ rows[d].status \notin {"absent", "queued", "claimed"}
    BY DEF Reconciled, Active, Terminal
  <2>1. ASSUME NEW c \in Commands, NEW k \in Kinds, NEW boot \in 0..MaxBoot,
               Enqueue(c, k, boot)
        PROVE  rows'[d] = rows[d]
    BY <2>0, <2>1 DEF Enqueue, TypeOK
  <2>2. ASSUME NEW at \in ClaimTimes, ClaimNothing(at) PROVE rows'[d] = rows[d]
    BY <2>0, <2>2 DEF ClaimNothing
  <2>3. ASSUME NEW at \in ClaimTimes, NEW c \in Commands, Claim(c, at)
        PROVE  rows'[d] = rows[d]
    BY <2>0, <2>3 DEF Claim, FirstClaimable, Claimable
  <2>4. ASSUME NEW c \in Commands, NEW t \in 1..MaxAttempts, HoldsClaim(c, t)
        PROVE  c # d
    BY <2>0, <2>4 DEF HoldsClaim
  <2>5. ASSUME NEW c \in Commands, NEW t \in 1..MaxAttempts,
               Renew(c, t) \/ Complete(c, t) \/ \E r \in BOOLEAN : Fail(c, t, r)
        PROVE  rows'[d] = rows[d]
    <3>1. c # d
      BY <2>4, <2>5 DEF Renew, Complete, Fail
    <3> QED
      BY <2>5, <3>1 DEF Renew, Complete, Fail, TypeOK
  <2>6. CASE Tick \/ UNCHANGED vars \/ \E boot \in 1..MaxBoot : ReportBoot(boot)
    BY <2>6 DEF Tick, vars, ReportBoot
  <2> QED
    BY <2>1, <2>2, <2>3, <2>5, <2>6 DEF Next, ClaimCall
<1> QED
  BY <1>1, TypeCorrect, PTL DEF Spec, TerminalIsFinal

-----------------------------------------------------------------------------
(* How the status of a row moves *)

(***************************************************************************)
(* The calls that never tell a success.                                    *)
(***************************************************************************)
Quiet ==
  \/ ClaimCall
  \/ \E c \in Commands, t \in 1..MaxAttempts : Renew(c, t)
  \/ \E c \in Commands, t \in 1..MaxAttempts, r \in BOOLEAN : Fail(c, t, r)

LEMMA ReconciledStatus ==
  ASSUME NEW row \in Row, NEW at
  PROVE  /\ row.status \notin Active => Reconciled(row, at) = row
         /\ row.status \in Active =>
              Reconciled(row, at).status \in Active \cup {"failed", "expired"}
         /\ Reconciled(row, at).attempts = row.attempts
BY DEF Reconciled, Finished, Requeued, ClearClaim, Active, Row

(***************************************************************************)
(* A claim is the next attempt of its row, which the limit still allows.   *)
(***************************************************************************)
LEMMA ClaimAttempt ==
  ASSUME TypeOK, NEW c \in Commands, NEW at \in ClaimTimes, Claim(c, at)
  PROVE  /\ rows[c].attempts + 1 \in 1..MaxAttempts
         /\ rows[c].status # "absent"
<1>1. /\ rows[c] \in Row
      /\ Reconciled(rows[c], at).attempts = rows[c].attempts
      /\ rows[c].status = "absent" => Reconciled(rows[c], at).status = "absent"
  BY ReconciledStatus DEF TypeOK, Active
<1>2. rows[c].attempts < MaxAttempts /\ rows[c].attempts \in Nat
  BY <1>1 DEF Claim, FirstClaimable, Claimable, Row
<1> QED
  BY <1>1, <1>2, QueueAssumption DEF Claim, FirstClaimable, Claimable

LEMMA QuietKeeps ==
  ASSUME TypeOK, Quiet, NEW d \in Commands
  PROVE  /\ rows[d].status \notin Active => rows'[d] = rows[d]
         /\ rows[d].status \in Active =>
              rows'[d].status \in Active \cup {"failed", "expired"}
         /\ UNCHANGED ackedBy
<1>0. /\ rows[d] \in Row
      /\ \A at : /\ rows[d].status \notin Active => Reconciled(rows[d], at) = rows[d]
                 /\ rows[d].status \in Active =>
                      Reconciled(rows[d], at).status \in Active \cup {"failed", "expired"}
  BY ReconciledStatus DEF TypeOK
<1>1. ASSUME NEW at \in ClaimTimes, ClaimNothing(at)
      PROVE  rows'[d] = Reconciled(rows[d], at) /\ UNCHANGED ackedBy
  BY <1>1 DEF ClaimNothing
<1>2. ASSUME NEW at \in ClaimTimes, NEW c \in Commands, Claim(c, at)
      PROVE  /\ \/ rows'[d] = Reconciled(rows[d], at)
                \/ rows[d].status \in Active /\ rows'[d].status = "claimed"
             /\ UNCHANGED ackedBy
  <2>1. CASE c # d
    BY <1>2, <2>1 DEF Claim
  <2>2. CASE c = d
    <3>1. Reconciled(rows[d], at).status = "queued" /\ Reconciled(rows[d], at) \in Row
      BY <1>2, <2>2, ReconciledType, ClaimTimesType DEF Claim, FirstClaimable, Claimable, TypeOK
    <3>2. Claimed(Reconciled(rows[d], at), at).status = "claimed"
      BY <3>1 DEF Claimed, Row
    <3>3. rows[d].status \in Active
      BY <1>0, <3>1 DEF Active
    <3> QED
      BY <1>2, <2>2, <3>2, <3>3 DEF Claim
  <2> QED
    BY <2>1, <2>2
<1>3. ASSUME NEW c \in Commands, NEW t \in 1..MaxAttempts, Renew(c, t)
      PROVE  /\ rows'[d].status = rows[d].status
             /\ rows[d].status # "claimed" => rows'[d] = rows[d]
             /\ UNCHANGED ackedBy
  BY <1>0, <1>3 DEF Renew, HoldsClaim, TypeOK, Row
<1>4. ASSUME NEW c \in Commands, NEW t \in 1..MaxAttempts, NEW r \in BOOLEAN, Fail(c, t, r)
      PROVE  /\ \/ rows'[d] = rows[d]
                \/ rows[d].status = "claimed" /\ rows'[d].status \in {"queued", "failed"}
             /\ UNCHANGED ackedBy
  BY <1>0, <1>4 DEF Fail, HoldsClaim, Requeued, Finished, ClearClaim, TypeOK, Row
<1> QED
  BY <1>0, <1>1, <1>2, <1>3, <1>4 DEF Quiet, ClaimCall, Active
=============================================================================
