---------------------------- MODULE CommandQueue ----------------------------
(***************************************************************************)
(* The shared command queue of one client and one domain: the rows of      *)
(* table client_command and the handlers that change them                  *)
(* (backend/service1/shared_domain.py, routers/shared_domain.py).          *)
(*                                                                         *)
(* A handler opens one transaction, takes its rows with SELECT ... FOR     *)
(* UPDATE before it looks at them and commits once, so each handler is one *)
(* action.  A claim reads the clock before it waits for its rows, so the   *)
(* time it decides by may be a little old.  Callers are arbitrary: any     *)
(* claim token that was ever issued may be presented again, late or twice. *)
(***************************************************************************)
EXTENDS Naturals

CONSTANTS
  Commands,     \* identities of the rows this model can hold
  MaxAttempts,  \* max_attempts of a row
  Lease,        \* lease_seconds, in ticks
  Ttl,          \* expires_at - requested_at, in ticks
  RetryDelay,   \* the pause fail_shared_command puts before a retry, in ticks
  MaxWait,      \* how long a claim may wait for its rows, in ticks
  MaxTime,      \* bound on the clock
  MaxBoot       \* bound on the boots of the client

ASSUME QueueAssumption ==
  /\ MaxAttempts \in Nat \ {0}
  /\ Lease \in Nat \ {0}
  /\ Ttl \in Nat \ {0}
  /\ RetryDelay \in Nat
  /\ MaxWait \in Nat
  /\ MaxTime \in Nat
  /\ MaxBoot \in Nat

VARIABLES
  now,       \* the database clock
  reported,  \* Client.last_boot_id: the boot the Status domain reported last
  rows,      \* the table
  ackedBy    \* history: the claim that moved a row to succeeded

vars == <<now, reported, rows, ackedBy>>

NoBoot == 0
NoToken == 0

Kinds == {"update", "power", "local"}
Active == {"queued", "claimed"}
Terminal == {"succeeded", "failed", "expired"}

(***************************************************************************)
(* A claim token is fresh and unguessable; the number of the attempt that  *)
(* issued it identifies it among the tokens of its row.                    *)
(***************************************************************************)
Row ==
  [status : {"absent"} \cup Active \cup Terminal,
   kind : Kinds, attempts : 0..MaxAttempts, token : 0..MaxAttempts,
   available : 0..MaxTime, expires : 0..MaxTime, lease : 0..(MaxTime + Lease),
   boot : 0..MaxBoot]

NoRow ==
  [status |-> "absent", kind |-> "local", attempts |-> 0, token |-> NoToken,
   available |-> 0, expires |-> 0, lease |-> 0, boot |-> NoBoot]

Mut_Least(a, b) == a  \* the cap at expires_at dropped

Least(a, b) == IF a <= b THEN a ELSE b

Mut_ClearClaim(row) == [row EXCEPT !.lease = 0]  \* the token survives

ClearClaim(row) == [row EXCEPT !.token = NoToken, !.lease = 0]

Finished(row, status) == ClearClaim([row EXCEPT !.status = status])

Requeued(row, at) ==
  ClearClaim([row EXCEPT !.status = "queued", !.available = at])

(***************************************************************************)
(* _reconcile_command_state, for one row.                                  *)
(***************************************************************************)
Rebooted(row) ==
  /\ row.status = "claimed"
  /\ row.kind = "update"
  /\ row.boot # NoBoot
  /\ reported # NoBoot
  /\ reported # row.boot

LeaseOver(row, at) == row.status = "claimed" /\ row.lease <= at

\* The attempt limit looked at for leases only.
Mut_ReconciledUnlimitedBoots(row, at) ==
  IF row.status \notin Active THEN row
  ELSE IF row.expires <= at THEN Finished(row, "expired")
  ELSE IF Rebooted(row) THEN Requeued(row, at)
  ELSE IF LeaseOver(row, at)
    THEN IF row.attempts >= MaxAttempts
           THEN Finished(row, "failed")
           ELSE Requeued(row, at)
  ELSE row

\* Rows that are already terminal loaded and expired as well.
Mut_ReconciledAllRows(row, at) ==
  IF row.status = "absent" THEN row
  ELSE IF row.expires <= at THEN Finished(row, "expired")
  ELSE row

\* Expiry left to the lease.
Mut_ReconciledNoExpiry(row, at) ==
  IF row.status # "absent" /\ LeaseOver(row, at)
    THEN IF row.attempts >= MaxAttempts
           THEN Finished(row, "failed")
           ELSE Requeued(row, at)
  ELSE row

Reconciled(row, at) ==
  IF row.status \notin Active THEN row
  ELSE IF row.expires <= at THEN Finished(row, "expired")
  ELSE IF Rebooted(row) \/ LeaseOver(row, at)
    THEN IF row.attempts >= MaxAttempts
           THEN Finished(row, "failed")
           ELSE Requeued(row, at)
  ELSE row

Claimable(row, at) ==
  /\ row.status = "queued"
  /\ row.available <= at
  /\ row.expires > at
  /\ row.attempts < MaxAttempts

Claimed(row, at) ==
  [row EXCEPT !.status = "claimed", !.token = row.attempts + 1,
              !.lease = at + Lease, !.attempts = row.attempts + 1]

(***************************************************************************)
(* The claim looks at the rows in the order they were loaded, by           *)
(* available_at as it was before the reconciliation; rows available at the *)
(* same time follow in an order the model leaves open.                     *)
(***************************************************************************)
FirstClaimable(c, at) ==
  /\ Claimable(Reconciled(rows[c], at), at)
  /\ \A d \in Commands :
       Claimable(Reconciled(rows[d], at), at) => rows[c].available <= rows[d].available

(***************************************************************************)
(* _require_claimed_command: the row is claimed, by this token, and        *)
(* neither the lease nor the command is over.                              *)
(***************************************************************************)
\* The comparison with claim_token_hash dropped.
Mut_HoldsAnyClaim(c, t) ==
  /\ rows[c].status = "claimed"
  /\ t # NoToken
  /\ rows[c].expires > now
  /\ rows[c].lease > now

HoldsClaim(c, t) ==
  /\ rows[c].status = "claimed"
  /\ t # NoToken
  /\ rows[c].token = t
  /\ rows[c].expires > now
  /\ rows[c].lease > now

-----------------------------------------------------------------------------

Init ==
  /\ now = 0
  /\ reported = NoBoot
  /\ rows = [c \in Commands |-> NoRow]
  /\ ackedBy = [c \in Commands |-> NoToken]

\* queue_system_command: the boot is the one the producer read, maybe earlier.
Enqueue(c, k, boot) ==
  /\ rows[c].status = "absent"
  /\ now + Ttl + MaxWait <= MaxTime
  /\ rows' = [rows EXCEPT ![c] =
       [NoRow EXCEPT !.status = "queued", !.kind = k, !.boot = boot,
                     !.available = now, !.expires = now + Ttl]]
  /\ UNCHANGED <<now, reported, ackedBy>>

\* claim_shared_command reads the clock before it waits for its rows, which
\* another transaction may hold.
ClaimTimes == {at \in 0..now : now - at <= MaxWait}

\* claim_shared_command, when a row can be claimed.
Claim(c, at) ==
  /\ FirstClaimable(c, at)
  /\ rows' = [d \in Commands |->
       IF d = c THEN Claimed(Reconciled(rows[d], at), at) ELSE Reconciled(rows[d], at)]
  /\ UNCHANGED <<now, reported, ackedBy>>

\* claim_shared_command, when none can: the reconciliation is committed.
ClaimNothing(at) ==
  /\ \A c \in Commands : ~Claimable(Reconciled(rows[c], at), at)
  /\ rows' = [c \in Commands |-> Reconciled(rows[c], at)]
  /\ UNCHANGED <<now, reported, ackedBy>>

Renew(c, t) ==
  /\ HoldsClaim(c, t)
  /\ rows' = [rows EXCEPT ![c].lease = Least(now + Lease, rows[c].expires)]
  /\ UNCHANGED <<now, reported, ackedBy>>

Complete(c, t) ==
  /\ HoldsClaim(c, t)
  /\ rows' = [rows EXCEPT ![c] = Finished(rows[c], "succeeded")]
  /\ ackedBy' = [ackedBy EXCEPT ![c] = t]
  /\ UNCHANGED <<now, reported>>

Fail(c, t, retryable) ==
  /\ HoldsClaim(c, t)
  /\ rows' = [rows EXCEPT ![c] =
       IF retryable /\ rows[c].attempts < MaxAttempts /\ rows[c].expires > now
         THEN Requeued(rows[c], Least(now + RetryDelay, rows[c].expires))
         ELSE Finished(rows[c], "failed")]
  /\ UNCHANGED <<now, reported, ackedBy>>

\* apply_status_power_observation: the Status domain reports a boot.
ReportBoot(boot) ==
  /\ reported' = boot
  /\ UNCHANGED <<now, rows, ackedBy>>

Tick ==
  /\ now < MaxTime
  /\ now' = now + 1
  /\ UNCHANGED <<reported, rows, ackedBy>>

ClaimCall ==
  \E at \in ClaimTimes : ClaimNothing(at) \/ \E c \in Commands : Claim(c, at)

Next ==
  \/ \E c \in Commands, k \in Kinds, boot \in 0..MaxBoot : Enqueue(c, k, boot)
  \/ ClaimCall
  \/ \E c \in Commands, t \in 1..MaxAttempts : Renew(c, t)
  \/ \E c \in Commands, t \in 1..MaxAttempts : Complete(c, t)
  \/ \E c \in Commands, t \in 1..MaxAttempts, r \in BOOLEAN : Fail(c, t, r)
  \/ \E boot \in 1..MaxBoot : ReportBoot(boot)
  \/ Tick

\* The agent polls for ever and time passes.
Fairness == WF_vars(ClaimCall) /\ WF_vars(Tick)

Spec == Init /\ [][Next]_vars
FairSpec == Spec /\ Fairness

-----------------------------------------------------------------------------

\* Every column has its type; a time is within the clock's bound or a lease after it.
TypeOK ==
  /\ now \in 0..MaxTime
  /\ reported \in 0..MaxBoot
  /\ rows \in [Commands -> Row]
  /\ ackedBy \in [Commands -> 0..MaxAttempts]

(***************************************************************************)
(* A row waiting in the queue always has an attempt left, whichever of the *)
(* three ways back into the queue it took: claim_shared_command skips      *)
(* exhausted rows, so one left queued would sit there until it expires.    *)
(***************************************************************************)
QueuedHasAttempt ==
  \A c \in Commands : rows[c].status = "queued" => rows[c].attempts < MaxAttempts

(***************************************************************************)
(* Only the latest claim of a row can complete it: an agent whose lease    *)
(* was taken over, or whose request arrives late, gets a 409 instead.      *)
(***************************************************************************)
OnlyLatestClaimSucceeds ==
  \A c \in Commands :
    rows[c].status = "succeeded" => ackedBy[c] = rows[c].attempts

(***************************************************************************)
(* A row has a claim token exactly while it is claimed, and it is the      *)
(* token of its latest attempt: no path out of a claim leaves a token      *)
(* behind that a late call could use.                                      *)
(***************************************************************************)
ClaimIsLatestAttempt ==
  \A c \in Commands :
    /\ rows[c].status = "claimed" <=> rows[c].token # NoToken
    /\ rows[c].token # NoToken => rows[c].token = rows[c].attempts

(***************************************************************************)
(* A finished command stays as it is, whatever calls follow.               *)
(***************************************************************************)
TerminalIsFinal ==
  [][\A c \in Commands : rows[c].status \in Terminal => rows'[c] = rows[c]]_vars

(***************************************************************************)
(* A command that was queued reaches a terminal status as long as the      *)
(* agent keeps polling: expiry is applied by the claims, so nothing else   *)
(* is needed, not even that any claim is ever completed.                   *)
(***************************************************************************)
EveryCommandEnds ==
  \A c \in Commands :
    rows[c].status \in Active ~> rows[c].status \in Terminal
=============================================================================
