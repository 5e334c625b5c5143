--------------------------- MODULE KioskLockdown ---------------------------
(***************************************************************************)
(* The broker that locks the kiosk user's desktop down and opens it again  *)
(* (kiosk_lockdown.py, kiosk_lockdown_broker.py, server.py).               *)
(*                                                                         *)
(* It serves one request at a time; a request whose caller has given up    *)
(* is served all the same.  One launcher stands for all of them.           *)
(***************************************************************************)
EXTENDS Naturals, Sequences

CONSTANTS
  KlMaxFaults, \* bound on failures, deaths and drift
  KlMaxAsked   \* bound on requests that wait

VARIABLES
  saved,    \* state.json
  force,    \* the restrictions in force, launchers aside
  icon,     \* the launcher in the kiosk user's directory
  backup,   \* its backup, and whether the manifest names it
  asked,    \* the requests, the first of which may be in progress
  op,       \* how far it is
  harm,     \* ghost: drift nobody has looked at since; a file that was torn
  klfaults

klvars == <<saved, force, icon, backup, asked, op, harm, klfaults>>

Restrictions == {"settings", "acl", "polkit", "guard"}
NoOp == [kind |-> "none", at |-> "begin"]
Answered(r) == [kind |-> "none", at |-> r]

KlInit ==
  /\ saved = [desired |-> FALSE, status |-> "none"]
  /\ force = {"settings"}
  /\ icon = "own"
  /\ backup = [file |-> "none", listed |-> FALSE]
  /\ asked = <<>>
  /\ op = NoOp
  /\ harm = {}
  /\ klfaults = 0

\* _verify: the enforced settings count only when the desktop is locked.
Verified(enabled) ==
  IF enabled THEN force = Restrictions /\ icon = "blocked"
             ELSE force \subseteq {"settings"} /\ icon # "blocked"

\* status
Observed ==
  IF ~Verified(saved.desired) THEN "drifted"
  ELSE IF saved.desired THEN (IF saved.status = "applying" THEN "applying" ELSE "applied")
  ELSE IF saved.status = "rolling_back" THEN "rolling_back" ELSE "disabled"

Busy == op.kind # "none"
Step(kind, s) == op = [kind |-> kind, at |-> s]
Serving(enabled) == ~Busy /\ asked # <<>> /\ Head(asked) = enabled
Ends(r) == op' = Answered(r) /\ asked' = Tail(asked)
FailsNow == klfaults < KlMaxFaults /\ klfaults' = klfaults + 1

Ask(enabled) ==
  /\ Len(asked) < KlMaxAsked
  /\ asked' = Append(asked, enabled)
  /\ UNCHANGED <<saved, force, icon, backup, op, harm, klfaults>>

-----------------------------------------------------------------------------
(***************************************************************************)
(* apply                                                                   *)
(***************************************************************************)
\* With a session that is ready, whose settings are set first.
ApplyBegins ==
  /\ Serving(TRUE)
  /\ force' = force \cup {"settings"}
  /\ saved' = [desired |-> TRUE, status |-> "applying"]
  /\ op' = [kind |-> "apply", at |-> "launchers"]
  /\ UNCHANGED <<icon, backup, asked, harm, klfaults>>

\* Nothing is touched before the session is ready.
ApplyNotReady ==
  /\ Serving(TRUE)
  /\ FailsNow
  /\ Ends("error")
  /\ UNCHANGED <<saved, force, icon, backup, harm>>

BackedUp == IF icon = "blocked" THEN backup.file ELSE icon

HideLaunchers ==
  /\ Step("apply", "launchers")
  /\ backup' = [file |-> BackedUp, listed |-> TRUE]
  /\ icon' = "blocked"
  /\ op' = [op EXCEPT !.at = "acl"]
  /\ UNCHANGED <<saved, force, asked, harm, klfaults>>

Restricts(s, next) ==
  /\ Step("apply", s)
  /\ force' = force \cup {s}
  /\ op' = [op EXCEPT !.at = next]
  /\ UNCHANGED <<saved, icon, backup, asked, harm, klfaults>>

ApplyAcl == Restricts("acl", "polkit")
ApplyPolkit == Restricts("polkit", "guard")
StartGuard == Restricts("guard", "verify")

\* A step raised, or what was applied does not verify.
ApplyFails ==
  /\ op.kind = "apply"
  /\ \/ FailsNow
     \/ op.at = "verify" /\ ~Verified(TRUE) /\ UNCHANGED klfaults
  /\ op' = [kind |-> "cleanup", at |-> "guard"]
  /\ UNCHANGED <<saved, force, icon, backup, asked, harm>>

ApplyIsDone ==
  /\ Step("apply", "verify")
  /\ Verified(TRUE)
  /\ saved' = [desired |-> TRUE, status |-> "applied"]
  /\ harm' = harm \ {"drift"}
  /\ Ends("ok")
  /\ UNCHANGED <<force, icon, backup, klfaults>>

-----------------------------------------------------------------------------
(***************************************************************************)
(* rollback, and the same steps after an apply that failed.                *)
(***************************************************************************)
\* The restrictions are lifted before the state says so.
Mut_RollbackBegins ==
  /\ Serving(FALSE)
  /\ op' = [kind |-> "rollback", at |-> "guard"]
  /\ UNCHANGED <<saved, force, icon, backup, asked, harm, klfaults>>

RollbackBegins ==
  /\ Serving(FALSE)
  /\ saved' = [desired |-> FALSE, status |-> "rolling_back"]
  /\ op' = [kind |-> "rollback", at |-> "guard"]
  /\ UNCHANGED <<force, icon, backup, asked, harm, klfaults>>

Undoing(s) == Step("rollback", s) \/ Step("cleanup", s)

Lifts(s, next) ==
  /\ Undoing(s)
  /\ force' = force \ {s}
  /\ op' = [op EXCEPT !.at = next]
  /\ UNCHANGED <<saved, icon, backup, asked, harm, klfaults>>

StopGuard == Lifts("guard", "launchers")

\* A launcher that is neither listed nor marked is not looked at.
RestoreLaunchers ==
  /\ Undoing("launchers")
  /\ IF backup.listed \/ icon = "blocked"
     THEN /\ icon' = IF backup.file # "none" THEN backup.file ELSE icon
          /\ backup' = [file |-> "none", listed |-> FALSE]
     ELSE UNCHANGED <<icon, backup>>
  /\ op' = [op EXCEPT !.at = "acl"]
  /\ UNCHANGED <<saved, force, asked, harm, klfaults>>

LiftAcl == Lifts("acl", "polkit")
LiftPolkit == Lifts("polkit", "verify")

\* The cleanup goes on with the next step; a rollback ends where it is.
UndoFails ==
  /\ op.kind \in {"rollback", "cleanup"} /\ op.at # "verify"
  /\ FailsNow
  /\ IF op.kind = "rollback" THEN Ends("error")
     ELSE /\ op' = [op EXCEPT !.at = CASE op.at = "guard" -> "launchers" [] op.at = "launchers" -> "acl"
                                       [] op.at = "acl" -> "polkit" [] OTHER -> "verify"]
          /\ UNCHANGED asked
  /\ UNCHANGED <<saved, force, icon, backup, harm>>

CleanupIsDone ==
  /\ Step("cleanup", "verify")
  /\ saved' = [desired |-> TRUE, status |-> "error"]
  /\ Ends("error")
  /\ UNCHANGED <<force, icon, backup, harm, klfaults>>

RollbackIsDone ==
  /\ Step("rollback", "verify")
  /\ saved' = [desired |-> FALSE, status |-> IF Verified(FALSE) THEN "disabled" ELSE "error"]
  /\ harm' = IF Verified(FALSE) THEN harm \ {"drift"} ELSE harm
  /\ Ends(IF Verified(FALSE) THEN "ok" ELSE "error")
  /\ UNCHANGED <<force, icon, backup, klfaults>>

-----------------------------------------------------------------------------
(***************************************************************************)
(* What goes wrong by itself.                                              *)
(***************************************************************************)
\* write_text and copy2 are not atomic: a launcher that is written is torn.
TornBy ==
  \/ UNCHANGED <<icon, backup, harm>>
  \/ /\ op.at = "launchers" /\ op.kind # "none"
     /\ op.kind = "apply" \/ backup.listed
     /\ icon' = "torn"
     /\ backup' = IF op.kind = "apply" THEN [backup EXCEPT !.file = BackedUp] ELSE backup
     /\ harm' = harm \cup {"torn"}

BrokerDies ==
  /\ Busy
  /\ FailsNow
  /\ TornBy
  /\ Ends("error")
  /\ UNCHANGED <<saved, force>>

\* The guard starts with the machine, and ends by itself when it is not wanted.
MachineBoots ==
  /\ FailsNow
  /\ TornBy
  /\ op' = NoOp /\ asked' = <<>>
  /\ force' = IF saved.desired THEN force \cup {"guard"} ELSE force \ {"guard"}
  /\ UNCHANGED saved

\* A restriction is lost: a setting that was changed, a guard that died.
Drifts ==
  /\ \E r \in force : force' = force \ {r}
  /\ FailsNow
  /\ harm' = harm \cup {"drift"}
  /\ UNCHANGED <<saved, icon, backup, asked, op>>

BrokerNext ==
  \/ ApplyBegins \/ HideLaunchers \/ ApplyAcl \/ ApplyPolkit \/ StartGuard
  \/ (op.at = "verify" /\ ~Verified(TRUE) /\ ApplyFails) \/ ApplyIsDone
  \/ RollbackBegins \/ StopGuard \/ RestoreLaunchers \/ LiftAcl \/ LiftPolkit
  \/ CleanupIsDone \/ RollbackIsDone

BrokerFails == ApplyNotReady \/ ApplyFails \/ UndoFails \/ BrokerDies \/ Drifts

-----------------------------------------------------------------------------
(***************************************************************************)
(* What the state file says of the desktop is so, through failures,        *)
(* deaths and requests nobody waits for any more: "applied" has every      *)
(* restriction in force, unless it was lost since, and "disabled" has none *)
(* and has given the kiosk user his launcher back, unless writing it was   *)
(* cut off (_verify and the order in which rollback writes its state).     *)
(***************************************************************************)
LockdownStateIsTrue ==
  /\ saved.status = "applied" /\ "drift" \notin harm => Verified(TRUE)
  /\ saved.status = "disabled" =>
       /\ "drift" \notin harm => Verified(FALSE)
       /\ "torn" \notin harm => icon = "own" /\ backup.file = "none"
=============================================================================
