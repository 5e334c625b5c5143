-------------------------- MODULE UpdateController --------------------------
(***************************************************************************)
(* The privileged controller that carries a verified deployment through    *)
(* the local release transaction and reports what became of it             *)
(* (client/release/lib/clientflow_release/update_controller.py), with the  *)
(* updater, the release transaction and an operator at the host.           *)
(*                                                                         *)
(* The controller is the process of the transactions it starts: it dies    *)
(* with them.  It knows what an interrupted activation came to only from   *)
(* the release state and from the history entries after its anchor.        *)
(***************************************************************************)
EXTENDS ReleaseTransaction, Updater

CONSTANTS
  Target,     \* the release of each deployment
  First,      \* the release of the fresh installation
  MaxFaults   \* bound on crashes, reboots, failed steps, lost answers and
              \* manual rollbacks

ASSUME ControllerAssumption ==
  /\ Target \in [Deps -> Releases]
  /\ First \in Releases
  /\ MaxFaults \in Nat

VARIABLES
  ctl,      \* the controller's state.json
  crun,     \* the run in progress: its step, deployment and the answered state
  copies,   \* deployments with a private copy of the bundle in handoff/
  results,  \* what activations of its release came to since a deployment's gate
  faults    \* faults and manual rollbacks so far

cvars == <<ctl, crun, copies, results>>
vars == <<rtvars, backend, trail, uvars, cvars, faults>>

Empty == [dep |-> NoDep, phase |-> "idle", anchor |-> 0]
NoCRun == [step |-> "idle", dep |-> NoDep, seen |-> "absent"]

Init ==
  /\ RTInit /\ UpdInit
  /\ ctl = Empty
  /\ crun = NoCRun
  /\ copies = {}
  /\ results = [d \in Deps |-> {}]
  /\ faults = 0

Rel == Target[crun.dep]
CGoto(s) == crun' = [crun EXCEPT !.step = s]

\* The run ends: there is nothing to go on from, or an exception says so.
EndRun == crun' = NoCRun /\ UNCHANGED <<ctl, copies>>
Local == UNCHANGED <<rtvars, copies, results>>
Remote == UNCHANGED <<backend, trail>>

\* The event is committed by the backend; a fresh id is never a replay.
Reports(e) ==
  /\ backend[crun.dep] \in From[e]
  /\ backend' = [backend EXCEPT ![crun.dep] = To[e]]
  /\ UNCHANGED trail

-----------------------------------------------------------------------------
(***************************************************************************)
(* _run_locked: what the answer to the poll leads to.                      *)
(***************************************************************************)
PollInactive ==
  /\ crun = NoCRun
  /\ Inactive
  /\ ctl' = Empty
  /\ copies' = IF ctl.phase = "idle" THEN copies ELSE {}
  /\ UNCHANGED <<rtvars, crun, results>> /\ Remote

FinishedPhases == {"idle", "activation_succeeded", "rolled_back", "recovery_failed"}

\* ControllerStateStore.bind
Bind(d) ==
  IF ctl.dep = d
    THEN UNCHANGED <<ctl, copies>>
    ELSE /\ ctl.dep = NoDep \/ ctl.phase \in FinishedPhases
         /\ ctl' = [Empty EXCEPT !.dep = d, !.phase = "observed"]
         /\ copies' = {}

FirstStep(s) ==
  CASE s = "verified" -> "ingest"
    [] s = "staged" -> "authorize"
    [] s \in {"activating", "health_check", "rolling_back"} -> "reconcile"
    [] OTHER -> "idle"

Poll(d) ==
  /\ crun = NoCRun
  /\ IsActive(d)
  /\ Bind(d)
  /\ crun' = IF FirstStep(backend[d]) = "idle" THEN NoCRun
             ELSE [step |-> FirstStep(backend[d]), dep |-> d, seen |-> backend[d]]
  /\ UNCHANGED <<rtvars, results>> /\ Remote

-----------------------------------------------------------------------------
\* secure_ingest_verified_artifact: the updater's file, or the copy there is.
SecureIngest ==
  /\ crun.step = "ingest"
  /\ IF \/ crun.dep \in copies
        \/ upd.dep = crun.dep /\ upd.artifact = crun.dep /\ crun.dep \in files
       THEN copies' = copies \cup {crun.dep} /\ CGoto("stage") /\ UNCHANGED ctl
       ELSE EndRun
  /\ UNCHANGED <<rtvars, results>> /\ Remote

\* stage_bundle, called by the controller.
StageVerified ==
  /\ crun.step = "stage"
  /\ op = Idle
  /\ IF MayStage(Rel)
       THEN /\ \/ StageIdempotent(Rel)
               \/ StageRecovered(Rel)
               \/ PublishRelease(Rel, "controller")
            /\ CGoto("staging")
            /\ UNCHANGED <<ctl, copies>>
       ELSE EndRun /\ UNCHANGED rtvars
  /\ UNCHANGED results /\ Remote

\* _assert_local_staged
LocalStaged(r) ==
  /\ r \in state.installed
  /\ state.staged = r
  /\ state.active # r
  /\ \/ state.active = host.link
     \/ /\ state.intent # None
        /\ state.intent = [rel |-> r, prev |-> state.active]
        /\ host.link = r

MarkStaged ==
  /\ crun.step = "staging"
  /\ op = Idle
  /\ IF LocalStaged(Rel)
       THEN /\ ctl' = [ctl EXCEPT !.phase = "staged", !.anchor = 0]
            /\ copies' = copies \ {crun.dep}
            /\ CGoto("report_staged")
       ELSE EndRun
  /\ UNCHANGED <<rtvars, results>> /\ Remote

\* _report_staged; a run before may have reported it already.
ReportStaged ==
  /\ crun.step = "report_staged"
  /\ IF backend[crun.dep] = "verified" THEN Reports("staged") ELSE Remote
  /\ crun' = IF IsActive(crun.dep)
               THEN [crun EXCEPT !.step = FirstStep(backend'[crun.dep]),
                                 !.seen = backend'[crun.dep]]
               ELSE NoCRun
  /\ Local /\ UNCHANGED ctl

-----------------------------------------------------------------------------
\* The anchor is dropped: the whole history is searched for an outcome.
Mut_Authorized == [ctl EXCEPT !.phase = "activation_authorized", !.anchor = 0]

\* mark_activation_authorized: the newest entry of the history is the anchor;
\* here it is the number of telling entries up to it.
Authorized ==
  [ctl EXCEPT !.phase = "activation_authorized", !.anchor = Len(state.history)]

(***************************************************************************)
(* _authorize_activation.  The gate is the backend's; it may have been     *)
(* opened by a run whose answer was lost.                                  *)
(***************************************************************************)
AuthorizeActivation ==
  /\ crun.step = "authorize"
  /\ op = Idle
  /\ IF LocalStaged(Rel) /\ backend[crun.dep] = "staged"
       THEN /\ Reports("activation_started")
            /\ ctl' = Authorized
            /\ crun' = [crun EXCEPT !.step = "reconcile", !.seen = "activating"]
            /\ UNCHANGED copies
       ELSE EndRun /\ Remote
  /\ UNCHANGED <<rtvars, results>>

(***************************************************************************)
(* _local_activation_outcome: what the release state shows, and otherwise  *)
(* the newest entry after the anchor that tells.                           *)
(***************************************************************************)
After(anchor) == {i \in DOMAIN state.history : i > anchor}

LocalOutcome(r, anchor) ==
  LET telling == {i \in After(anchor) : state.history[i].rel = r} IN
  IF state.active = r /\ host.link = r THEN "activation_succeeded"
  ELSE IF telling = {} THEN "none"
  ELSE LET last == CHOOSE i \in telling : \A j \in telling : j <= i
       IN IF state.history[last].event = "automatic_rollback_completed"
            THEN "rolled_back" ELSE "recovery_failed"

\* A lost answer to activation-start is never made up for.
Mut_Noted == ctl

\* A committed activation-start whose answer was lost is noted now.
Noted ==
  IF ctl.phase = "staged" /\ crun.seen = "activating" /\ LocalStaged(Rel)
    THEN Authorized ELSE ctl

(***************************************************************************)
(* _activate_or_reconcile: an outcome that is known is reported, and when  *)
(* there is none activate_release is called.                               *)
(***************************************************************************)
Reconcile ==
  LET o == LocalOutcome(Rel, Noted.anchor)
      authorized == Noted.phase = "activation_authorized" IN
  /\ crun.step = "reconcile"
  /\ op = Idle
  /\ CASE authorized /\ o # "none" ->
            ctl' = [Noted EXCEPT !.phase = o] /\ CGoto("report") /\ Local
       [] Noted.phase \in {"rolled_back", "recovery_failed", o} ->
            ctl' = Noted /\ CGoto("report") /\ Local
       [] authorized /\ o = "none" /\ crun.seen = "activating" /\ LocalStaged(Rel) ->
            /\ ctl' = Noted
            /\ Activate(Rel, "controller", FALSE)
            /\ CGoto("activating")
            /\ UNCHANGED <<copies, results>>
       [] OTHER -> EndRun /\ UNCHANGED <<rtvars, results>>
  /\ Remote

\* The transaction has ended, with or without an exception.
MarkOutcome ==
  /\ crun.step = "activating"
  /\ op = Idle
  /\ LET o == LocalOutcome(Rel, ctl.anchor) IN
     IF o = "none"
       THEN crun' = NoCRun /\ UNCHANGED ctl
       ELSE ctl' = [ctl EXCEPT !.phase = o] /\ CGoto("report")
  /\ Local /\ Remote

-----------------------------------------------------------------------------
(***************************************************************************)
(* _report_success, _report_rollback and _report_recovery_failed: one or   *)
(* two events, each after a fresh look at the backend.                     *)
(***************************************************************************)
NextReport ==
  LET b == backend[crun.dep] IN
  CASE ctl.phase = "activation_succeeded" /\ b = "activating" -> "health_check_started"
    [] ctl.phase = "activation_succeeded" /\ b = "health_check" -> "succeeded"
    [] ctl.phase = "rolled_back" /\ b \in {"activating", "health_check"} -> "rollback_started"
    [] ctl.phase = "rolled_back" /\ b = "rolling_back" -> "rolled_back"
    [] ctl.phase = "recovery_failed" /\ b \in From.recovery_failed -> "recovery_failed"
    [] OTHER -> "none"

ReportOutcome ==
  /\ crun.step = "report"
  /\ IF NextReport # "none" THEN Reports(NextReport) ELSE Remote
  /\ crun' = IF NextReport = "none" \/ backend'[crun.dep] \in TerminalStates
               THEN NoCRun ELSE crun
  /\ Local /\ UNCHANGED ctl

RunStep ==
  \/ SecureIngest \/ StageVerified \/ MarkStaged \/ ReportStaged
  \/ AuthorizeActivation \/ Reconcile \/ MarkOutcome \/ ReportOutcome

-----------------------------------------------------------------------------
\* Steps of the transaction in progress, whoever started it.
Carried == UNCHANGED <<backend, trail, ctl, crun, copies>>

\* What a deployment past the gate can be about.
Resulted(o) ==
  [d \in Deps |->
     IF Target[d] = op.rel /\ backend[d] \in ActiveStates \ CancellableStates
       THEN results[d] \cup {o} ELSE results[d]]

Transact ==
  /\ Forward \/ Backward
  /\ results' = CASE op.step = "commit" -> Resulted("activation_succeeded")
                  [] op.step = "r_commit" -> Resulted("rolled_back")
                  [] OTHER -> results
  /\ Carried

\* A fault that ends a run; the operator's transaction is another process.
TransactionFault ==
  /\ Faults
  /\ results' = IF op.step \in RollbackSteps THEN Resulted("recovery_failed") ELSE results
  /\ Carried

Kill ==
  /\ IF op.by = "controller" THEN Crash ELSE UNCHANGED rtvars
  /\ crun # NoCRun
  /\ crun' = NoCRun
  /\ UNCHANGED <<backend, trail, ctl, copies, results, uvars>>

PowerLoss ==
  /\ Reboot
  /\ crun' = NoCRun
  /\ urun' = NoRun
  /\ UNCHANGED <<backend, trail, ctl, copies, results, upd, files, nextId>>

\* A report is committed, but its answer does not arrive: the run ends.
LostAnswer ==
  /\ \/ crun.step = "report_staged" /\ Reports("staged")
     \/ crun.step = "authorize" /\ LocalStaged(Rel) /\ Reports("activation_started")
     \/ crun.step = "report" /\ NextReport # "none" /\ Reports(NextReport)
  /\ crun' = NoCRun
  /\ Local /\ UNCHANGED <<ctl, uvars>>

-----------------------------------------------------------------------------
(***************************************************************************)
(* The operator: the fresh installation with its first activation, and a   *)
(* manual rollback.                                                        *)
(***************************************************************************)
Install ==
  /\ state.active = None
  /\ \/ state.installed = {} /\ (PublishRelease(First, "operator") \/ StageRecovered(First))
     \/ InstallStagedDefinitions(First) /\ host.defs = None
     \/ InstallStableUpdaterHost(First) /\ host.timer
     \/ host.defs # None /\ Activate(First, "operator", TRUE)
  /\ UNCHANGED <<backend, trail, cvars>>

OperatorRollback ==
  /\ state.active # None
  /\ \E r \in Releases : ManualRollback(r)
  /\ UNCHANGED <<backend, trail, cvars>>

Controller ==
  \/ PollInactive
  \/ \E d \in Deps : Poll(d)
  \/ RunStep

Backend ==
  /\ state.active # None
  /\ \E d \in Deps : CreateDeployment(d) \/ CancelDeployment(d)

\* Faults of the release transaction, the processes and the machine.
Fault ==
  /\ faults < MaxFaults
  /\ faults' = faults + 1
  /\ \/ (TransactionFault \/ OperatorRollback) /\ UNCHANGED uvars
     \/ Kill \/ PowerLoss \/ LostAnswer
     \/ (UpdReport(FALSE) \/ UpdCrash) /\ UNCHANGED <<rtvars, cvars>>

Next ==
  \/ Fault
  \/ /\ \/ Controller /\ UNCHANGED uvars
        \/ Transact /\ UNCHANGED uvars
        \/ Install /\ UNCHANGED uvars
        \/ Backend /\ UNCHANGED <<rtvars, uvars, cvars>>
        \/ UpdStep /\ UNCHANGED <<rtvars, cvars>>
     /\ UNCHANGED faults

Spec == Init /\ [][Next]_vars

(***************************************************************************)
(* systemd's timers start the controller again and again, and the          *)
(* transaction that has the lock goes on: both take their next step.       *)
(***************************************************************************)
FairSpec ==
  /\ Spec
  /\ WF_vars(Controller /\ UNCHANGED <<uvars, faults>>)
  /\ WF_vars(Transact /\ UNCHANGED <<uvars, faults>>)

-----------------------------------------------------------------------------
\* Every variable has its type, also those of the updater and the transaction.
TypeOK ==
  /\ RTTypeOK /\ UpdTypeOK
  /\ ctl.dep \in Deps \cup {NoDep}
  /\ ctl.phase \in FinishedPhases \cup {"observed", "staged", "activation_authorized"}
  /\ ctl.anchor \in 0..Len(state.history)
  /\ crun.dep \in Deps \cup {NoDep}
  /\ copies \subseteq Deps

(***************************************************************************)
(* What is reported for a deployment is what became of an activation of    *)
(* its release since its own gate was opened, and not of an earlier        *)
(* deployment of the same release, whatever crashed, whatever answer was   *)
(* lost and whatever an operator did meanwhile.                            *)
(***************************************************************************)
OutcomeIsOwn ==
  \A d \in Deps :
    /\ backend[d] = "succeeded" => "activation_succeeded" \in results[d]
    /\ backend[d] \in {"rolling_back", "rolled_back"} => "rolled_back" \in results[d]
    /\ backend[d] = "recovery_failed" => "recovery_failed" \in results[d]

(***************************************************************************)
(* Once the gate of a deployment is open the client comes back with an     *)
(* outcome: crashes, lost answers and failed steps delay it, and leave no  *)
(* deployment in activation for good, as long as no operator rolls the     *)
(* host back meanwhile.                                                    *)
(***************************************************************************)
GateSettles ==
  [](op.by # "rollback") =>
    \A d \in Deps : backend[d] = "activating" ~> backend[d] \in TerminalStates
=============================================================================
