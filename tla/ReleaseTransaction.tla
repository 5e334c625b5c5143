------------------------- MODULE ReleaseTransaction -------------------------
(***************************************************************************)
(* The release transaction of a client: staging, activation, automatic and *)
(* manual rollback (client/release/lib/clientflow_release/transaction.py). *)
(*                                                                         *)
(* TransactionLock admits one process; op is how far it is.  That process  *)
(* works on a copy of state.json, mem, and what it has not saved is lost   *)
(* when it dies.  The machine can lose power between any two steps, and a  *)
(* step can fail.  A release is named by its release_sequence.             *)
(***************************************************************************)
EXTENDS Naturals, Sequences

CONSTANTS
  Releases,    \* release sequences of the approved bundles
  None,
  LateFaults   \* whether a step after boot enablement may fail

ASSUME ReleaseAssumption ==
  /\ Releases \subseteq Nat \ {0}
  /\ None \notin Releases \cup [rel : Releases, prev : Releases \cup {None}]
  /\ LateFaults \in BOOLEAN

VARIABLES
  disk,   \* releases with a published directory below /opt/clientflow/releases
  state,  \* state.json
  mem,    \* the copy of state.json the transaction works on
  op,     \* the transaction in progress: its step, release, predecessor, caller
  host    \* what systemd and the file system of the host hold

rtvars == <<disk, state, mem, op, host>>

Maybe == Releases \cup {None}
Intents == [rel : Releases, prev : Maybe]

Idle == [step |-> "idle", rel |-> None, prev |-> None, by |-> None]

\* Of the history the entries that anyone goes by are kept: in history those
\* that tell how an automatic rollback ended, in healthy the releases that an
\* entry says were found healthy.
InitialState ==
  [highest |-> 0, active |-> None, previous |-> None, staged |-> None,
   intent |-> None, installed |-> {}, healthy |-> {}, history |-> <<>>]

\* link is the active symlink, defs the release whose managed units are all
\* installed, running the release whose runtime was started.
InitialHost ==
  [link |-> None, defs |-> None, running |-> None, enabled |-> FALSE,
   timer |-> FALSE, reporters |-> FALSE, handoff |-> "none"]

RTInit ==
  /\ disk = {}
  /\ state = InitialState
  /\ mem = InitialState
  /\ op = Idle
  /\ host = InitialHost

\* _append_history
Told(s, e, r) == [s EXCEPT !.history = Append(@, [event |-> e, rel |-> r])]
Healthy(s, r) == [s EXCEPT !.healthy = @ \cup {r}]

\* save_state: state.json is replaced as a whole.
Save(s) == mem' = s /\ state' = s

Step(from, to) == op.step = from /\ op' = [op EXCEPT !.step = to]

-----------------------------------------------------------------------------
(***************************************************************************)
(* stage_bundle.  The directory appears by one rename, the record of it by *)
(* a later save; a directory without a record is adopted when its manifest *)
(* and source tree are those of the bundle.  What is not verified, or not  *)
(* newer than every release staged before, is refused and changes nothing. *)
(***************************************************************************)
MayStage(r) ==
  /\ op = Idle
  /\ state.intent = None
  /\ r \in state.installed \/ r > state.highest

StageIdempotent(r) ==
  /\ MayStage(r)
  /\ r \in state.installed
  /\ Save([state EXCEPT !.staged = r])
  /\ UNCHANGED <<disk, op, host>>

Recorded(s, r) ==
  [s EXCEPT !.installed = @ \cup {r}, !.highest = r, !.staged = r]

StageRecovered(r) ==
  /\ MayStage(r)
  /\ r \in disk \ state.installed
  /\ Save(Recorded(state, r))
  /\ UNCHANGED <<disk, op, host>>

PublishRelease(r, by) ==
  /\ MayStage(r)
  /\ r \notin disk
  /\ disk' = disk \cup {r}
  /\ mem' = state
  /\ op' = [step |-> "publish", rel |-> r, prev |-> None, by |-> by]
  /\ UNCHANGED <<state, host>>

StageCommit ==
  /\ op.step = "publish"
  /\ Save(Recorded(mem, op.rel))
  /\ op' = Idle
  /\ UNCHANGED <<disk, host>>

-----------------------------------------------------------------------------
(***************************************************************************)
(* install_staged_definitions and install_stable_updater_host, which the   *)
(* fresh installer calls before there is an active release.                *)
(***************************************************************************)
InstallStagedDefinitions(r) ==
  /\ op = Idle
  /\ r \in state.installed
  /\ host.link = None
  /\ host' = [host EXCEPT !.defs = r, !.running = None, !.enabled = FALSE]
  /\ UNCHANGED <<disk, state, mem, op>>

InstallStableUpdaterHost(r) ==
  /\ op = Idle
  /\ r \in state.installed
  /\ host' = [host EXCEPT !.timer = FALSE]
  /\ UNCHANGED <<disk, state, mem, op>>

-----------------------------------------------------------------------------
(***************************************************************************)
(* activate_release, up to the intent.  A first activation is one without  *)
(* a durably active release; it needs the approval of the backend, given   *)
(* in approved.  An intent that is there is resumed, and only when the     *)
(* active link is one of the two releases it names.                        *)
(***************************************************************************)
\* What is still to be done about r: nothing if it is active.
Activatable(r) ==
  /\ op = Idle
  /\ r \in state.installed
  /\ ~(host.link = r /\ state.active = r /\ state.intent = None)

Start(r, p, by) ==
  op' = [step |-> "disable", rel |-> r, prev |-> p, by |-> by]

ActivationResume(r, by, approved) ==
  /\ Activatable(r)
  /\ state.active # None \/ approved
  /\ state.intent # None
  /\ state.intent.rel = r
  /\ state.intent.prev = state.active
  /\ host.link \in {state.active, r}
  /\ Start(r, state.intent.prev, by)
  /\ mem' = state
  /\ UNCHANGED <<disk, state, host>>

ActivationIntent(r, by, approved) ==
  /\ Activatable(r)
  /\ state.active # None \/ approved
  /\ state.intent = None
  /\ host.link # r
  /\ state.active = host.link
  /\ Start(r, host.link, by)
  /\ Save([state EXCEPT !.intent = [rel |-> r, prev |-> host.link]])
  /\ UNCHANGED <<disk, host>>

Activate(r, by, approved) ==
  ActivationResume(r, by, approved) \/ ActivationIntent(r, by, approved)

\* rollback_release: the same steps, for a release that was installed before.
ManualRollback(r) ==
  /\ r # host.link
  /\ Activate(r, "rollback", TRUE)

-----------------------------------------------------------------------------
(***************************************************************************)
(* _activate_release: boot is closed first and opened again when the new   *)
(* release has been found healthy and that has been saved.                 *)
(***************************************************************************)
DisableTarget ==
  /\ Step("disable", "quiesce")
  /\ host' = [host EXCEPT !.enabled = FALSE]
  /\ UNCHANGED <<disk, state, mem>>

\* The runtime and the reporters; the window of a first activation is told.
QuiesceRuntime ==
  /\ Step("quiesce", "remove")
  /\ host' = [host EXCEPT !.running = None, !.reporters = FALSE,
                !.handoff = IF op.prev = None THEN "activating" ELSE "none"]
  /\ UNCHANGED <<disk, state, mem>>

RemoveManagedUnits ==
  /\ Step("remove", "define")
  /\ host' = [host EXCEPT !.defs = None]
  /\ UNCHANGED <<disk, state, mem>>

ApplyDefinitions ==
  /\ Step("define", "switch")
  /\ host' = [host EXCEPT !.defs = op.rel]
  /\ UNCHANGED <<disk, state, mem>>

SwitchActive ==
  /\ Step("switch", "start")
  /\ host' = [host EXCEPT !.link = op.rel]
  /\ UNCHANGED <<disk, state, mem>>

StartTarget ==
  /\ Step("start", "health")
  /\ host' = [host EXCEPT !.running = host.link]
  /\ UNCHANGED <<disk, state, mem>>

\* The health is not saved before boot is enabled.
Mut_HealthCheck ==
  /\ Step("health", "enable")
  /\ mem' = Healthy(mem, op.rel)
  /\ UNCHANGED <<disk, state, host>>

HealthCheck ==
  /\ Step("health", "enable")
  /\ Save(Healthy(mem, op.rel))
  /\ UNCHANGED <<disk, host>>

EnableTarget ==
  /\ Step("enable", "open")
  /\ host' = [host EXCEPT !.enabled = TRUE, !.reporters = TRUE]
  /\ UNCHANGED <<disk, state, mem>>

\* A first activation also starts the polling of the updater.
OpenUpdatePlane ==
  /\ Step("open", "commit")
  /\ host' = IF op.prev = None
               THEN [host EXCEPT !.timer = TRUE, !.handoff = "committed"]
               ELSE host
  /\ UNCHANGED <<disk, state, mem>>

Activated(s) ==
  [s EXCEPT !.active = op.rel, !.previous = op.prev, !.staged = None, !.intent = None]

CommitActivation ==
  /\ op.step = "commit"
  /\ Save(Activated(mem))
  /\ op' = Idle
  /\ UNCHANGED <<disk, host>>

-----------------------------------------------------------------------------
(***************************************************************************)
(* A step fails.  Before the try block, and while the runtime is stopped   *)
(* for the rollback, the transaction just ends and the intent stays.  In   *)
(* the block the previous release is put back; what the block has changed  *)
(* in the copy of the state stays changed.                                 *)
(***************************************************************************)
EarlySteps == {"remove", "define", "switch", "start", "health", "enable"}
LateSteps == {"open", "commit"}
RollbackSteps ==
  {"r_remove", "r_define", "r_switch", "r_start", "r_health", "r_enable",
   "p_unlink", "p_define", "p_disable"}

ActivationFails ==
  /\ op.step \in EarlySteps \cup (IF LateFaults THEN LateSteps ELSE {})
  /\ op' = [op EXCEPT !.step = "r_quiesce"]
  /\ mem' = IF op.step = "commit" THEN Activated(mem) ELSE mem
  /\ UNCHANGED <<disk, state, host>>

GiveUp ==
  /\ op.step \in {"disable", "quiesce", "r_quiesce"}
  /\ op' = Idle
  /\ mem' = state
  /\ UNCHANGED <<disk, state, host>>

RollbackQuiesce ==
  /\ op.step = "r_quiesce"
  /\ host' = [host EXCEPT !.running = None, !.reporters = FALSE,
                !.handoff = IF op.prev = None THEN "none" ELSE @]
  /\ op' = [op EXCEPT !.step = IF op.prev = None THEN "p_unlink" ELSE "r_remove"]
  /\ UNCHANGED <<disk, state, mem>>

RollbackRemoveUnits ==
  /\ Step("r_remove", IF op.prev = None THEN "p_define" ELSE "r_define")
  /\ host' = [host EXCEPT !.defs = None]
  /\ UNCHANGED <<disk, state, mem>>

RollbackDefinitions ==
  /\ Step("r_define", "r_switch")
  /\ host' = [host EXCEPT !.defs = op.prev]
  /\ UNCHANGED <<disk, state, mem>>

\* The link is left where the failed activation has put it.
Mut_RollbackSwitch ==
  /\ Step("r_switch", "r_start")
  /\ UNCHANGED <<disk, state, mem, host>>

RollbackSwitch ==
  /\ Step("r_switch", "r_start")
  /\ host' = [host EXCEPT !.link = op.prev]
  /\ UNCHANGED <<disk, state, mem>>

RollbackStart ==
  /\ Step("r_start", "r_health")
  /\ host' = [host EXCEPT !.running = host.link]
  /\ UNCHANGED <<disk, state, mem>>

RollbackHealth ==
  /\ Step("r_health", "r_enable")
  /\ Save(Healthy(mem, op.prev))
  /\ UNCHANGED <<disk, host>>

RollbackEnable ==
  /\ Step("r_enable", "r_commit")
  /\ host' = [host EXCEPT !.enabled = TRUE, !.reporters = TRUE]
  /\ UNCHANGED <<disk, state, mem>>

(***************************************************************************)
(* _restore_pending_first_activation: no active release, everything closed.*)
(***************************************************************************)
PendingUnlink ==
  /\ Step("p_unlink", "r_remove")
  /\ host' = [host EXCEPT !.link = None, !.reporters = FALSE]
  /\ UNCHANGED <<disk, state, mem>>

PendingDefinitions ==
  /\ Step("p_define", "p_disable")
  /\ host' = [host EXCEPT !.defs = op.rel]
  /\ UNCHANGED <<disk, state, mem>>

PendingDisable ==
  /\ Step("p_disable", "r_commit")
  /\ host' = [host EXCEPT !.enabled = FALSE, !.timer = FALSE]
  /\ UNCHANGED <<disk, state, mem>>

RollbackCommit ==
  /\ op.step = "r_commit"
  /\ Save(Told([mem EXCEPT !.active = op.prev, !.previous = None, !.intent = None],
               "automatic_rollback_completed", op.rel))
  /\ op' = Idle
  /\ UNCHANGED <<disk, host>>

RollbackFails ==
  /\ op.step \in RollbackSteps
  /\ Save(Told(mem, "automatic_rollback_failed", op.rel))
  /\ op' = Idle
  /\ UNCHANGED <<disk, host>>

-----------------------------------------------------------------------------
\* The process is killed, the runtime is not.
Crash ==
  /\ op # Idle
  /\ op' = Idle
  /\ mem' = state
  /\ UNCHANGED <<disk, state, host>>

\* Power is lost; an enabled clientflow.target is started by the next boot.
Reboot ==
  /\ op' = Idle
  /\ host' = [host EXCEPT !.running = IF host.enabled THEN host.link ELSE None,
                          !.handoff = "none"]
  /\ mem' = state
  /\ UNCHANGED <<disk, state>>

Forward ==
  \/ DisableTarget \/ QuiesceRuntime \/ RemoveManagedUnits \/ ApplyDefinitions
  \/ SwitchActive \/ StartTarget \/ HealthCheck \/ EnableTarget
  \/ OpenUpdatePlane \/ CommitActivation \/ StageCommit

Backward ==
  \/ RollbackQuiesce \/ RollbackRemoveUnits \/ RollbackDefinitions
  \/ RollbackSwitch \/ RollbackStart \/ RollbackHealth \/ RollbackEnable
  \/ PendingUnlink \/ PendingDefinitions \/ PendingDisable \/ RollbackCommit

Faults == ActivationFails \/ GiveUp \/ RollbackFails

\* Who may start a transaction: the installer, the controller, an operator.
Callers == {"operator", "controller", "rollback", None}

Requested ==
  \/ \E r \in Releases :
       \/ StageIdempotent(r) \/ StageRecovered(r)
       \/ InstallStagedDefinitions(r) \/ InstallStableUpdaterHost(r)
       \/ ManualRollback(r)
  \/ \E r \in Releases, by \in Callers :
       \/ PublishRelease(r, by)
       \/ \E approved \in BOOLEAN : Activate(r, by, approved)

RTNext == Requested \/ Forward \/ Backward \/ Faults \/ Crash \/ Reboot

\* The transaction by itself, whatever is asked of it and whenever.
RTSpec == RTInit /\ [][RTNext]_rtvars

-----------------------------------------------------------------------------
\* Every variable has its type.
RTTypeOK ==
  LET S == [highest : Nat, active : Maybe, previous : Maybe, staged : Maybe,
            intent : Intents \cup {None}, installed : SUBSET Releases,
            healthy : SUBSET Releases,
            history : Seq([event : STRING, rel : Releases])]
  IN /\ disk \subseteq Releases
     /\ {state, mem} \subseteq S
     /\ host.link \in Maybe /\ host.defs \in Maybe /\ host.running \in Maybe
     /\ {host.enabled, host.timer, host.reporters} \subseteq BOOLEAN
     /\ op.rel \in Maybe /\ op.prev \in Maybe

(***************************************************************************)
(* Boot is fail-closed: whenever the machine may lose power, a boot that   *)
(* starts clientflow.target finds the units and the active link of one and *)
(* the same release, and that release has passed its health check, which   *)
(* is on disk.                                                             *)
(***************************************************************************)
BootFailClosed ==
  host.enabled => /\ host.link # None
                  /\ host.defs = host.link
                  /\ host.link \in state.healthy

(***************************************************************************)
(* What a crash leaves can be resumed: if the active link is not the       *)
(* release that state.json says is active, then the intent in state.json   *)
(* names both, and activating its release again is accepted.               *)
(***************************************************************************)
Resumable ==
  host.link # state.active =>
    /\ state.intent # None
    /\ state.intent.prev = state.active
    /\ state.intent.rel = host.link

(***************************************************************************)
(* What the rollback procedure of the release documentation says: the      *)
(* previous release is started without being enabled for boot, until its   *)
(* health has been saved.  A rollback that starts after boot was enabled   *)
(* does not close it again.                                                *)
(***************************************************************************)
RollbackStartsClosed ==
  op.step \in {"r_start", "r_health", "p_define"} => ~host.enabled
=============================================================================
