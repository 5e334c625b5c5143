------------------------------ MODULE Updater ------------------------------
(***************************************************************************)
(* The unprivileged updater of a client: it follows the deployment that    *)
(* the backend has for the client up to a verified local artifact          *)
(* (client/release/lib/clientflow_release/updater_client.py,               *)
(* updater_state.py, updater_transport.py).                                *)
(*                                                                         *)
(* A run is one process.  It can be killed between any two of its writes,  *)
(* and an answer of the backend can be lost after the backend has          *)
(* committed; the next run of the timer starts from state.json.            *)
(***************************************************************************)
EXTENDS Naturals, DeploymentStates

CONSTANTS
  Deps,    \* identities of the deployments of this client
  NoDep,
  MaxIds   \* bound on the event ids that are drawn

VARIABLES
  backend,   \* state of each deployment at the backend, or "absent"
  trail,     \* the events the backend has recorded, with their ids
  upd,       \* state.json: the bound deployment, pending event and artifact
  files,     \* deployments whose bundle is published below artifacts/
  nextId,    \* the next event id that uuid4 draws
  urun       \* the run in progress: its step, and the deployment it was answered

uvars == <<upd, files, nextId, urun>>

NoEvent == [event |-> "none", id |-> 0]
Unbound == [dep |-> NoDep, pending |-> NoEvent, artifact |-> NoDep]
NoRun == [step |-> "idle", dep |-> NoDep, seen |-> "absent"]

UpdInit ==
  /\ backend = [d \in Deps |-> "absent"]
  /\ trail = [d \in Deps |-> {}]
  /\ upd = Unbound
  /\ files = {}
  /\ nextId = 1
  /\ urun = NoRun

IsActive(d) == backend[d] \in ActiveStates
Inactive == \A d \in Deps : ~IsActive(d)

-----------------------------------------------------------------------------
(***************************************************************************)
(* The backend as the updater sees it: one deployment at a time, which can *)
(* be cancelled, and events that are answered again when they come again.  *)
(***************************************************************************)
CreateDeployment(d) ==
  /\ Inactive
  /\ backend[d] = "absent"
  /\ backend' = [backend EXCEPT ![d] = "authorized"]
  /\ UNCHANGED trail

CancelDeployment(d) ==
  /\ backend[d] \in CancellableStates
  /\ backend' = [backend EXCEPT ![d] = "cancelled"]
  /\ UNCHANGED trail

\* report_updater_event, for an event with an id.
Accepts(d, e, id) == [event |-> e, id |-> id] \in trail[d] \/ backend[d] \in From[e]

RecordEvent(d, e, id) ==
  IF [event |-> e, id |-> id] \in trail[d]
    THEN UNCHANGED <<backend, trail>>
    ELSE /\ backend' = [backend EXCEPT ![d] = To[e]]
         /\ trail' = [trail EXCEPT ![d] = @ \cup {[event |-> e, id |-> id]}]

-----------------------------------------------------------------------------
(***************************************************************************)
(* run_once.                                                               *)
(***************************************************************************)
RemoveArtifactFile == files \ {upd.artifact}

\* No deployment is active: clear_inactive.
UpdIdle ==
  /\ urun = NoRun
  /\ Inactive
  /\ upd' = Unbound
  /\ files' = RemoveArtifactFile
  /\ UNCHANGED <<backend, trail, nextId, urun>>

\* The state and the artifact of the deployment before stay.
Mut_BindDeployment(d) ==
  /\ urun = NoRun
  /\ IsActive(d)
  /\ upd' = [upd EXCEPT !.dep = d]
  /\ files' = files
  /\ urun' = [step |-> IF upd.pending # NoEvent THEN "report" ELSE "look",
               dep |-> d, seen |-> backend[d]]
  /\ UNCHANGED <<backend, trail, nextId>>

\* bind_deployment: another deployment than the bound one starts from nothing.
BindDeployment(d) ==
  /\ urun = NoRun
  /\ IsActive(d)
  /\ upd' = IF upd.dep = d THEN upd ELSE [Unbound EXCEPT !.dep = d]
  /\ files' = IF upd.dep = d THEN files ELSE RemoveArtifactFile
  /\ urun' = [step |-> IF upd'.pending # NoEvent THEN "report" ELSE "look",
               dep |-> d, seen |-> backend[d]]
  /\ UNCHANGED <<backend, trail, nextId>>

\* ensure_pending_event: the event and its id are on disk before they are sent.
EnsurePending(e) ==
  /\ nextId <= MaxIds
  /\ upd' = [upd EXCEPT !.pending = [event |-> e, id |-> nextId]]
  /\ nextId' = nextId + 1
  /\ urun' = [urun EXCEPT !.step = "report"]

\* What the state of the deployment asks for, as it was answered.
UpdLook ==
  /\ urun.step = "look"
  /\ CASE urun.seen = "authorized" -> EnsurePending("download_started")
       [] urun.seen \in {"downloading", "verified", "staged"} ->
            /\ urun' = [urun EXCEPT !.step = "fetch"]
            /\ UNCHANGED <<upd, nextId>>
       [] OTHER -> urun' = NoRun /\ UNCHANGED <<upd, nextId>>
  /\ UNCHANGED <<backend, trail, files>>

\* _send_event and _report_pending, answered; then the acknowledgement.
UpdReport(delivered) ==
  LET d == urun.dep
      p == upd.pending IN
  /\ urun.step = "report"
  /\ Accepts(d, p.event, p.id)
  /\ RecordEvent(d, p.event, p.id)
  /\ IF delivered
       THEN /\ upd' = [upd EXCEPT !.pending = NoEvent]
            /\ urun' = [urun EXCEPT !.step = "look", !.seen = backend'[d]]
       ELSE UNCHANGED upd /\ urun' = NoRun
  /\ UNCHANGED <<files, nextId>>

\* The backend refuses; if nothing is active any more, so is the updater.
UpdConflict ==
  /\ urun.step \in {"report", "fetch", "download"}
  /\ ~IsActive(urun.dep)
  /\ urun' = NoRun
  /\ IF Inactive
       THEN upd' = Unbound /\ files' = RemoveArtifactFile
       ELSE UNCHANGED <<upd, files>>
  /\ UNCHANGED <<backend, trail, nextId>>

\* A file that is found is used and not recorded.
Mut_VerifyLocalArtifact ==
  /\ urun.step = "fetch"
  /\ urun' = [urun EXCEPT !.step = IF urun.dep \in files THEN "verified" ELSE "download"]
  /\ UNCHANGED <<backend, trail, upd, files, nextId>>

\* verify_local_artifact: the bytes decide, not the record.
VerifyLocalArtifact ==
  /\ urun.step = "fetch"
  /\ IF urun.dep \in files
       THEN /\ upd' = [upd EXCEPT !.artifact = urun.dep]
            /\ urun' = [urun EXCEPT !.step = "verified"]
       ELSE /\ upd' = [upd EXCEPT !.artifact = NoDep]
            /\ urun' = [urun EXCEPT !.step = "download"]
  /\ UNCHANGED <<backend, trail, files, nextId>>

\* authorize_artifact, download_artifact and the rename of commit_download.
PublishArtifact ==
  /\ urun.step = "download"
  /\ IsActive(urun.dep)
  /\ files' = files \cup {urun.dep}
  /\ urun' = [urun EXCEPT !.step = "fetch"]
  /\ UNCHANGED <<backend, trail, upd, nextId>>

\* _verify_bundle_contract holds; only a downloading deployment is reported.
BundleVerified ==
  /\ urun.step = "verified"
  /\ IF urun.seen = "downloading"
       THEN EnsurePending("bundle_verified")
       ELSE urun' = NoRun /\ UNCHANGED <<upd, nextId>>
  /\ UNCHANGED <<backend, trail, files>>

\* The run ends: killed, no answer, or a bundle that is not what it should be.
UpdCrash ==
  /\ urun # NoRun
  /\ urun' = NoRun
  /\ UNCHANGED <<backend, trail, upd, files, nextId>>

UpdStep ==
  \/ UpdIdle
  \/ \E d \in Deps : BindDeployment(d)
  \/ UpdLook \/ UpdReport(TRUE) \/ UpdConflict
  \/ VerifyLocalArtifact \/ PublishArtifact \/ BundleVerified

-----------------------------------------------------------------------------
UpdTypeOK ==
  /\ backend \in [Deps -> States \cup {"absent"}]
  /\ upd.dep \in Deps \cup {NoDep}
  /\ upd.artifact \in Deps \cup {NoDep}
  /\ files \subseteq Deps
  /\ nextId \in 1..MaxIds + 1
  /\ urun.step \in {"idle", "look", "report", "fetch", "download", "verified"}

(***************************************************************************)
(* What the updater has reported as verified is there for the controller:  *)
(* as long as the deployment is the bound one and waits to be staged, its  *)
(* bundle is published and state.json names it, whatever crash came before.*)
(***************************************************************************)
VerifiedArtifactIsThere ==
  \A d \in Deps :
    backend[d] = "verified" /\ upd.dep = d => d \in files /\ upd.artifact = d

(***************************************************************************)
(* An event that waits for its acknowledgement can always be delivered     *)
(* while its deployment is active: the backend either has it already,      *)
(* under this id, or is in the state it starts from.  A retry after a lost *)
(* answer never ends in a conflict that would stop the updater for good.   *)
(***************************************************************************)
PendingIsDeliverable ==
  LET p == upd.pending IN
  p # NoEvent /\ IsActive(upd.dep) => Accepts(upd.dep, p.event, p.id)
=============================================================================
