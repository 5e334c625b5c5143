-------------------------- MODULE DeploymentStates --------------------------
(***************************************************************************)
(* The states of a ClientFlow deployment and the events that move it       *)
(* (backend/service1/clientflow_deployments.py).                           *)
(***************************************************************************)
CancellableStates == {"authorized", "downloading", "verified", "staged"}
TerminalStates ==
  {"succeeded", "failed", "cancelled", "rolled_back", "recovery_failed"}
ActiveStates ==
  CancellableStates \cup {"activating", "health_check", "rolling_back"}
States == ActiveStates \cup TerminalStates

(***************************************************************************)
(* The states an event is accepted in, and the state it leads to.          *)
(* report_updater_event applies all of them but activation_started, which  *)
(* is the gate authorize_activation; an "observation" changes nothing.     *)
(***************************************************************************)
From ==
  [download_started     |-> {"authorized"},
   bundle_verified      |-> {"downloading"},
   staged               |-> {"verified"},
   activation_started   |-> {"staged"},
   health_check_started |-> {"activating"},
   succeeded            |-> {"health_check"},
   failed               |-> CancellableStates,
   rollback_started     |-> {"activating", "health_check"},
   rolled_back          |-> {"rolling_back"},
   recovery_failed      |-> {"activating", "health_check", "rolling_back"}]

To ==
  [download_started     |-> "downloading",
   bundle_verified      |-> "verified",
   staged               |-> "staged",
   activation_started   |-> "activating",
   health_check_started |-> "health_check",
   succeeded            |-> "succeeded",
   failed               |-> "failed",
   rollback_started     |-> "rolling_back",
   rolled_back          |-> "rolled_back",
   recovery_failed      |-> "recovery_failed"]

Events == DOMAIN From
=============================================================================
