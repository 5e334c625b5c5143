---------------------------- MODULE MCDeployment ----------------------------
(***************************************************************************)
(* Bounds for Deployment.  Two deployments, so that the second can follow  *)
(* a first that was cancelled by a stale read, with their threaded         *)
(* producers; a command with an async producer; two producers for the race.*)
(***************************************************************************)
EXTENDS Deployment, TLC

Symmetry ==
  Permutations(Deployments) \cup Permutations(Producers)
=============================================================================
