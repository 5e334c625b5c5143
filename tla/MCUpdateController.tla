------------------------- MODULE MCUpdateController -------------------------
(* A fresh host with release 1; two deployments of release 2.              *)
EXTENDS UpdateController

MCTarget == [d \in Deps |-> 2]
=============================================================================
