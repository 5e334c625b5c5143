------------------------------ MODULE MCBackend ------------------------------
(***************************************************************************)
(* Two parts of the backend that share nothing, one at a time: the jobs of *)
(* a client, with the bounds of MCDeployment, and the users' accounts.     *)
(***************************************************************************)
EXTENDS MCDeployment, Accounts

VARIABLE focus

all == <<vars, accvars, focus>>

MCInit ==
  /\ Init /\ AccInit
  /\ focus \in {"jobs", "accounts"}

MCNext ==
  \/ /\ focus = "jobs" /\ Next
     /\ UNCHANGED <<accvars, focus>>
  \/ /\ focus = "accounts" /\ AccNext
     /\ UNCHANGED <<vars, focus>>

MCSpec == MCInit /\ [][MCNext]_all
=============================================================================
