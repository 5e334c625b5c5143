---------------------------- MODULE RemoteCommand ----------------------------
(***************************************************************************)
(* What the system promises about a command it takes from a user: the      *)
(* operation happens at most once, the user is told one outcome, and a     *)
(* success only when there is reason for it.  An outcome that is no        *)
(* success promises nothing: the operation may have happened before it, or *)
(* may still happen after it.                                              *)
(***************************************************************************)
CONSTANTS
  Commands,
  Boundary  \* the commands that a later boot of the host proves done

VARIABLES
  outcome,  \* what the user is told of each command
  done,     \* the commands whose operation has happened
  crossed   \* the commands of Boundary that the host has rebooted under

vars == <<outcome, done, crossed>>

Init ==
  /\ outcome = [c \in Commands |-> "none"]
  /\ done = {}
  /\ crossed = {}

Request(c) ==
  /\ outcome[c] = "none"
  /\ outcome' = [outcome EXCEPT ![c] = "open"]
  /\ UNCHANGED <<done, crossed>>

\* Any number of open commands may be closed at once.
Close ==
  /\ outcome' \in [Commands -> {"none", "open", "succeeded", "unsuccessful"}]
  /\ \A c \in Commands :
       outcome'[c] # outcome[c] =>
         /\ outcome[c] = "open"
         /\ \/ outcome'[c] = "succeeded" /\ c \in done \cup crossed
            \/ outcome'[c] = "unsuccessful"
  /\ UNCHANGED <<done, crossed>>

Happen(c) ==
  /\ outcome[c] # "none"
  /\ c \notin done
  /\ done' = done \cup {c}
  /\ UNCHANGED <<outcome, crossed>>

Reboot ==
  /\ crossed' \in SUBSET Boundary
  /\ crossed \subseteq crossed'
  /\ UNCHANGED <<outcome, done>>

Next ==
  \/ \E c \in Commands : Request(c) \/ Happen(c)
  \/ Close
  \/ Reboot

Spec == Init /\ [][Next]_vars
=============================================================================
