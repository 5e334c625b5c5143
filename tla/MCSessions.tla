------------------------------ MODULE MCSessions ------------------------------
(***************************************************************************)
(* The interactive services of a client: Terminal, Remote Desktop with its *)
(* file channel, the capture worker on the client, and the HTTPS relay     *)
(* that stands in for a WebSocket.  They share no state, so they are       *)
(* explored one at a time: focus says which.                               *)
(***************************************************************************)
EXTENDS HumanSessions, RemoteDesktopFiles, CaptureWorker, HttpRelay

CONSTANTS s1, s2
VARIABLE focus

Foci == {"terminal", "desktop", "replaced", "files", "capture", "relay"}
MCDriven == [s \in RdSessions |-> IF s = s1 THEN {"start", "stop"} ELSE {"frame"}]

Init ==
  /\ TermInit /\ RdInit /\ FiInit /\ CwInit /\ HrInit
  /\ focus \in Foci

TermIdle == UNCHANGED tvars
RdIdle == UNCHANGED rdvars
FiIdle == UNCHANGED fivars
CwIdle == UNCHANGED cwvars
HrIdle == UNCHANGED hrvars

\* Two sessions on one control channel, or one when a channel replaces another.
OneChannel == rdConns <= 1
OneDesktop == rdRow[s2] = "none"

Next ==
  /\ \/ focus = "terminal" /\ TermNext /\ RdIdle /\ FiIdle /\ CwIdle /\ HrIdle
     \/ focus = "desktop" /\ RdNext /\ OneChannel' /\ TermIdle /\ FiIdle /\ CwIdle /\ HrIdle
     \/ focus = "replaced" /\ RdNext /\ OneDesktop' /\ TermIdle /\ FiIdle /\ CwIdle /\ HrIdle
     \/ focus = "files" /\ FiNext /\ TermIdle /\ RdIdle /\ CwIdle /\ HrIdle
     \/ focus = "capture" /\ CwNext /\ TermIdle /\ RdIdle /\ FiIdle /\ HrIdle
     \/ focus = "relay" /\ HrNext /\ TermIdle /\ RdIdle /\ FiIdle /\ CwIdle
  /\ UNCHANGED focus

vars == <<tvars, rdvars, fivars, cwvars, hrvars, focus>>
FairSpec == Init /\ [][Next]_vars /\ TermFairness /\ RdFairness

\* Every variable of every service has its type.
SessionsTypeOK ==
  TermTypeOK /\ RdTypeOK /\ FiTypeOK /\ CwTypeOK /\ HrTypeOK
=============================================================================
