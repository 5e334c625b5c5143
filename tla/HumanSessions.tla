---------------------------- MODULE HumanSessions ----------------------------
(***************************************************************************)
(* The sessions of people at a client, side by side: Terminal and Remote   *)
(* Desktop have rows of their own and share no state, but both are ended   *)
(* from the browser, by the agent's connection, by its reports and by the  *)
(* end of the client's authority.                                          *)
(***************************************************************************)
EXTENDS Terminal, RemoteDesktop

SessionsSpec == TermSpec /\ RdSpec

(***************************************************************************)
(* The end of a session is final: whatever reports come late, a Terminal   *)
(* session only moves towards the graver end, and a Remote Desktop session *)
(* that ended never lives again (record_terminal_agent_event,              *)
(* record_remote_desktop_event, close_remote_desktop_session).             *)
(***************************************************************************)
EndsAreFinal == StatusOnlyRises /\ RdEndIsFinal
=============================================================================
