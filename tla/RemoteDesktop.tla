---------------------------- MODULE RemoteDesktop ----------------------------
(***************************************************************************)
(* Remote Desktop sessions of one client: the browsers' sockets, the       *)
(* control channel of the agent and the backend between them               *)
(* (routers/remote_desktop_v2.py, remote_desktop_v2.py), the agent with    *)
(* its streams (remote_desktop_agent.py) and the capture worker of the     *)
(* kiosk session (remote_desktop_capture.py, the Mutter worker).           *)
(*                                                                         *)
(* Every browser socket is a session of its own.  The agent may reconnect  *)
(* at any time; the backend then has two handlers for a while, and tells   *)
(* the new connection of the sessions that are open, one after another.    *)
(***************************************************************************)
EXTENDS Naturals, Sequences, FiniteSets

CONSTANTS
  RdSessions,   \* bound: the sessions
  RdDriven,     \* bound: what the browser of each session asks for
  RdMaxConns,   \* bound on control channels
  RdMaxDown     \* bound on messages on their way to the agent

ASSUME RdAssumption ==
  /\ {RdMaxConns, RdMaxDown} \subseteq Nat
  /\ RdDriven \in [RdSessions -> SUBSET {"start", "stop", "frame"}]

VARIABLES
  rdTrusted,  \* whether the client is approved and its credential valid
  rdRow,      \* the status of each remote_desktop_session
  rdHandled,  \* sessions whose socket handler runs
  rdBrowsers, \* BROWSERS
  rdControl,  \* the registered channel of CONTROL_AGENTS, 0 for none
  rdChannels, \* the channels whose handler runs
  rdHello,    \* per channel: the sessions it must still be told of
  rdConns,    \* the number of channels there have been
  rdLink,     \* the agent's channel, 0 for none
  rdDown,     \* messages on their way over that channel
  rdReady,    \* agent_ready on its way: <<channel, session>>
  rdOpen,     \* control_sessions of the agent
  rdStream,   \* what the stream of each session does
  rdEvents,   \* events on their way over HTTP: <<session, type>>
  rdCapturing \* whether the Mutter worker records the screen

rdvars == <<rdTrusted, rdRow, rdHandled, rdBrowsers, rdControl, rdChannels, rdHello,
            rdConns, rdLink, rdDown, rdReady, rdOpen, rdStream, rdEvents, rdCapturing>>
rdagent == <<rdOpen, rdStream, rdEvents, rdCapturing>>

RdLive == {"authorized", "connected"}
RdStatuses == {"none", "disconnected", "failed", "expired", "revoked"} \cup RdLive
RdTypes == {"start", "stop", "frame", "open", "close"}

RdInit ==
  /\ rdTrusted = TRUE
  /\ rdRow = [s \in RdSessions |-> "none"]
  /\ rdHandled = {} /\ rdBrowsers = {}
  /\ rdControl = 0 /\ rdChannels = {} /\ rdConns = 0
  /\ rdHello = [c \in 1..RdMaxConns |-> {}]
  /\ rdLink = 0 /\ rdDown = <<>> /\ rdReady = {}
  /\ rdOpen = {} /\ rdStream = [s \in RdSessions |-> "none"]
  /\ rdEvents = {} /\ rdCapturing = FALSE

\* _send_agent: on a channel that the agent has left the message is lost.
RdSend(c, type, s) ==
  rdDown' = IF c # 0 /\ c = rdLink THEN Append(rdDown, <<type, s>>) ELSE rdDown

-----------------------------------------------------------------------------
(***************************************************************************)
(* Browsers.                                                               *)
(***************************************************************************)

\* remote_desktop_browser_ws up to its loop.  A dead channel makes the send
\* raise before the loop: then nobody will remove the session again.
RdConnect(s) ==
  /\ rdRow[s] = "none" /\ rdTrusted
  /\ rdRow' = [rdRow EXCEPT ![s] = "authorized"]
  /\ rdBrowsers' = rdBrowsers \cup {s}
  /\ RdSend(rdControl, "open", s)
  /\ \/ rdHandled' = rdHandled \cup {s}
     \/ rdControl # rdLink /\ rdControl # 0 /\ UNCHANGED rdHandled
  /\ UNCHANGED <<rdTrusted, rdControl, rdChannels, rdHello, rdConns, rdLink, rdReady, rdagent>>

\* _browser_control_message; mouse, keys, text and shouts change nothing here.
RdDrive(s, type) ==
  /\ s \in rdHandled
  /\ rdControl # 0 /\ Len(rdDown) < RdMaxDown
  /\ RdSend(rdControl, type, s)
  /\ UNCHANGED <<rdTrusted, rdRow, rdHandled, rdBrowsers, rdControl, rdChannels, rdHello,
                 rdConns, rdLink, rdReady, rdagent>>

\* close_remote_desktop_session
RdClosed(status) == IF status \in {"expired", "revoked", "failed"} THEN status ELSE "disconnected"

\* The end of remote_desktop_browser_ws.
RdLeaves(s, status) ==
  /\ s \in rdHandled
  /\ rdHandled' = rdHandled \ {s}
  /\ rdBrowsers' = rdBrowsers \ {s}
  /\ RdSend(rdControl, "close", s)
  /\ rdRow' = [rdRow EXCEPT ![s] = RdClosed(status)]
  /\ UNCHANGED <<rdTrusted, rdControl, rdChannels, rdHello, rdConns, rdLink, rdReady, rdagent>>

\* The browser goes away, a message of its meets a channel that is gone, or
\* _remote_desktop_browser_auth_state finds, within 15 seconds, that its login
\* has ended, or its client or row was revoked.
RdBrowserGone(s) == RdLeaves(s, rdRow[s])

\* The check finds the session past its expiry.
RdExpires(s) == rdTrusted /\ RdLeaves(s, "expired")

\* revoke_client_authority ends the sessions that are not over.
RdDecommission ==
  /\ rdTrusted
  /\ rdTrusted' = FALSE
  /\ rdRow' = [s \in RdSessions |-> IF rdRow[s] \in RdLive THEN "revoked" ELSE rdRow[s]]
  /\ UNCHANGED <<rdHandled, rdBrowsers, rdControl, rdChannels, rdHello,
                 rdConns, rdLink, rdDown, rdReady, rdagent>>

-----------------------------------------------------------------------------
(***************************************************************************)
(* Control channels of the agent.                                          *)
(***************************************************************************)

\* remote_desktop_agent_control_ws: authentication and _register_agent_channel
\* up to its loop over the browsers.
RdRegister ==
  LET c == rdConns + 1 IN
  /\ rdLink = 0 /\ rdTrusted /\ rdConns < RdMaxConns
  /\ rdConns' = c /\ rdLink' = c /\ rdControl' = c
  /\ rdChannels' = rdChannels \cup {c}
  /\ rdHello' = [rdHello EXCEPT ![c] = rdBrowsers]
  /\ UNCHANGED <<rdTrusted, rdRow, rdHandled, rdBrowsers, rdDown, rdReady, rdagent>>

\* The loop tells the channel of one browser more, and stops at a dead channel.
RdTellOpen(c, s) ==
  /\ c \in rdChannels /\ s \in rdHello[c]
  /\ RdSend(c, "open", s)
  /\ rdHello' = [rdHello EXCEPT ![c] = IF c = rdLink THEN @ \ {s} ELSE {}]
  /\ UNCHANGED <<rdTrusted, rdRow, rdHandled, rdBrowsers, rdControl, rdChannels,
                 rdConns, rdLink, rdReady, rdagent>>

\* The status that record_remote_desktop_event gives a row.
RdRecorded(status, type) ==
  CASE type \in {"agent_ready", "capture_started"} /\ status = "authorized" -> "connected"
    [] type = "error" -> "failed"
    [] OTHER -> status

\* _handle_control_agent_message; the other types only reach the browser.
RdAgentReady(c, s) ==
  /\ <<c, s>> \in rdReady /\ c \in rdChannels /\ rdHello[c] = {}
  /\ rdReady' = rdReady \ {<<c, s>>}
  /\ rdRow' = [rdRow EXCEPT ![s] = IF s \in rdBrowsers THEN RdRecorded(@, "agent_ready") ELSE @]
  /\ UNCHANGED <<rdTrusted, rdHandled, rdBrowsers, rdControl, rdChannels, rdHello,
                 rdConns, rdLink, rdDown, rdagent>>

\* The handler of a channel that was replaced, lost, or whose credential
\* _remote_desktop_agent_channel_valid refuses ends: _unregister_agent_channel.
RdChannelEnds(c) ==
  /\ c \in rdChannels
  /\ c # rdLink \/ ~rdTrusted
  /\ rdChannels' = rdChannels \ {c}
  /\ rdControl' = IF rdControl = c THEN 0 ELSE rdControl
  /\ rdHello' = [rdHello EXCEPT ![c] = {}]
  /\ rdReady' = {m \in rdReady : m[1] # c}
  /\ UNCHANGED <<rdTrusted, rdRow, rdHandled, rdBrowsers, rdConns, rdLink, rdDown, rdagent>>

-----------------------------------------------------------------------------
(***************************************************************************)
(* The agent.                                                              *)
(***************************************************************************)
RdStreaming(streams) == {s \in RdSessions : streams[s] # "none"}

\* _stop_capture_if_idle
RdStopIfIdle(streams) ==
  rdCapturing /\ RdStreaming(streams) # {}

\* _stop_stream waits until the cancelled task has ended.
RdStopped(s) ==
  /\ rdStream' = [rdStream EXCEPT ![s] = "none"]
  /\ rdCapturing' = RdStopIfIdle([rdStream EXCEPT ![s] = "none"])

\* The finally of _channel, whatever the channel was lost by.
RdChannelLost ==
  /\ rdLink # 0
  /\ rdLink' = 0 /\ rdDown' = <<>>
  /\ rdOpen' = {}
  /\ rdStream' = [s \in RdSessions |-> "none"]
  /\ rdCapturing' = FALSE
  /\ UNCHANGED <<rdTrusted, rdRow, rdHandled, rdBrowsers, rdControl, rdChannels, rdHello,
                 rdConns, rdReady, rdEvents>>

RdReceive(type, s) ==
  /\ rdDown # <<>> /\ Head(rdDown) = <<type, s>>
  /\ rdDown' = Tail(rdDown)
  /\ UNCHANGED <<rdTrusted, rdRow, rdHandled, rdBrowsers, rdControl, rdChannels, rdHello,
                 rdConns, rdLink>>

RdOpened(s) ==
  /\ RdReceive("open", s)
  /\ rdOpen' = rdOpen \cup {s}
  /\ rdReady' = rdReady \cup {<<rdLink, s>>}
  /\ UNCHANGED <<rdStream, rdEvents, rdCapturing>>

\* _handle_control answers an error for a session that is not open.
RdRefused(type, s) ==
  /\ s \notin rdOpen /\ type # "open"
  /\ RdReceive(type, s)
  /\ UNCHANGED <<rdReady, rdagent>>

Mut_RdSessionClosed(s) ==
  /\ s \in rdOpen
  /\ RdReceive("close", s)
  /\ rdOpen' = rdOpen \ {s}
  /\ UNCHANGED <<rdReady, rdEvents, rdStream, rdCapturing>>

\* session_close, with _close_mutter_if_idle.
RdSessionClosed(s) ==
  /\ s \in rdOpen
  /\ RdReceive("close", s)
  /\ rdOpen' = rdOpen \ {s}
  /\ rdStream' = [rdStream EXCEPT ![s] = "none"]
  /\ rdCapturing' = (rdOpen # {s} /\ RdStopIfIdle(rdStream'))
  /\ UNCHANGED <<rdReady, rdEvents>>

\* _start_stream: a task that has not ended, also one that is failing, only
\* gets the new options.
RdStart(s) ==
  /\ s \in rdOpen
  /\ RdReceive("start", s)
  /\ IF rdStream[s] = "none"
       THEN /\ rdStream' = [rdStream EXCEPT ![s] = "starting"]
            /\ rdEvents' = rdEvents \cup {<<s, "capture_started">>}
       ELSE UNCHANGED <<rdStream, rdEvents>>
  /\ UNCHANGED <<rdReady, rdOpen, rdCapturing>>

RdStop(s) ==
  /\ s \in rdOpen
  /\ RdReceive("stop", s)
  /\ RdStopped(s)
  /\ UNCHANGED <<rdReady, rdOpen, rdEvents>>

\* request_frame makes the worker record also without a stream; a capture that
\* fails for good leaves it closed (Worker.capture).
RdFrame(s) ==
  /\ s \in rdOpen
  /\ RdReceive("frame", s)
  /\ rdCapturing' \in BOOLEAN
  /\ UNCHANGED <<rdReady, rdOpen, rdStream, rdEvents>>

\* One turn of _stream_loop.
RdCapture(s) ==
  /\ rdStream[s] = "running"
  /\ rdCapturing' = TRUE
  /\ UNCHANGED <<rdTrusted, rdRow, rdHandled, rdBrowsers, rdControl, rdChannels, rdHello,
                 rdConns, rdLink, rdDown, rdReady, rdOpen, rdStream, rdEvents>>

\* A capture fails for good: the worker closed its session (Worker.capture).
RdCaptureFails(s) ==
  /\ rdStream[s] = "running"
  /\ rdStream' = [rdStream EXCEPT ![s] = "failing"]
  /\ rdEvents' = rdEvents \cup {<<s, "error">>}
  /\ rdCapturing' = FALSE
  /\ UNCHANGED <<rdTrusted, rdRow, rdHandled, rdBrowsers, rdControl, rdChannels, rdHello,
                 rdConns, rdLink, rdDown, rdReady, rdOpen>>

\* The end of the call that the stream waits for.
RdCallEnds(s, type, ok) ==
  CASE type = "capture_started" /\ rdStream[s] = "starting" ->
         /\ rdStream' = [rdStream EXCEPT ![s] = IF ok THEN "running" ELSE "failing"]
         /\ rdEvents' = (rdEvents \ {<<s, type>>}) \cup (IF ok THEN {} ELSE {<<s, "error">>})
         /\ UNCHANGED rdCapturing
    [] type = "error" /\ rdStream[s] = "failing" ->
         /\ RdStopped(s)
         /\ rdEvents' = rdEvents \ {<<s, type>>}
    [] OTHER -> rdEvents' = rdEvents \ {<<s, type>>} /\ UNCHANGED <<rdStream, rdCapturing>>

\* remote_desktop_agent_event; the thread that posts outlives a cancelled task.
RdEvent(s, type) ==
  /\ <<s, type>> \in rdEvents
  /\ rdTrusted
  /\ rdRow' = [rdRow EXCEPT ![s] = RdRecorded(@, type)]
  /\ RdCallEnds(s, type, TRUE)
  /\ UNCHANGED <<rdTrusted, rdHandled, rdBrowsers, rdControl, rdChannels, rdHello,
                 rdConns, rdLink, rdDown, rdReady, rdOpen>>

RdEventFails(s, type) ==
  /\ <<s, type>> \in rdEvents
  /\ RdCallEnds(s, type, FALSE)
  /\ UNCHANGED <<rdTrusted, rdRow, rdHandled, rdBrowsers, rdControl, rdChannels, rdHello,
                 rdConns, rdLink, rdDown, rdReady, rdOpen>>

-----------------------------------------------------------------------------
RdSessionStep(s) ==
  \/ RdConnect(s) \/ RdBrowserGone(s) \/ RdExpires(s)
  \/ \E type \in RdDriven[s] : RdDrive(s, type)
  \/ \E c \in rdChannels : RdTellOpen(c, s) \/ RdAgentReady(c, s)

RdHandle(s) ==
  \/ RdOpened(s) \/ RdSessionClosed(s) \/ RdStart(s) \/ RdStop(s) \/ RdFrame(s)
  \/ \E type \in RdTypes : RdRefused(type, s)

RdStreamStep(s) ==
  \/ RdCapture(s) \/ RdCaptureFails(s)
  \/ \E type \in {"capture_started", "error"} : RdEvent(s, type) \/ RdEventFails(s, type)

RdNext ==
  \/ RdDecommission \/ RdRegister \/ RdChannelLost
  \/ \E c \in rdChannels : RdChannelEnds(c)
  \/ \E s \in RdSessions : RdSessionStep(s) \/ RdHandle(s) \/ RdStreamStep(s)

\* The agent reads what arrives and notices, by its pings, that its channel is
\* gone; the registration loop goes on.
RdFairness ==
  /\ \A s \in RdSessions : WF_rdvars(RdHandle(s))
  /\ \A s \in RdSessions : WF_rdvars(\E c \in rdChannels : RdTellOpen(c, s))
  /\ WF_rdvars(rdLink \notin rdChannels /\ RdChannelLost)

RdSpec == RdInit /\ [][RdNext]_rdvars

-----------------------------------------------------------------------------
(***************************************************************************)
(* Properties.                                                             *)
(***************************************************************************)

\* The types, and that only an open session has a stream: session_close ends
\* the stream before it forgets the session, and the loss of the channel ends
\* all of them.
RdTypeOK ==
  /\ rdTrusted \in BOOLEAN /\ rdCapturing \in BOOLEAN
  /\ rdRow \in [RdSessions -> RdStatuses]
  /\ rdHandled \subseteq rdBrowsers /\ rdBrowsers \subseteq RdSessions
  /\ rdControl \in rdChannels \cup {0} /\ rdChannels \subseteq 1..RdMaxConns
  /\ rdHello \in [1..RdMaxConns -> SUBSET RdSessions]
  /\ rdConns \in 0..RdMaxConns /\ rdLink \in 0..RdMaxConns
  /\ rdDown \in Seq(RdTypes \X RdSessions)
  /\ rdReady \subseteq (1..RdMaxConns) \X RdSessions
  /\ rdOpen \subseteq RdSessions
  /\ rdStream \in [RdSessions -> {"none", "starting", "running", "failing"}]
  /\ rdEvents \subseteq RdSessions \X {"capture_started", "error"}
  /\ RdStreaming(rdStream) \subseteq rdOpen
  /\ rdLink = 0 => rdOpen = {} /\ ~rdCapturing

\* Once no browser is there, the capture of the kiosk's screen ends, whichever
\* of the channels the close took or was lost on.
ScreenIsReleased == (rdBrowsers = {}) ~> (~rdCapturing \/ rdBrowsers # {})

\* A session that is over is never connected again, however late the agent's
\* reports are.
RdEndIsFinal ==
  [][\A s \in RdSessions : rdRow[s] \notin RdLive \cup {"none"} => rdRow'[s] \notin RdLive]_rdvars
=============================================================================
