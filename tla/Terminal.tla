------------------------------ MODULE Terminal ------------------------------
(***************************************************************************)
(* Terminal sessions of one client: browsers, the backend that passes on   *)
(* (routers/terminal.py, terminal_v2.py), the agent with its one link      *)
(* (terminal_agent.py) and the brokers that hold the shells                *)
(* (root_terminal_broker.py, standard_terminal_broker.py).                 *)
(*                                                                         *)
(* A session has a row in the database, an entry among the sessions of the *)
(* backend, and a shell; they learn of each other's end by messages over   *)
(* the link and by reports over HTTP, which overtake one another.          *)
(***************************************************************************)
EXTENDS Naturals, Sequences, FiniteSets

CONSTANTS
  Browsers,
  MaxFailures,  \* wrong passwords until a browser is sent away (5)
  MaxSessions,  \* bound on sessions
  MaxConns      \* bound on connections whose handlers run at once

ASSUME TerminalAssumption == {MaxFailures, MaxSessions, MaxConns} \subseteq Nat

VARIABLES
  trusted,  \* whether the agent's credential is valid
  login,    \* browsers whose login is still that of an active superadministrator
  ticket,   \* browsers with a ticket that was not used
  sock,     \* the open browser sockets, and the session each believes to have
  rows,     \* the rows of terminal_session, by session
  v2,       \* the sessions the backend passes on
  current,  \* the connection that counts as the agent's, 0 for none
  handlers, \* the connections whose handler has not ended
  link,     \* the connection the agent has, 0 for none
  net,      \* messages on their way to the agent over that link
  up,       \* ends of shells on their way from the agent
  agent,    \* the sessions the agent has a broker connection for
  pty,      \* the state of each session's shell
  replay,   \* the grants the root broker has accepted
  events,   \* reports of the agent that are in progress
  over      \* sessions past their expiry

tvars == <<trusted, login, ticket, sock, rows, v2, current, handlers, link, net, up,
           agent, pty, replay, events, over>>
hostvars == <<agent, pty, replay>>

Closed == [open |-> FALSE, session |-> 0, closing |-> FALSE, failures |-> 0]

TermInit ==
  /\ trusted = TRUE
  /\ login = Browsers /\ ticket = {}
  /\ sock = [b \in Browsers |-> Closed]
  /\ rows = <<>> /\ v2 = {}
  /\ current = 0 /\ handlers = {} /\ link = 0
  /\ net = <<>> /\ up = {}
  /\ agent = {} /\ pty = <<>> /\ replay = {}
  /\ events = {} /\ over = {}

Alive == {"authorized", "connected"}

\* A message to the agent; on a connection that the agent has left it is lost.
Sent(type, s) == IF current # 0 /\ current = link THEN Append(net, [type |-> type, s |-> s]) ELSE net

-----------------------------------------------------------------------------
(***************************************************************************)
(* Browsers.                                                               *)
(***************************************************************************)
IssueTicket(b) ==
  /\ b \in login /\ b \notin ticket /\ ~sock[b].open
  /\ ticket' = ticket \cup {b}
  /\ UNCHANGED <<trusted, login, sock, rows, v2, current, handlers, link, net, up, hostvars, events, over>>

\* terminal_browser_ws up to its loop; a ticket is used up also when refused.
Connect(b) ==
  /\ b \in ticket
  /\ ticket' = ticket \ {b}
  /\ sock' = [sock EXCEPT ![b] = IF b \in login THEN [Closed EXCEPT !.open = TRUE] ELSE Closed]
  /\ UNCHANGED <<trusted, login, rows, v2, current, handlers, link, net, up, hostvars, events, over>>

NewSession(b, root) ==
  [browser |-> b, status |-> "authorized", root |-> root,
   grant |-> IF root THEN "issued" ELSE "none"]

\* mark_browser_terminal_closed
BrowserClosed(row) ==
  [row EXCEPT !.status = IF @ \in Alive THEN "revoked" ELSE @,
              !.grant = IF @ = "issued" THEN "revoked" ELSE @]

\* "open", with the step-up confirmed when root is asked for.  The row is
\* committed before the message is sent; when that fails it is closed again.
Open(b, root) ==
  LET s == Len(rows) + 1 IN
  /\ sock[b].open /\ sock[b].session = 0
  /\ b \in login
  /\ current # 0 /\ trusted
  /\ s <= MaxSessions
  /\ pty' = Append(pty, "none")
  /\ \/ /\ rows' = Append(rows, NewSession(b, root))
        /\ v2' = v2 \cup {s}
        /\ sock' = [sock EXCEPT ![b] = [Closed EXCEPT !.open = TRUE, !.session = s]]
        /\ net' = Sent("start", s)
     \/ /\ current # link
        /\ rows' = Append(rows, BrowserClosed(NewSession(b, root)))
        /\ UNCHANGED <<v2, sock, net>>
  /\ UNCHANGED <<trusted, login, ticket, current, handlers, link, up, agent, replay, events, over>>

\* verify_admin_terminal_step_up refuses the password.
StepUpFails(b) ==
  /\ sock[b].open /\ sock[b].session = 0
  /\ b \in login
  /\ sock[b].failures + 1 < MaxFailures
  /\ sock' = [sock EXCEPT ![b].failures = @ + 1]
  /\ UNCHANGED <<trusted, login, ticket, rows, v2, current, handlers, link, net, up, hostvars, events, over>>

CloseShell(b) ==
  /\ sock[b].open /\ sock[b].session # 0 /\ ~sock[b].closing
  /\ current # 0
  /\ sock' = [sock EXCEPT ![b].closing = TRUE]
  /\ net' = Sent("close", sock[b].session)
  /\ UNCHANGED <<trusted, login, ticket, rows, v2, current, handlers, link, up, hostvars, events, over>>

\* The end of terminal_browser_ws.
BrowserGone(b) ==
  LET s == sock[b].session IN
  /\ sock[b].open
  /\ sock' = [sock EXCEPT ![b] = Closed]
  /\ v2' = v2 \ {s}
  /\ net' = IF s # 0 /\ ~sock[b].closing THEN Sent("close", s) ELSE net
  /\ rows' = [r \in DOMAIN rows |-> IF r = s THEN BrowserClosed(rows[r]) ELSE rows[r]]
  /\ UNCHANGED <<trusted, login, ticket, current, handlers, link, up, hostvars, events, over>>

\* _current_terminal_superadmin at the next check, at the latest 15 seconds on.
RecheckFails(b) == b \notin login /\ BrowserGone(b)

LastStepUpFails(b) == sock[b].failures + 1 = MaxFailures /\ BrowserGone(b)

LoginEnds(b) ==
  /\ b \in login
  /\ login' = login \ {b}
  /\ UNCHANGED <<trusted, ticket, sock, rows, v2, current, handlers, link, net, up, hostvars, events, over>>

-----------------------------------------------------------------------------
(***************************************************************************)
(* The agent's connections.  A new one takes the place of the old one,     *)
(* whose handler ends some time later.                                     *)
(***************************************************************************)
AgentConnects(c) ==
  /\ link = 0 /\ trusted
  /\ c \notin handlers \cup {current}
  /\ link' = c /\ current' = c /\ handlers' = handlers \cup {c}
  /\ net' = <<>>
  /\ UNCHANGED <<trusted, login, ticket, sock, rows, v2, up, hostvars, events, over>>

\* mark_terminal_agent_disconnected
AgentLeft(row) == [row EXCEPT !.status = IF @ \in Alive THEN "disconnected" ELSE @]

\* The end of terminal_domain_agent_ws: every session of the client ends,
\* whichever connection it was started over.
HandlerEnds(c) ==
  /\ c \in handlers /\ c # link
  /\ handlers' = handlers \ {c}
  /\ current' = IF current = c THEN 0 ELSE current
  /\ v2' = {}
  /\ rows' = [r \in DOMAIN rows |-> IF r \in v2 THEN AgentLeft(rows[r]) ELSE rows[r]]
  /\ sock' = [b \in Browsers |-> IF sock[b].session \in v2 THEN [sock[b] EXCEPT !.session = 0] ELSE sock[b]]
  /\ up' = {m \in up : m.conn # c}
  /\ UNCHANGED <<trusted, login, ticket, link, net, hostvars, events, over>>

\* The agent loses its link, or the backend closes it: _close_all.
LinkLost ==
  /\ link # 0
  /\ link' = 0
  /\ net' = <<>>
  /\ agent' = {}
  /\ pty' = [s \in DOMAIN pty |-> IF s \in agent THEN "ended" ELSE pty[s]]
  /\ UNCHANGED <<trusted, login, ticket, sock, rows, v2, current, handlers, up, replay, events, over>>

\* _terminal_agent_connection_valid at the next check of the connection.
AgentRecheckFails == ~trusted /\ LinkLost

CredentialRevoked ==
  /\ trusted
  /\ trusted' = FALSE
  /\ UNCHANGED <<login, ticket, sock, rows, v2, current, handlers, link, net, up, hostvars, events, over>>

\* A poll of the HTTPS relay takes the messages out before its answer is lost.
MessageLost ==
  /\ net # <<>>
  /\ net' = Tail(net)
  /\ UNCHANGED <<trusted, login, ticket, sock, rows, v2, current, handlers, link, up, hostvars, events, over>>

-----------------------------------------------------------------------------
(***************************************************************************)
(* The agent and the brokers.                                              *)
(***************************************************************************)
Report(s, types) == events' = events \cup [s : {s}, type : types]

\* What the brokers accept: time left, and for root an unused grant.
Accepts(s) == s \notin over /\ (rows[s].root => s \notin replay)

Receive(type) ==
  /\ net # <<>> /\ Head(net).type = type
  /\ net' = Tail(net)
  /\ UNCHANGED <<trusted, login, ticket, sock, rows, v2, current, handlers, link, up, over>>

StartShell ==
  LET s == Head(net).s IN
  /\ Receive("start")
  /\ Accepts(s)
  /\ agent' = agent \cup {s}
  /\ pty' = [pty EXCEPT ![s] = "running"]
  /\ replay' = IF rows[s].root THEN replay \cup {s} ELSE replay
  /\ Report(s, IF rows[s].root THEN {"root_grant_consumed", "pty_started"} ELSE {"pty_started"})

StartRefused ==
  LET s == Head(net).s IN
  /\ Receive("start")
  /\ ~Accepts(s)
  /\ Report(s, {"broker_rejected"})
  /\ UNCHANGED hostvars

\* BrokerProxy.close: the shell ends, and nothing is reported.
StopShell ==
  LET s == Head(net).s IN
  /\ Receive("close")
  /\ agent' = agent \ {s}
  /\ pty' = [pty EXCEPT ![s] = IF s \in agent THEN "ended" ELSE @]
  /\ UNCHANGED <<replay, events>>

\* The shell ends and the broker says so; BrokerProxy._read_loop reports it.
Ends(s, types) ==
  /\ pty[s] = "running"
  /\ pty' = [pty EXCEPT ![s] = "ended"]
  /\ agent' = agent \ {s}
  /\ Report(s, types)
  /\ up' = IF link # 0 THEN up \cup {[conn |-> link, s |-> s]} ELSE up
  /\ UNCHANGED <<trusted, login, ticket, sock, rows, v2, current, handlers, link, net, replay, over>>

ShellExits(s) == Ends(s, {"pty_exited"})

\* Without its deadline a shell would live as long as the broker.
Mut_DeadlinePasses(s) == FALSE /\ Ends(s, {"timeout", "pty_exited"})

\* The broker's own deadline.
DeadlinePasses(s) == s \in over /\ Ends(s, {"timeout", "pty_exited"})

Expires(s) ==
  /\ s \notin over
  /\ over' = over \cup {s}
  /\ UNCHANGED <<trusted, login, ticket, sock, rows, v2, current, handlers, link, net, up, hostvars, events>>

\* The handler of a connection passes on "exit".
ExitArrives(m) ==
  /\ m \in up /\ m.conn \in handlers
  /\ up' = up \ {m}
  /\ v2' = v2 \ {m.s}
  /\ sock' = [b \in Browsers |->
       IF m.s \in v2 /\ sock[b].session = m.s THEN [sock[b] EXCEPT !.session = 0] ELSE sock[b]]
  /\ UNCHANGED <<trusted, login, ticket, rows, current, handlers, link, net, hostvars, events, over>>

-----------------------------------------------------------------------------
(***************************************************************************)
(* record_terminal_agent_event                                             *)
(***************************************************************************)
StatusAfter(status, type) ==
  CASE type = "pty_started" -> IF status = "authorized" THEN "connected" ELSE status
    [] type = "pty_exited" -> IF status \in {"revoked", "expired", "failed"} THEN status ELSE "disconnected"
    [] type = "timeout" -> IF status = "revoked" THEN status ELSE "expired"
    [] type = "broker_rejected" -> IF status \in {"revoked", "expired"} THEN status ELSE "failed"
    [] OTHER -> status

\* A report that comes late starts the session again.
Mut_Recorded(row, type, late) ==
  LET before == IF late /\ row.status \in Alive THEN "expired" ELSE row.status IN
  [row EXCEPT !.status = IF type = "pty_started" THEN "connected" ELSE StatusAfter(before, type)]

Recorded(row, type, late) ==
  LET before == IF late /\ row.status \in Alive THEN "expired" ELSE row.status IN
  [row EXCEPT !.status = StatusAfter(before, type),
              !.grant = IF type = "root_grant_consumed" /\ row.root THEN "consumed" ELSE @]

EventArrives(e) ==
  /\ e \in events /\ trusted
  /\ rows' = [rows EXCEPT ![e.s] = Recorded(@, e.type, e.s \in over)]
  /\ events' = events \ {e}
  /\ UNCHANGED <<trusted, login, ticket, sock, v2, current, handlers, link, net, up, hostvars, over>>

\* A report fails; when it is one of the start, the agent closes the shell.
EventFails(e) ==
  /\ e \in events
  /\ LET starting == e.type \in {"pty_started", "root_grant_consumed"} /\ e.s \in agent IN
       /\ agent' = IF starting THEN agent \ {e.s} ELSE agent
       /\ pty' = IF starting THEN [pty EXCEPT ![e.s] = "ended"] ELSE pty
       /\ events' = (events \ {e}) \cup (IF starting THEN {[s |-> e.s, type |-> "broker_rejected"]} ELSE {})
  /\ UNCHANGED <<trusted, login, ticket, sock, rows, v2, current, handlers, link, net, up, replay, over>>

-----------------------------------------------------------------------------
TermNext ==
  \/ \E b \in Browsers :
       \/ IssueTicket(b) \/ Connect(b) \/ CloseShell(b) \/ BrowserGone(b) \/ RecheckFails(b)
       \/ LoginEnds(b) \/ StepUpFails(b) \/ LastStepUpFails(b)
       \/ \E root \in BOOLEAN : Open(b, root)
  \/ \E c \in 1..MaxConns : AgentConnects(c) \/ HandlerEnds(c)
  \/ CredentialRevoked \/ AgentRecheckFails \/ MessageLost
  \/ LinkLost \/ StartShell \/ StartRefused \/ StopShell
  \/ \E s \in DOMAIN rows : ShellExits(s) \/ DeadlinePasses(s) \/ Expires(s)
  \/ \E m \in up : ExitArrives(m)
  \/ \E e \in events : EventArrives(e) \/ EventFails(e)

\* The backend checks logins on a timer, time passes, and a broker watches its
\* deadline; nothing is assumed of agents, links or browsers.
TermFairness ==
  /\ \A b \in Browsers : WF_tvars(RecheckFails(b))
  /\ \A s \in 1..MaxSessions :
       WF_tvars(s \in DOMAIN rows /\ Expires(s)) /\ WF_tvars(s \in DOMAIN rows /\ DeadlinePasses(s))

TermSpec == TermInit /\ [][TermNext]_tvars

-----------------------------------------------------------------------------
\* Every variable has its type; a session the backend passes on has one browser.
TermTypeOK ==
  /\ login \subseteq Browsers /\ ticket \subseteq Browsers
  /\ \A b \in Browsers : sock[b].session \in 0..Len(rows)
  /\ \A s \in DOMAIN rows :
       /\ rows[s].status \in Alive \cup {"disconnected", "failed", "expired", "revoked"}
       /\ rows[s].grant \in {"none", "issued", "consumed", "revoked"}
  /\ v2 \subseteq DOMAIN rows
  /\ \A s \in v2 : Cardinality({b \in Browsers : sock[b].session = s}) = 1
  /\ agent \subseteq {s \in DOMAIN pty : pty[s] = "running"}

Rank(status) ==
  CHOOSE n \in 1..6 :
    <<"authorized", "connected", "disconnected", "failed", "expired", "revoked">>[n] = status

(***************************************************************************)
(* Whatever order reports, the end of a connection and the browser's end   *)
(* reach the database in, the status of a session only moves towards the   *)
(* graver end: a late report never brings an ended session back, and what  *)
(* was revoked stays revoked.                                              *)
(***************************************************************************)
StatusOnlyRises ==
  [][\A s \in DOMAIN rows : Rank(rows'[s].status) >= Rank(rows[s].status)]_tvars

(***************************************************************************)
(* When the login behind a browser ends, its shells end, also those the    *)
(* backend has lost sight of because the handler of an old connection      *)
(* cleared the sessions of the new one.                                    *)
(***************************************************************************)
ShellEndsWithLogin ==
  \A b \in Browsers :
    (b \notin login) ~> \A s \in DOMAIN rows : rows[s].browser = b => pty[s] # "running"
=============================================================================
