------------------------------ MODULE HttpRelay ------------------------------
(***************************************************************************)
(* The HTTPS relays that stand in for WebSockets (http_ws_relay.py), with  *)
(* the endpoints of Terminal and Remote Desktop that use them, and the     *)
(* one-time tickets a browser opens a socket with (websocket_auth.py,      *)
(* terminal_websocket_auth.py).                                            *)
(*                                                                         *)
(* A relay is two bounded queues between HTTP calls and the handler of the *)
(* socket, which runs as a task.  All relays share one budget of bytes.    *)
(* A message counts as one byte here.                                      *)
(***************************************************************************)
EXTENDS Naturals, FiniteSets, FiniteSetsExt

CONSTANTS
  HrOwners,        \* who may open relays: a login session or a credential
  HrMaxRelays,     \* relays at a time (512)
  HrMaxPerOwner,   \* relays of one owner (8)
  HrDepth,         \* messages in a queue (64)
  HrBudget,        \* bytes queued in all (128 MiB)
  HrMaxOpened      \* bound on the relays ever opened

ASSUME HrAssumption ==
  {HrMaxRelays, HrMaxPerOwner, HrDepth, HrBudget, HrMaxOpened} \subseteq Nat

VARIABLES
  hrRelay,   \* the relays ever opened
  hrTotal,   \* _TOTAL_QUEUED_BYTES
  hrTicket,  \* the state of each owner's ticket
  hrValid    \* owners whose login session or credential is valid

hrvars == <<hrRelay, hrTotal, hrTicket, hrValid>>
HrIds == DOMAIN hrRelay
HrListed == {r \in HrIds : hrRelay[r].listed}

HrInit ==
  /\ hrRelay = [r \in {} |-> 0]
  /\ hrTotal = 0
  /\ hrTicket = [o \in HrOwners |-> "none"]
  /\ hrValid = HrOwners

-----------------------------------------------------------------------------
(***************************************************************************)
(* Tickets.                                                                *)
(***************************************************************************)
HrIssueTicket(o) ==
  /\ o \in hrValid /\ hrTicket[o] = "none"
  /\ hrTicket' = [hrTicket EXCEPT ![o] = "issued"]
  /\ UNCHANGED <<hrRelay, hrTotal, hrValid>>

HrTicketExpires(o) ==
  /\ hrTicket[o] = "issued"
  /\ hrTicket' = [hrTicket EXCEPT ![o] = "gone"]
  /\ UNCHANGED <<hrRelay, hrTotal, hrValid>>

\* Logout, a new password, a revoked credential.
HrLoginEnds(o) ==
  /\ o \in hrValid
  /\ hrValid' = hrValid \ {o}
  /\ UNCHANGED <<hrRelay, hrTotal, hrTicket>>

-----------------------------------------------------------------------------
(***************************************************************************)
(* Relays.                                                                 *)
(***************************************************************************)

\* _prune_locked: a relay that was closed more than 30 seconds ago, or idle
\* for 15 minutes, is forgotten with what it holds, and its handler cancelled.
HrHeld(rs) == MapThenSumSet(LAMBDA r : hrRelay[r].in + hrRelay[r].out, rs)
HrPruned(rs) ==
  [r \in HrIds |-> IF r \in rs
                   THEN [hrRelay[r] EXCEPT !.listed = FALSE, !.in = 0, !.out = 0,
                                           !.task = IF @ = "runs" THEN "cancelled" ELSE @]
                   ELSE hrRelay[r]]
HrReleased(total, n) == IF n > total THEN 0 ELSE total - n

HrPrune(rs) ==
  /\ rs # {} /\ rs \subseteq HrListed
  /\ hrRelay' = HrPruned(rs)
  /\ hrTotal' = HrReleased(hrTotal, HrHeld(rs))
  /\ UNCHANGED <<hrTicket, hrValid>>

\* create_relay; the endpoint has checked who asks.
HrOpen(o) ==
  LET r == Cardinality(HrIds) + 1 IN
  /\ o \in hrValid /\ r <= HrMaxOpened
  /\ Cardinality(HrListed) < HrMaxRelays
  /\ Cardinality({q \in HrListed : hrRelay[q].owner = o}) < HrMaxPerOwner
  /\ hrRelay' = [q \in HrIds \cup {r} |->
                   IF q = r THEN [owner |-> o, listed |-> TRUE, closed |-> FALSE, in |-> 0, out |-> 0,
                                  task |-> "runs", admitted |-> FALSE]
                   ELSE hrRelay[q]]
  /\ UNCHANGED <<hrTotal, hrTicket, hrValid>>

HrSet(r, new) == hrRelay' = [hrRelay EXCEPT ![r] = new]

\* get_relay and require_relay_scope.
HrReaches(o, r) == o \in hrValid /\ r \in HrListed /\ hrRelay[r].owner = o

HrRoom(n) == n < HrDepth /\ hrTotal < HrBudget

\* push_from_http
HrPush(o, r) ==
  /\ HrReaches(o, r) /\ ~hrRelay[r].closed
  /\ HrRoom(hrRelay[r].in)
  /\ HrSet(r, [hrRelay[r] EXCEPT !.in = @ + 1])
  /\ hrTotal' = hrTotal + 1
  /\ UNCHANGED <<hrTicket, hrValid>>

\* poll_to_http takes all there is.
HrPoll(o, r) ==
  /\ HrReaches(o, r) /\ hrRelay[r].out > 0
  /\ HrSet(r, [hrRelay[r] EXCEPT !.out = 0])
  /\ hrTotal' = HrReleased(hrTotal, hrRelay[r].out)
  /\ UNCHANGED <<hrTicket, hrValid>>

\* close: once, and with a last message when there is room for it.
HrClosed(r, new) ==
  IF new.closed
    THEN HrSet(r, new) /\ UNCHANGED hrTotal
    ELSE IF HrRoom(new.out)
      THEN HrSet(r, [new EXCEPT !.closed = TRUE, !.out = @ + 1]) /\ hrTotal' = hrTotal + 1
      ELSE HrSet(r, [new EXCEPT !.closed = TRUE]) /\ UNCHANGED hrTotal

\* close_relay, asked for by the browser.
HrClose(o, r) ==
  /\ HrReaches(o, r) /\ ~hrRelay[r].closed
  /\ HrClosed(r, hrRelay[r])
  /\ UNCHANGED <<hrTicket, hrValid>>

-----------------------------------------------------------------------------
(***************************************************************************)
(* The handler of the socket behind a relay.                               *)
(***************************************************************************)

Mut_HrAdmit(r) ==
  LET o == hrRelay[r].owner IN
  /\ hrRelay[r].task = "runs" /\ ~hrRelay[r].admitted /\ ~hrRelay[r].closed
  /\ hrTicket[o] # "none"
  /\ HrSet(r, IF hrTicket[o] = "issued" /\ o \in hrValid
              THEN [hrRelay[r] EXCEPT !.admitted = TRUE]
              ELSE [hrRelay[r] EXCEPT !.task = "ending"])
  /\ UNCHANGED <<hrTotal, hrTicket, hrValid>>

\* A browser's handler consumes the ticket before anything is checked, and
\* ends when it is not good (authenticate_browser_websocket_with_context).
HrAdmit(r) ==
  LET o == hrRelay[r].owner IN
  /\ hrRelay[r].task = "runs" /\ ~hrRelay[r].admitted /\ ~hrRelay[r].closed
  /\ hrTicket[o] # "none"
  /\ hrTicket' = [hrTicket EXCEPT ![o] = "gone"]
  /\ HrSet(r, IF hrTicket[o] = "issued" /\ o \in hrValid
              THEN [hrRelay[r] EXCEPT !.admitted = TRUE]
              ELSE [hrRelay[r] EXCEPT !.task = "ending"])
  /\ UNCHANGED <<hrTotal, hrValid>>

\* receive_text, send_text; sending to a closed relay raises.
HrReceive(r) ==
  /\ hrRelay[r].task = "runs" /\ hrRelay[r].admitted /\ hrRelay[r].in > 0
  /\ HrSet(r, [hrRelay[r] EXCEPT !.in = @ - 1])
  /\ hrTotal' = HrReleased(hrTotal, 1)
  /\ UNCHANGED <<hrTicket, hrValid>>

HrSendOut(r) ==
  /\ hrRelay[r].task = "runs" /\ hrRelay[r].admitted /\ ~hrRelay[r].closed
  /\ IF HrRoom(hrRelay[r].out)
       THEN HrSet(r, [hrRelay[r] EXCEPT !.out = @ + 1]) /\ hrTotal' = hrTotal + 1
       ELSE HrSet(r, [hrRelay[r] EXCEPT !.task = "ending"]) /\ UNCHANGED hrTotal
  /\ UNCHANGED <<hrTicket, hrValid>>

\* The socket's handler returns or raises: also when the relay was closed and
\* nothing is left to receive.
HrReturns(r) ==
  /\ hrRelay[r].task = "runs"
  /\ HrSet(r, [hrRelay[r] EXCEPT !.task = "ending"])
  /\ UNCHANGED <<hrTotal, hrTicket, hrValid>>

\* runner's finally closes the relay; also one that was pruned before.
HrRunnerEnds(r) ==
  /\ hrRelay[r].task \in {"ending", "cancelled"}
  /\ HrClosed(r, [hrRelay[r] EXCEPT !.task = "done"])
  /\ UNCHANGED <<hrTicket, hrValid>>

-----------------------------------------------------------------------------
HrNext ==
  \/ \E o \in HrOwners :
       \/ HrIssueTicket(o) \/ HrTicketExpires(o) \/ HrLoginEnds(o) \/ HrOpen(o)
       \/ \E r \in HrIds : HrPush(o, r) \/ HrPoll(o, r) \/ HrClose(o, r)
  \/ \E rs \in SUBSET HrIds : HrPrune(rs)
  \/ \E r \in HrIds :
       HrAdmit(r) \/ HrReceive(r) \/ HrSendOut(r) \/ HrReturns(r) \/ HrRunnerEnds(r)

\* The relays by themselves.
HrSpec == HrInit /\ [][HrNext]_hrvars

-----------------------------------------------------------------------------
(***************************************************************************)
(* Properties.                                                             *)
(***************************************************************************)
HrRelays == [owner : HrOwners, listed : BOOLEAN, closed : BOOLEAN, in : 0..HrDepth, out : 0..HrDepth,
             task : {"runs", "ending", "cancelled", "done"}, admitted : BOOLEAN]

\* The types, and the accounting: what all relays hold is reserved in the
\* budget, no more than the budget, so that a relay can be refused a byte but
\* never take one that another relay has.
HrTypeOK ==
  /\ \A r \in HrIds : hrRelay[r] \in HrRelays
  /\ hrTicket \in [HrOwners -> {"none", "issued", "gone"}]
  /\ hrValid \subseteq HrOwners
  /\ hrTotal = HrHeld(HrIds) /\ hrTotal <= HrBudget
  /\ Cardinality(HrListed) <= HrMaxRelays

\* A ticket opens one socket at most, whatever relays present it and at
\* whatever time.
OneSocketPerTicket ==
  \A o \in HrOwners : Cardinality({r \in HrIds : hrRelay[r].owner = o /\ hrRelay[r].admitted}) <= 1
=============================================================================
