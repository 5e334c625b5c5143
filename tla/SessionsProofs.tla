---------------------------- MODULE SessionsProofs ----------------------------
(***************************************************************************)
(* Proofs about the sessions that reach into a host: the tickets of the    *)
(* WebSocket relay (HttpRelay), the broker of the screen capture           *)
(* (CaptureWorker), the file library (RemoteDesktopFiles), the rows of     *)
(* Terminal and Remote Desktop (HumanSessions).                            *)
(***************************************************************************)
EXTENDS HttpRelay, CaptureWorker, RemoteDesktopFiles, HumanSessions,
        FiniteSetTheorems, SequenceTheorems, TLAPS

-----------------------------------------------------------------------------
(***************************************************************************)
(* HttpRelay.  A ticket opens one socket, for any number of owners and     *)
(* relays and any bounds of their queues.                                  *)
(***************************************************************************)
Relay ==
  [owner : HrOwners, listed : BOOLEAN, closed : BOOLEAN, in : Nat, out : Nat,
   task : {"runs", "ending", "cancelled", "done"}, admitted : BOOLEAN]

HrTypes ==
  /\ hrRelay \in [HrIds -> Relay]
  /\ hrTicket \in [HrOwners -> {"none", "issued", "gone"}]

\* The ticket of a relay that was admitted is used up.
AdmittedHasPaid ==
  \A r \in HrIds : hrRelay[r].admitted => hrTicket[hrRelay[r].owner] = "gone"

\* Two relays of one owner were not both admitted.
AdmittedIsAlone ==
  \A q, r \in HrIds :
    hrRelay[q].admitted /\ hrRelay[r].admitted /\ hrRelay[q].owner = hrRelay[r].owner => q = r

HrInv == HrTypes /\ AdmittedHasPaid /\ AdmittedIsAlone

LEMMA HrInitHolds == HrInit => HrInv
BY DEF HrInit, HrInv, HrTypes, AdmittedHasPaid, AdmittedIsAlone, HrIds

\* What every step but the opening and the admission does to the relays.
RelaysGoOn ==
  /\ HrIds' = HrIds
  /\ hrRelay' \in [HrIds -> Relay]
  /\ \A r \in HrIds : /\ hrRelay'[r].owner = hrRelay[r].owner
                      /\ hrRelay'[r].admitted = hrRelay[r].admitted

LEMMA SetGoesOn ==
  ASSUME HrTypes, NEW r \in HrIds, NEW new \in Relay, HrSet(r, new),
         new.owner = hrRelay[r].owner, new.admitted = hrRelay[r].admitted
  PROVE  RelaysGoOn
BY DEF HrTypes, HrSet, RelaysGoOn, HrIds

LEMMA ClosedGoesOn ==
  ASSUME HrTypes, NEW r \in HrIds, NEW new \in Relay, HrClosed(r, new),
         new.owner = hrRelay[r].owner, new.admitted = hrRelay[r].admitted
  PROVE  RelaysGoOn
<1> DEFINE told == [new EXCEPT !.closed = TRUE, !.out = @ + 1]
           shut == [new EXCEPT !.closed = TRUE]
<1>1. /\ told \in Relay /\ told.owner = new.owner /\ told.admitted = new.admitted
      /\ shut \in Relay /\ shut.owner = new.owner /\ shut.admitted = new.admitted
  <2>1. new.out + 1 \in Nat
    BY DEF Relay
  <2> QED
    BY <2>1 DEF Relay
<1>2. HrSet(r, new) \/ HrSet(r, told) \/ HrSet(r, shut)
  BY DEF HrClosed
<1> QED
  BY <1>1, <1>2, SetGoesOn

LEMMA TicketsStay ==
  ASSUME HrInv, RelaysGoOn, UNCHANGED hrTicket
  PROVE  HrInv'
<1>1. HrTypes'
  BY DEF HrInv, HrTypes, RelaysGoOn
<1> QED
  BY <1>1 DEF HrInv, AdmittedHasPaid, AdmittedIsAlone, RelaysGoOn

LEMMA TicketStep ==
  ASSUME HrInv, NEW o \in HrOwners, HrIssueTicket(o) \/ HrTicketExpires(o)
  PROVE  HrInv'
<1>1. /\ UNCHANGED hrRelay
      /\ \/ hrTicket[o] = "none" /\ hrTicket' = [hrTicket EXCEPT ![o] = "issued"]
         \/ hrTicket' = [hrTicket EXCEPT ![o] = "gone"]
  BY DEF HrIssueTicket, HrTicketExpires
<1>2. HrTypes'
  BY <1>1 DEF HrInv, HrTypes, HrIds
<1>3. \A r \in HrIds : hrRelay[r].owner \in HrOwners
  BY DEF HrInv, HrTypes, Relay
<1>4. AdmittedHasPaid'
  BY <1>1, <1>3 DEF HrInv, HrTypes, AdmittedHasPaid, HrIds
<1>5. AdmittedIsAlone'
  BY <1>1 DEF HrInv, AdmittedIsAlone, HrIds
<1> QED
  BY <1>2, <1>4, <1>5 DEF HrInv

LEMMA OpenStep ==
  ASSUME HrInv, NEW o \in HrOwners, HrOpen(o)
  PROVE  HrInv'
<1> DEFINE n == Cardinality(HrIds) + 1
           new == [owner |-> o, listed |-> TRUE, closed |-> FALSE, in |-> 0, out |-> 0,
                   task |-> "runs", admitted |-> FALSE]
<1>1. hrRelay' = [q \in HrIds \cup {n} |-> IF q = n THEN new ELSE hrRelay[q]]
  BY DEF HrOpen
<1>2. UNCHANGED hrTicket
  BY DEF HrOpen
<1>3. new \in Relay /\ ~new.admitted
  BY DEF Relay
<1> HIDE DEF n, new
<1>4. HrIds' = HrIds \cup {n}
  BY <1>1 DEF HrIds
<1>5. HrTypes'
  BY <1>1, <1>2, <1>3, <1>4 DEF HrInv, HrTypes
<1>6. \A r \in HrIds' : hrRelay'[r].admitted => r \in HrIds /\ hrRelay'[r] = hrRelay[r]
  BY <1>1, <1>3, <1>4
<1> QED
  BY <1>2, <1>5, <1>6 DEF HrInv, AdmittedHasPaid, AdmittedIsAlone

\* The ticket is used up by the admission, and had not been before.
LEMMA AdmitStep ==
  ASSUME HrInv, NEW r \in HrIds, HrAdmit(r)
  PROVE  HrInv'
<1> DEFINE o == hrRelay[r].owner
           in == [hrRelay[r] EXCEPT !.admitted = TRUE]
           out == [hrRelay[r] EXCEPT !.task = "ending"]
<1>1. hrRelay[r] \in Relay /\ o \in HrOwners /\ ~hrRelay[r].admitted
  BY DEF HrInv, HrTypes, Relay, HrAdmit
<1>2. hrTicket' = [hrTicket EXCEPT ![o] = "gone"]
  BY DEF HrAdmit
<1>3. (hrTicket[o] = "issued" /\ HrSet(r, in)) \/ HrSet(r, out)
  BY DEF HrAdmit
<1>4. /\ in \in Relay /\ in.owner = o
      /\ out \in Relay /\ out.owner = o /\ ~out.admitted
  BY <1>1 DEF Relay
<1>5. hrTicket' \in [HrOwners -> {"none", "issued", "gone"}]
  BY <1>2 DEF HrInv, HrTypes
<1>6. \A p \in HrOwners : hrTicket[p] = "gone" \/ p = o => hrTicket'[p] = "gone"
  BY <1>1, <1>2 DEF HrInv, HrTypes
<1>7. \A q \in HrIds : hrRelay[q].owner \in HrOwners
  BY DEF HrInv, HrTypes, Relay
<1> HIDE DEF in, out
<1>8. CASE HrSet(r, out)
  <2>1. HrIds' = HrIds /\ hrRelay' \in [HrIds -> Relay]
    BY <1>4, <1>8 DEF HrInv, HrTypes, HrSet, HrIds
  <2>2. \A q \in HrIds : hrRelay'[q].owner = hrRelay[q].owner
                         /\ (hrRelay'[q].admitted => hrRelay[q].admitted)
    BY <1>4, <1>8 DEF HrInv, HrTypes, HrSet, HrIds
  <2> QED
    BY <1>5, <1>6, <1>7, <2>1, <2>2 DEF HrInv, HrTypes, AdmittedHasPaid, AdmittedIsAlone
<1>9. CASE hrTicket[o] = "issued" /\ HrSet(r, in)
  <2>1. HrIds' = HrIds /\ hrRelay' \in [HrIds -> Relay]
    BY <1>4, <1>9 DEF HrInv, HrTypes, HrSet, HrIds
  <2>2. \A q \in HrIds : /\ hrRelay'[q].owner = hrRelay[q].owner
                         /\ q # r => hrRelay'[q].admitted = hrRelay[q].admitted
    BY <1>4, <1>9 DEF HrInv, HrTypes, HrSet, HrIds
  <2>3. \A q \in HrIds : hrRelay[q].admitted => hrRelay[q].owner # o
    BY <1>9 DEF HrInv, AdmittedHasPaid
  <2>4. HrTypes' /\ AdmittedHasPaid'
    BY <1>5, <1>6, <1>7, <2>1, <2>2 DEF HrInv, HrTypes, AdmittedHasPaid
  <2>5. AdmittedIsAlone'
    BY <2>1, <2>2, <2>3 DEF HrInv, AdmittedIsAlone
  <2> QED
    BY <2>4, <2>5 DEF HrInv
<1> QED
  BY <1>3, <1>8, <1>9

LEMMA PruneStep ==
  ASSUME HrInv, NEW rs \in SUBSET HrIds, HrPrune(rs)
  PROVE  HrInv'
<1> DEFINE pruned(r) == [hrRelay[r] EXCEPT !.listed = FALSE, !.in = 0, !.out = 0,
                                           !.task = IF @ = "runs" THEN "cancelled" ELSE @]
<1>1. \A r \in HrIds : hrRelay[r] \in Relay
  BY DEF HrInv, HrTypes
<1>2. \A r \in HrIds : /\ pruned(r) \in Relay /\ pruned(r).owner = hrRelay[r].owner
                       /\ pruned(r).admitted = hrRelay[r].admitted
  BY <1>1 DEF Relay
<1>3. hrRelay' = [r \in HrIds |-> IF r \in rs THEN pruned(r) ELSE hrRelay[r]]
  BY DEF HrPrune, HrPruned
<1> HIDE DEF pruned
<1>4. RelaysGoOn
  BY <1>1, <1>2, <1>3 DEF RelaysGoOn, HrIds
<1>5. UNCHANGED hrTicket
  BY DEF HrPrune
<1> QED
  BY <1>4, <1>5, TicketsStay

LEMMA CallStep ==
  ASSUME HrInv, NEW o, NEW r \in HrIds, HrPush(o, r) \/ HrPoll(o, r) \/ HrClose(o, r)
  PROVE  HrInv'
<1>0. hrRelay[r] \in Relay /\ HrTypes
  BY DEF HrInv, HrTypes
<1>1. CASE HrPush(o, r)
  <2> DEFINE new == [hrRelay[r] EXCEPT !.in = @ + 1]
  <2>1. new \in Relay /\ new.owner = hrRelay[r].owner /\ new.admitted = hrRelay[r].admitted
    BY <1>0 DEF Relay
  <2>2. HrSet(r, new) /\ UNCHANGED hrTicket
    BY <1>1 DEF HrPush
  <2> QED
    BY <1>0, <2>1, <2>2, SetGoesOn, TicketsStay
<1>2. CASE HrPoll(o, r)
  <2> DEFINE new == [hrRelay[r] EXCEPT !.out = 0]
  <2>1. new \in Relay /\ new.owner = hrRelay[r].owner /\ new.admitted = hrRelay[r].admitted
    BY <1>0 DEF Relay
  <2>2. HrSet(r, new) /\ UNCHANGED hrTicket
    BY <1>2 DEF HrPoll
  <2> QED
    BY <1>0, <2>1, <2>2, SetGoesOn, TicketsStay
<1>3. CASE HrClose(o, r)
  <2>1. HrClosed(r, hrRelay[r]) /\ UNCHANGED hrTicket
    BY <1>3 DEF HrClose
  <2> QED
    BY <1>0, <2>1, ClosedGoesOn, TicketsStay
<1> QED
  BY <1>1, <1>2, <1>3

LEMMA HandlerStep ==
  ASSUME HrInv, NEW r \in HrIds,
         HrReceive(r) \/ HrSendOut(r) \/ HrReturns(r) \/ HrRunnerEnds(r)
  PROVE  HrInv'
<1>0. hrRelay[r] \in Relay /\ HrTypes
  BY DEF HrInv, HrTypes
<1>1. CASE HrReceive(r)
  <2> DEFINE new == [hrRelay[r] EXCEPT !.in = @ - 1]
  <2>1. new \in Relay /\ new.owner = hrRelay[r].owner /\ new.admitted = hrRelay[r].admitted
    <3>1. hrRelay[r].in \in Nat /\ hrRelay[r].in > 0
      BY <1>0, <1>1 DEF Relay, HrReceive
    <3>2. hrRelay[r].in - 1 \in Nat
      BY <3>1
    <3> QED
      BY <1>0, <3>2 DEF Relay
  <2>2. HrSet(r, new) /\ UNCHANGED hrTicket
    BY <1>1 DEF HrReceive
  <2> QED
    BY <1>0, <2>1, <2>2, SetGoesOn, TicketsStay
<1>2. CASE HrSendOut(r)
  <2> DEFINE told == [hrRelay[r] EXCEPT !.out = @ + 1]
             full == [hrRelay[r] EXCEPT !.task = "ending"]
  <2>1. /\ told \in Relay /\ told.owner = hrRelay[r].owner /\ told.admitted = hrRelay[r].admitted
        /\ full \in Relay /\ full.owner = hrRelay[r].owner /\ full.admitted = hrRelay[r].admitted
    BY <1>0 DEF Relay
  <2>2. (HrSet(r, told) \/ HrSet(r, full)) /\ UNCHANGED hrTicket
    BY <1>2 DEF HrSendOut
  <2> QED
    BY <1>0, <2>1, <2>2, SetGoesOn, TicketsStay
<1>3. CASE HrReturns(r)
  <2> DEFINE new == [hrRelay[r] EXCEPT !.task = "ending"]
  <2>1. new \in Relay /\ new.owner = hrRelay[r].owner /\ new.admitted = hrRelay[r].admitted
    BY <1>0 DEF Relay
  <2>2. HrSet(r, new) /\ UNCHANGED hrTicket
    BY <1>3 DEF HrReturns
  <2> QED
    BY <1>0, <2>1, <2>2, SetGoesOn, TicketsStay
<1>4. CASE HrRunnerEnds(r)
  <2> DEFINE new == [hrRelay[r] EXCEPT !.task = "done"]
  <2>1. new \in Relay /\ new.owner = hrRelay[r].owner /\ new.admitted = hrRelay[r].admitted
    BY <1>0 DEF Relay
  <2>2. HrClosed(r, new) /\ UNCHANGED hrTicket
    BY <1>4 DEF HrRunnerEnds
  <2> QED
    BY <1>0, <2>1, <2>2, ClosedGoesOn, TicketsStay
<1> QED
  BY <1>1, <1>2, <1>3, <1>4

LEMMA AtMostOne ==
  ASSUME NEW S, \A q, r \in S : q = r
  PROVE  Cardinality(S) <= 1
<1>1. CASE S = {}
  BY <1>1, FS_EmptySet
<1>2. ASSUME NEW r \in S PROVE Cardinality(S) <= 1
  <2>1. S = {r}
    OBVIOUS
  <2>2. Cardinality({r}) = 1
    BY FS_Singleton
  <2> QED
    BY <2>1, <2>2
<1> QED
  BY <1>1, <1>2

LEMMA AloneIsOne == AdmittedIsAlone => OneSocketPerTicket
BY AtMostOne DEF AdmittedIsAlone, OneSocketPerTicket

(***************************************************************************)
(* A one-time ticket opens one socket at most (consume in websocket_auth), *)
(* whatever relays present it, are pruned, closed or opened again.         *)
(***************************************************************************)
THEOREM TicketOpensOnce == HrSpec => []OneSocketPerTicket
<1>1. HrInv /\ [HrNext]_hrvars => HrInv'
  <2> SUFFICES ASSUME HrInv, [HrNext]_hrvars PROVE HrInv'
    OBVIOUS
  <2>1. CASE UNCHANGED hrvars
    BY <2>1 DEF hrvars, HrInv, HrTypes, AdmittedHasPaid, AdmittedIsAlone, HrIds
  <2>2. ASSUME NEW o \in HrOwners, HrLoginEnds(o) PROVE HrInv'
    BY <2>2 DEF HrLoginEnds, HrInv, HrTypes, AdmittedHasPaid, AdmittedIsAlone, HrIds
  <2> QED
    BY <2>1, <2>2, TicketStep, OpenStep, AdmitStep, PruneStep, CallStep, HandlerStep DEF HrNext
<1> QED
  BY <1>1, HrInitHolds, AloneIsOne, PTL DEF HrSpec, HrInv

-----------------------------------------------------------------------------
(***************************************************************************)
(* CaptureWorker.  At most one line is on its way in the two pipes, and it *)
(* is of the request that the broker works on: a request that is not       *)
(* written, or is given up, leaves them empty.                             *)
(***************************************************************************)
CwReqs == [n : Nat, action : CwActions \cup {"none"}, left : Nat, sent : BOOLEAN]

CwTypes ==
  /\ cwCount \in Nat
  /\ cwRequest \in CwReqs
  /\ cwIn \in Seq([n : Nat, action : CwActions])
  /\ cwOut \in Seq([n : Nat, ok : BOOLEAN])

OneLine ==
  /\ Len(cwIn) + Len(cwOut) <= 1
  /\ cwIn # <<>> => cwRequest.sent /\ Head(cwIn).n = cwRequest.n
  /\ cwOut # <<>> => cwRequest.sent /\ Head(cwOut).n = cwRequest.n

CwInv == CwTypes /\ OneLine /\ AnswerIsToTheRequest

\* The first of a sequence, and all of it when there is no other.
LEMMA FirstOf ==
  ASSUME NEW S, NEW s \in Seq(S), s # <<>>
  PROVE  Head(s) \in S /\ Tail(s) \in Seq(S) /\ Len(s) \in Nat \ {0}
         /\ (Len(s) = 1 => Tail(s) = <<>>)
<1>1. Head(s) \in S /\ Tail(s) \in Seq(S) /\ Len(Tail(s)) = Len(s) - 1
  BY HeadTailProperties
<1>2. Len(s) \in Nat \ {0} /\ (Tail(s) # <<>> => Len(Tail(s)) \in Nat \ {0})
  BY <1>1, EmptySeq
<1> QED
  BY <1>1, <1>2

LEMMA CwInitHolds == CwInit => CwInv
BY DEF CwInit, CwInv, CwTypes, CwReqs, OneLine, AnswerIsToTheRequest, NoRequest, NoAnswer

\* Nothing is on its way.
LEMMA PipesEmpty ==
  ASSUME CwInv, cwRequest' \in CwReqs, cwIn' = <<>>, cwOut' = <<>>, cwCount' \in Nat,
         UNCHANGED cwAnswer \/ \E ok \in BOOLEAN : CwReply(cwRequest.n, ok)
  PROVE  CwInv'
BY DEF CwInv, CwTypes, CwReqs, OneLine, AnswerIsToTheRequest, CwReply

LEMMA NothingOnItsWay == ASSUME CwInv, ~cwRequest.sent PROVE cwIn = <<>> /\ cwOut = <<>>
BY DEF CwInv, OneLine

LEMMA LineIsTaken ==
  ASSUME CwInv, NEW action \in CwActions, NEW ok \in BOOLEAN, CwTakes(action, ok)
  PROVE  CwInv'
<1>1. /\ cwIn # <<>> /\ cwIn' = Tail(cwIn) /\ cwOut' = Append(cwOut, [n |-> Head(cwIn).n, ok |-> ok])
      /\ UNCHANGED <<cwCount, cwRequest, cwAnswer>>
  BY DEF CwTakes
<1>2. cwIn \in Seq([n : Nat, action : CwActions]) /\ cwOut \in Seq([n : Nat, ok : BOOLEAN])
  BY DEF CwInv, CwTypes
<1>3. Len(cwIn) = 1 /\ Len(cwOut) = 0
  <2>1. Len(cwIn) \in Nat /\ Len(cwOut) \in Nat /\ Len(cwIn) # 0
    BY <1>1, <1>2
  <2>2. Len(cwIn) + Len(cwOut) <= 1
    BY DEF CwInv, OneLine
  <2> QED
    BY <2>1, <2>2
<1>4. cwIn' = <<>> /\ cwOut = <<>>
  BY <1>1, <1>2, <1>3, FirstOf
<1>5. Head(cwIn).n \in Nat /\ Head(cwIn).n = cwRequest.n /\ cwRequest.sent
  <2>1. Head(cwIn) \in [n : Nat, action : CwActions]
    BY <1>1, <1>2, FirstOf
  <2> QED
    BY <1>1, <2>1 DEF CwInv, OneLine
<1>6. [n |-> Head(cwIn).n, ok |-> ok] \in [n : Nat, ok : BOOLEAN]
  BY <1>5
<1>7. /\ cwOut' \in Seq([n : Nat, ok : BOOLEAN]) /\ Len(cwOut') = 1
      /\ Head(cwOut') = [n |-> Head(cwIn).n, ok |-> ok]
  BY <1>1, <1>2, <1>3, <1>6
<1> QED
  BY <1>1, <1>2, <1>4, <1>5, <1>7 DEF CwInv, CwTypes, CwReqs, OneLine, AnswerIsToTheRequest

LEMMA CwStepKeeps == ASSUME CwInv, [CwNext]_cwvars PROVE CwInv'
<1> USE DEF CwInv, CwTypes, CwReqs
<1>1. ASSUME NEW action \in CwActions, CwAccept(action) PROVE CwInv'
  <2>1. /\ cwCount' = cwCount + 1 /\ UNCHANGED <<cwIn, cwOut, cwAnswer>> /\ ~cwRequest.sent
        /\ cwRequest' = [n |-> cwCount + 1, action |-> action, left |-> CwAttempts, sent |-> FALSE]
    BY <1>1 DEF CwAccept, NoRequest
  <2>2. cwIn' = <<>> /\ cwOut' = <<>>
    BY <2>1, NothingOnItsWay
  <2>3. cwRequest' \in CwReqs
    BY <2>1, CwAssumption
  <2> QED
    BY <2>1, <2>2, <2>3, PipesEmpty
<1>2. CASE CwWrite
  <2>1. /\ ~cwRequest.sent /\ cwRequest.action \in CwActions /\ cwRequest.n \in Nat
        /\ UNCHANGED <<cwCount, cwOut, cwAnswer>>
        /\ cwRequest' = [cwRequest EXCEPT !.sent = TRUE]
        /\ cwIn' = Append(cwIn, [n |-> cwRequest.n, action |-> cwRequest.action])
    BY <1>2 DEF CwWrite, CwActions
  <2>2. cwIn = <<>> /\ cwOut = <<>>
    BY <2>1, NothingOnItsWay
  <2>3. [n |-> cwRequest.n, action |-> cwRequest.action] \in [n : Nat, action : CwActions]
    BY <2>1
  <2>4. /\ cwIn' \in Seq([n : Nat, action : CwActions]) /\ Len(cwIn') = 1 /\ Len(cwOut) = 0
        /\ Head(cwIn').n = cwRequest.n
    BY <2>1, <2>2, <2>3
  <2>5. /\ cwRequest' \in CwReqs
        /\ cwRequest'.sent /\ cwRequest'.n = cwRequest.n
    BY <2>1
  <2> QED
    BY <2>1, <2>2, <2>4, <2>5 DEF OneLine, AnswerIsToTheRequest
<1>3. CASE CwRead
  <2>a. /\ cwRequest.sent /\ cwOut # <<>> /\ cwOut' = Tail(cwOut)
        /\ UNCHANGED <<cwCount, cwIn>> /\ Head(cwOut).n = cwRequest.n
        /\ Len(cwOut) + Len(cwIn) <= 1
    BY <1>3 DEF CwRead, OneLine
  <2>b. cwOut \in Seq([n : Nat, ok : BOOLEAN]) /\ Len(cwIn) \in Nat
    OBVIOUS
  <2>c. /\ Head(cwOut) \in [n : Nat, ok : BOOLEAN] /\ Len(cwOut) \in Nat \ {0}
        /\ (Len(cwOut) = 1 => Tail(cwOut) = <<>>)
    BY <2>a, <2>b, FirstOf
  <2>1. Len(cwOut) = 1 /\ Len(cwIn) = 0
    <3>1. \A i, j \in Nat : i # 0 /\ i + j <= 1 => i = 1 /\ j = 0
      OBVIOUS
    <3> HIDE DEF CwInv, CwTypes
    <3> QED
      BY <2>a, <2>b, <2>c, <3>1
  <2>d. Head(cwOut).ok \in BOOLEAN
    <3> HIDE DEF CwInv, CwTypes
    <3> QED
      BY <2>c
  <2>2. cwOut' = <<>> /\ cwIn' = <<>>
    BY <2>a, <2>c, <2>1
  <2>3. CwReply(cwRequest.n, Head(cwOut).ok)
    BY <1>3, <2>a DEF CwRead
  <2>4. cwRequest' \in CwReqs
    BY <2>3 DEF CwReply, NoRequest
  <2> QED
    BY <2>a, <2>d, <2>2, <2>3, <2>4, PipesEmpty
<1>4. CASE CwGivesUp
  <2>1. CASE cwRequest.action # "stop_capture" /\ cwRequest.left > 1
    <3>1. /\ cwRequest' = [cwRequest EXCEPT !.left = @ - 1, !.sent = FALSE] /\ UNCHANGED cwAnswer
          /\ cwIn' = <<>> /\ cwOut' = <<>> /\ UNCHANGED cwCount
      BY <1>4, <2>1 DEF CwGivesUp, CwKilled
    <3>2. cwRequest.left - 1 \in Nat
      BY <2>1
    <3>3. cwRequest' \in CwReqs
      BY <3>1, <3>2
    <3> QED
      BY <3>1, <3>3, PipesEmpty
  <2>2. CASE ~(cwRequest.action # "stop_capture" /\ cwRequest.left > 1)
    <3>1. /\ CwReply(cwRequest.n, cwRequest.action = "stop_capture")
          /\ cwIn' = <<>> /\ cwOut' = <<>> /\ UNCHANGED cwCount
      BY <1>4, <2>2 DEF CwGivesUp, CwKilled
    <3>2. cwRequest' \in CwReqs
      BY <3>1 DEF CwReply, NoRequest
    <3> QED
      BY <3>1, <3>2, PipesEmpty
  <2> QED
    BY <2>1, <2>2
<1>5. CASE CwNothingToStop \/ CwCloseWorker
  <2>1. CwReply(cwRequest.n, TRUE) /\ UNCHANGED cwCount /\ cwIn' = <<>> /\ cwOut' = <<>>
    BY <1>5, NothingOnItsWay DEF CwNothingToStop, CwCloseWorker, CwKilled
  <2>2. cwRequest' \in CwReqs
    BY <2>1 DEF CwReply, NoRequest
  <2> QED
    BY <2>1, <2>2, PipesEmpty
<1>6. CASE CwDies
  BY <1>6, PipesEmpty DEF CwDies, CwKilled
<1>7. CASE CwFrame \/ CwCaptureFails \/ CwText \/ CwStopCapture
  <2>1. \E action \in CwActions, ok \in BOOLEAN : CwTakes(action, ok)
    BY <1>7 DEF CwFrame, CwCaptureFails, CwText, CwStopCapture, CwActions
  <2> QED
    BY <2>1, LineIsTaken
<1>8. CASE CwEnsure \/ CwCreateSession \/ CwNodeAdded \/ CwPlay \/ UNCHANGED cwvars
  BY <1>8 DEF CwEnsure, CwCreateSession, CwNodeAdded, CwPlay, cwvars, OneLine,
              AnswerIsToTheRequest
<1> QED
  BY <1>1, <1>2, <1>3, <1>4, <1>5, <1>6, <1>7, <1>8 DEF CwNext

(***************************************************************************)
(* No caller is handed what the worker gave to an earlier request, for any *)
(* number of requests and attempts, late answers and deaths of the worker. *)
(***************************************************************************)
THEOREM AnswersAreOwn == CwSpec => []AnswerIsToTheRequest
<1>1. CwInv /\ [CwNext]_cwvars => CwInv'
  BY CwStepKeeps
<1>2. CwInv => AnswerIsToTheRequest
  BY DEF CwInv
<1> QED
  BY <1>1, <1>2, CwInitHolds, PTL DEF CwSpec

-----------------------------------------------------------------------------
(***************************************************************************)
(* RemoteDesktopFiles.  Of the upload in progress one thing at most is on  *)
(* its way: the message that was sent last, the agent's answer to it, or   *)
(* an answer that has arrived.  An answer to the last message is given     *)
(* after the file was published.                                           *)
(***************************************************************************)
Uploads == {r \in DOMAIN fiKind : fiKind[r] = "upload"}
Others == {r \in DOMAIN fiKind : fiKind[r] # "upload"}
Steps == {"offer", "chunk", "complete"}
Acks == {"accepted", "exists", "error"}
DownMsgs ==
  ({"open", "close"} \X {0}) \cup ({"list", "change", "move", "download"} \X Others)
    \cup (Steps \X Uploads)
UpMsgs == (Acks \cup {"result", "listing", "chunk", "complete"}) \X ({0} \cup DOMAIN fiKind)
Channels == 1..FiMaxConns
InProgress ==
  [r : Uploads, step : Steps, at : Nat, tries : Nat, over : {0} \cup Channels, acks : Seq(Acks)]

FiTypes ==
  /\ fiKind \in Seq(FiKinds)
  /\ fiShown \in Seq(Shown) /\ Len(fiShown) = Len(fiKind)
  /\ {fiLink, fiFiles} \subseteq {0} \cup Channels /\ fiConns \in Channels
  /\ fiHandlers \subseteq Channels
  /\ fiDown \in Seq(DownMsgs) /\ (fiDown # <<>> => fiLink # 0)
  /\ fiUp \in [Channels -> Seq(UpMsgs)]
  /\ fiExpect \in Seq(Others)
  /\ DOMAIN fiDownloads \subseteq Others
  /\ \/ fiUpload = Idle
     \/ fiUpload \in InProgress

\* Of r there is nothing in q, or not more than one message.
NoneOf(q, r) == \A i \in DOMAIN q : q[i][2] # r
OneOf(q, r) == \A i, j \in DOMAIN q : q[i][2] = r /\ q[j][2] = r => i = j
NoneUp(r) == \A c \in Channels : NoneOf(fiUp[c], r)

OnlyErrors(acks) == \A i \in DOMAIN acks : acks[i] = "error"
OneAnswer(acks) == \A i, j \in DOMAIN acks : acks[i] # "error" /\ acks[j] # "error" => i = j

\* What there is of r in p was in q already.
Within(p, q, r) ==
  /\ \A i \in DOMAIN p : p[i][2] = r => \E j \in DOMAIN q : p[i] = q[j]
  /\ OneOf(q, r) => OneOf(p, r)

MessageOnItsWay ==
  LET u == fiUpload IN
  /\ OneOf(fiDown, u.r) /\ \A i \in DOMAIN fiDown : fiDown[i][2] = u.r => fiDown[i][1] = u.step
  /\ NoneUp(u.r)
  /\ OnlyErrors(u.acks)

AnswerOnItsWay(c) ==
  LET u == fiUpload IN
  /\ NoneOf(fiDown, u.r)
  /\ OneOf(fiUp[c], u.r) /\ \A d \in Channels \ {c} : NoneOf(fiUp[d], u.r)
  /\ OnlyErrors(u.acks)
  /\ u.step = "complete" /\ u.r \notin fiDone =>
       \A i \in DOMAIN fiUp[c] : fiUp[c][i] # <<"accepted", u.r>>

AnswerHasArrived ==
  LET u == fiUpload IN
  /\ NoneOf(fiDown, u.r) /\ NoneUp(u.r)
  /\ OneAnswer(u.acks)
  /\ u.step = "complete" /\ u.r \notin fiDone => \A i \in DOMAIN u.acks : u.acks[i] # "accepted"

InTurn ==
  fiUpload # Idle =>
    MessageOnItsWay \/ (\E c \in Channels : AnswerOnItsWay(c)) \/ AnswerHasArrived

FiInv == FiTypes /\ InTurn /\ UploadShownIsPublished

\* What a step may do to the upload: end it, or let it be, with no more on its
\* way than before.
LetsBe ==
  \/ fiUpload' = Idle
  \/ /\ fiUpload # Idle /\ fiUpload'.r = fiUpload.r /\ fiUpload'.step = fiUpload.step
     /\ fiUpload'.acks \in {fiUpload.acks, Append(fiUpload.acks, "error")}
     /\ Within(fiDown', fiDown, fiUpload.r)
     /\ \A c \in Channels : Within(fiUp'[c], fiUp[c], fiUpload.r)

\* What a step may show.
ShownKept ==
  /\ fiShown' \in Seq(Shown) /\ Len(fiShown') = Len(fiShown)
  /\ \A r \in Uploads : fiShown'[r] = "ok" => fiShown[r] = "ok" \/ r \in fiDone'

-----------------------------------------------------------------------------
LEMMA TailOf ==
  ASSUME NEW S, NEW q \in Seq(S), q # <<>>, NEW r
  PROVE  /\ Tail(q) \in Seq(S) /\ Head(q) \in S
         /\ NoneOf(q, r) => Head(q)[2] # r
         /\ Within(Tail(q), q, r)
         /\ OneOf(q, r) /\ Head(q)[2] = r => NoneOf(Tail(q), r)
<1>1. /\ Head(q) \in S /\ Tail(q) \in Seq(S) /\ Len(Tail(q)) = Len(q) - 1
      /\ \A i \in 1..Len(Tail(q)) : Tail(q)[i] = q[i + 1]
  BY HeadTailProperties
<1>2. Len(q) \in Nat \ {0} /\ DOMAIN q = 1..Len(q)
  BY EmptySeq, LenProperties
<1>3. DOMAIN Tail(q) = 1..(Len(q) - 1)
  BY <1>1, <1>2, LenProperties
<1>4. Head(q) = q[1] /\ 1 \in DOMAIN q
  BY <1>2
<1>5. \A i \in DOMAIN Tail(q) : i + 1 \in DOMAIN q /\ i + 1 # 1 /\ Tail(q)[i] = q[i + 1]
  BY <1>1, <1>2, <1>3
<1>6. \A i, j \in DOMAIN Tail(q) : i + 1 = j + 1 => i = j
  BY <1>3
<1>7. Within(Tail(q), q, r)
  BY <1>5, <1>6 DEF Within, OneOf
<1>8. OneOf(q, r) /\ Head(q)[2] = r => NoneOf(Tail(q), r)
  BY <1>4, <1>5 DEF OneOf, NoneOf
<1>9. NoneOf(q, r) => Head(q)[2] # r
  BY <1>4 DEF NoneOf
<1> QED
  BY <1>1, <1>7, <1>8, <1>9

LEMMA AppendOf ==
  ASSUME NEW S, NEW q \in Seq(S), NEW e \in S, NEW r
  PROVE  /\ Append(q, e) \in Seq(S)
         /\ NoneOf(q, r) => OneOf(Append(q, e), r)
         /\ e[2] # r => Within(Append(q, e), q, r)
         /\ \A i \in DOMAIN Append(q, e) :
              Append(q, e)[i] = e \/ (i \in DOMAIN q /\ Append(q, e)[i] = q[i])
<1>1. /\ Append(q, e) \in Seq(S) /\ Len(Append(q, e)) = Len(q) + 1
      /\ \A i \in 1..Len(q) : Append(q, e)[i] = q[i]
      /\ Append(q, e)[Len(q) + 1] = e
  BY AppendProperties
<1>2. Len(q) \in Nat /\ DOMAIN q = 1..Len(q)
  BY LenProperties
<1>3. DOMAIN Append(q, e) = 1..(Len(q) + 1)
  BY <1>1, LenProperties
<1>4. \A i \in DOMAIN Append(q, e) :
        (i = Len(q) + 1 /\ Append(q, e)[i] = e) \/ (i \in DOMAIN q /\ Append(q, e)[i] = q[i])
  BY <1>1, <1>2, <1>3
<1> QED
  BY <1>1, <1>4 DEF NoneOf, OneOf, Within

LEMMA ConcatOf ==
  ASSUME NEW S, NEW q \in Seq(S), NEW p \in Seq(S), NEW r, NoneOf(p, r)
  PROVE  q \o p \in Seq(S) /\ Within(q \o p, q, r)
<1>1. /\ q \o p \in Seq(S) /\ Len(q \o p) = Len(q) + Len(p)
      /\ \A i \in 1..(Len(q) + Len(p)) :
           (q \o p)[i] = IF i <= Len(q) THEN q[i] ELSE p[i - Len(q)]
  BY ConcatProperties
<1>2. /\ Len(q) \in Nat /\ DOMAIN q = 1..Len(q) /\ Len(p) \in Nat /\ DOMAIN p = 1..Len(p)
      /\ DOMAIN (q \o p) = 1..(Len(q) + Len(p))
  BY <1>1, LenProperties
<1>3. \A i \in DOMAIN (q \o p) :
        \/ i \in DOMAIN q /\ (q \o p)[i] = q[i]
        \/ i - Len(q) \in DOMAIN p /\ (q \o p)[i] = p[i - Len(q)]
  BY <1>1, <1>2
<1> QED
  BY <1>1, <1>3 DEF NoneOf, OneOf, Within

LEMMA PrefixOf ==
  ASSUME NEW S, NEW q \in Seq(S), NEW n \in 0..Len(q), NEW r
  PROVE  SubSeq(q, 1, n) \in Seq(S) /\ Within(SubSeq(q, 1, n), q, r)
<1>1. Len(q) \in Nat /\ DOMAIN q = 1..Len(q) /\ \A i \in 1..n : q[i] \in S
  BY LenProperties, ElementOfSeq
<1>2. /\ SubSeq(q, 1, n) \in Seq(S)
      /\ Len(SubSeq(q, 1, n)) = IF 1 <= n THEN n - 1 + 1 ELSE 0
      /\ \A i \in 1..(n - 1 + 1) : SubSeq(q, 1, n)[i] = q[1 + i - 1]
  BY <1>1, SubSeqProperties
<1>3. Len(SubSeq(q, 1, n)) = n
  BY <1>1, <1>2
<1>4. DOMAIN SubSeq(q, 1, n) = 1..n
  BY <1>2, <1>3, LenProperties
<1>5. \A i \in 1..n : i \in DOMAIN q /\ SubSeq(q, 1, n)[i] = q[i]
  BY <1>1, <1>2
<1> QED
  BY <1>2, <1>4, <1>5 DEF Within, OneOf

LEMMA WithinItself == ASSUME NEW q, NEW r PROVE Within(q, q, r) /\ Within(<<>>, q, r)
BY DEF Within, OneOf

LEMMA WithinHasNone ==
  ASSUME NEW p, NEW q, NEW r, Within(p, q, r), NoneOf(q, r) PROVE NoneOf(p, r)
BY DEF Within, NoneOf

\* Acknowledgements of the upload.
LEMMA FirstAck ==
  ASSUME NEW a \in Seq(Acks), a # <<>>
  PROVE  /\ Tail(a) \in Seq(Acks) /\ Head(a) \in Acks
         /\ \E i \in DOMAIN a : a[i] = Head(a)
         /\ OneAnswer(a) /\ Head(a) # "error" => OnlyErrors(Tail(a))
<1>1. /\ Head(a) \in Acks /\ Tail(a) \in Seq(Acks) /\ Len(Tail(a)) = Len(a) - 1
      /\ \A i \in 1..Len(Tail(a)) : Tail(a)[i] = a[i + 1]
  BY HeadTailProperties
<1>2. Len(a) \in Nat \ {0} /\ DOMAIN a = 1..Len(a)
  BY EmptySeq, LenProperties
<1>3. DOMAIN Tail(a) = 1..(Len(a) - 1)
  BY <1>1, <1>2, LenProperties
<1>4. Head(a) = a[1] /\ 1 \in DOMAIN a
  BY <1>2
<1>5. \A i \in DOMAIN Tail(a) : i + 1 \in DOMAIN a /\ i + 1 # 1 /\ Tail(a)[i] = a[i + 1]
  BY <1>1, <1>2, <1>3
<1> QED
  BY <1>1, <1>4, <1>5 DEF OneAnswer, OnlyErrors

LEMMA LastAck ==
  ASSUME NEW a \in Seq(Acks), NEW x \in Acks
  PROVE  /\ Append(a, x) \in Seq(Acks)
         /\ OnlyErrors(a) => OneAnswer(Append(a, x))
         /\ x = "error" => (OnlyErrors(a) => OnlyErrors(Append(a, x)))
         /\ x = "error" => (OneAnswer(a) => OneAnswer(Append(a, x)))
         /\ \A i \in DOMAIN Append(a, x) :
              Append(a, x)[i] = x \/ (i \in DOMAIN a /\ Append(a, x)[i] = a[i])
<1>1. /\ Append(a, x) \in Seq(Acks) /\ Len(Append(a, x)) = Len(a) + 1
      /\ \A i \in 1..Len(a) : Append(a, x)[i] = a[i]
      /\ Append(a, x)[Len(a) + 1] = x
  BY AppendProperties
<1>2. Len(a) \in Nat /\ DOMAIN a = 1..Len(a)
  BY LenProperties
<1>3. DOMAIN Append(a, x) = 1..(Len(a) + 1)
  BY <1>1, LenProperties
<1>4. \A i \in DOMAIN Append(a, x) :
        (i = Len(a) + 1 /\ Append(a, x)[i] = x) \/ (i \in DOMAIN a /\ Append(a, x)[i] = a[i])
  BY <1>1, <1>2, <1>3
<1> QED
  BY <1>1, <1>4 DEF OneAnswer, OnlyErrors

-----------------------------------------------------------------------------
\* The upload goes on as it was, or is over: nothing new is on its way.
LEMMA StaysInTurn ==
  ASSUME FiTypes, InTurn, fiDone \subseteq fiDone', LetsBe
  PROVE  InTurn'
<1> DEFINE u == fiUpload
           v == fiUpload'
<1> SUFFICES ASSUME v # Idle
             PROVE  MessageOnItsWay' \/ (\E c \in Channels : AnswerOnItsWay(c)') \/ AnswerHasArrived'
  BY DEF InTurn, Channels
<1>1. u # Idle /\ v.r = u.r /\ v.step = u.step /\ v.acks \in {u.acks, Append(u.acks, "error")}
  BY DEF LetsBe
<1>2. u.acks \in Seq(Acks) /\ "error" \in Acks
  BY <1>1 DEF FiTypes, InProgress, Acks
<1>3. /\ OnlyErrors(u.acks) => OnlyErrors(v.acks)
      /\ OneAnswer(u.acks) => OneAnswer(v.acks)
      /\ \A i \in DOMAIN v.acks : v.acks[i] = "accepted" => \E j \in DOMAIN u.acks : u.acks[j] = "accepted"
  <2>1. CASE v.acks = u.acks
    BY <2>1
  <2>2. CASE v.acks = Append(u.acks, "error")
    <3> DEFINE a == u.acks
               b == Append(a, "error")
    <3>1. /\ OnlyErrors(a) => OnlyErrors(b)
          /\ OneAnswer(a) => OneAnswer(b)
          /\ \A i \in DOMAIN b : b[i] = "error" \/ (i \in DOMAIN a /\ b[i] = a[i])
      <4> HIDE DEF a
      <4> QED
        BY <1>2, LastAck DEF a
    <3>2. \A i \in DOMAIN b : b[i] = "accepted" => \E j \in DOMAIN a : a[j] = "accepted"
      BY <3>1
    <3> QED
      BY <2>2, <3>1, <3>2
  <2> QED
    BY <1>1, <2>1, <2>2
<1>4. \A q, p : Within(q, p, u.r) =>
        /\ NoneOf(p, u.r) => NoneOf(q, u.r)
        /\ OneOf(p, u.r) => OneOf(q, u.r)
  BY WithinHasNone DEF Within
<1>w. /\ Within(fiDown', fiDown, u.r)
      /\ \A c \in Channels : Within(fiUp'[c], fiUp[c], u.r)
  BY DEF LetsBe
<1>5. CASE MessageOnItsWay
  <2>1. \A i \in DOMAIN fiDown' : fiDown'[i][2] = u.r => fiDown'[i][1] = u.step
    BY <1>5, <1>w DEF MessageOnItsWay, Within
  <2> QED
    BY <1>1, <1>3, <1>4, <1>w, <1>5, <2>1 DEF MessageOnItsWay, NoneUp, Channels
<1>6. ASSUME NEW c \in Channels, AnswerOnItsWay(c) PROVE AnswerOnItsWay(c)'
  <2>1. u.step = "complete" /\ u.r \notin fiDone' =>
          \A i \in DOMAIN fiUp'[c] : fiUp'[c][i] # <<"accepted", u.r>>
    BY <1>6, <1>w DEF AnswerOnItsWay, Within
  <2> QED
    BY <1>1, <1>3, <1>4, <1>w, <1>6, <2>1 DEF AnswerOnItsWay, Channels
<1>7. CASE AnswerHasArrived
  BY <1>1, <1>3, <1>4, <1>w, <1>7 DEF AnswerHasArrived, NoneUp, Channels
<1> QED
  BY <1>1, <1>5, <1>6, <1>7 DEF InTurn

\* A step that shows what it may: uploads shown with success are published.
LEMMA ShownStays ==
  ASSUME FiTypes, UploadShownIsPublished, fiKind' = fiKind, fiDone \subseteq fiDone', ShownKept
  PROVE  UploadShownIsPublished'
BY DEF UploadShownIsPublished, ShownKept, Uploads

LEMMA SetsStay ==
  ASSUME fiKind' = fiKind
  PROVE  /\ Uploads' = Uploads /\ Others' = Others /\ DownMsgs' = DownMsgs
         /\ UpMsgs' = UpMsgs /\ InProgress' = InProgress
BY DEF Uploads, Others, DownMsgs, UpMsgs, InProgress

LEMMA KindsGrow ==
  ASSUME FiTypes, NEW kind \in FiKinds, fiKind' = Append(fiKind, kind)
  PROVE  /\ fiKind' \in Seq(FiKinds) /\ Len(fiKind') = Len(fiKind) + 1
         /\ Len(fiKind) + 1 \in DOMAIN fiKind' \ DOMAIN fiKind
         /\ DOMAIN fiKind' = DOMAIN fiKind \cup {Len(fiKind) + 1}
         /\ fiKind'[Len(fiKind) + 1] = kind /\ \A r \in DOMAIN fiKind : fiKind'[r] = fiKind[r]
         /\ Uploads \subseteq Uploads' /\ Others \subseteq Others'
         /\ DownMsgs \subseteq DownMsgs' /\ UpMsgs \subseteq UpMsgs'
         /\ fiDown \in Seq(DownMsgs') /\ fiUp \in [Channels -> Seq(UpMsgs')]
         /\ fiExpect \in Seq(Others') /\ DOMAIN fiDownloads \subseteq Others'
         /\ fiUpload = Idle \/ fiUpload \in InProgress'
<1>1. /\ fiKind' \in Seq(FiKinds) /\ Len(fiKind') = Len(fiKind) + 1
      /\ \A i \in 1..Len(fiKind) : fiKind'[i] = fiKind[i]
      /\ fiKind'[Len(fiKind) + 1] = kind
  BY AppendProperties DEF FiTypes
<1>2. Len(fiKind) \in Nat /\ DOMAIN fiKind = 1..Len(fiKind) /\ DOMAIN fiKind' = 1..(Len(fiKind) + 1)
  BY <1>1, LenProperties DEF FiTypes
<1>3. /\ DOMAIN fiKind' = DOMAIN fiKind \cup {Len(fiKind) + 1}
      /\ Len(fiKind) + 1 \in DOMAIN fiKind' \ DOMAIN fiKind
  BY <1>2
<1>4. \A r \in DOMAIN fiKind : fiKind'[r] = fiKind[r]
  BY <1>1, <1>2
<1>5. Uploads \subseteq Uploads' /\ Others \subseteq Others'
  BY <1>3, <1>4 DEF Uploads, Others
<1>6. DownMsgs \subseteq DownMsgs' /\ UpMsgs \subseteq UpMsgs' /\ InProgress \subseteq InProgress'
  BY <1>3, <1>5 DEF DownMsgs, UpMsgs, InProgress
<1>7. /\ Seq(DownMsgs) \subseteq Seq(DownMsgs') /\ Seq(UpMsgs) \subseteq Seq(UpMsgs')
      /\ Seq(Others) \subseteq Seq(Others')
  BY <1>5, <1>6, SeqMonotonic
<1> QED
  BY <1>1, <1>3, <1>4, <1>5, <1>6, <1>7 DEF FiTypes

LEMMA SentOn ==
  ASSUME FiTypes, NEW c, NEW type, NEW r, NEW S, fiDown \in Seq(S), <<type, r>> \in S,
         FiSend(c, type, r)
  PROVE  /\ fiDown' \in Seq(S) /\ (fiDown' # <<>> => fiLink # 0)
         /\ \A q : q # r => Within(fiDown', fiDown, q)
         /\ NoneOf(fiDown, r) => OneOf(fiDown', r)
         /\ \A i \in DOMAIN fiDown' :
              fiDown'[i] = <<type, r>> \/ (i \in DOMAIN fiDown /\ fiDown'[i] = fiDown[i])
<1> DEFINE e == <<type, r>>
<1>1. e[2] = r /\ e \in S
  OBVIOUS
<1>2. CASE c = fiLink /\ c # 0
  <2>1. fiDown' = Append(fiDown, e)
    BY <1>2 DEF FiSend
  <2> HIDE DEF e
  <2>2. \A q : e[2] # q => Within(Append(fiDown, e), fiDown, q)
    BY <1>1, AppendOf
  <2>3. NoneOf(fiDown, r) => OneOf(fiDown', r)
    BY <1>1, <2>1, AppendOf
  <2>4. fiDown' \in Seq(S) /\ fiLink # 0
    BY <1>1, <1>2, <2>1, AppendProperties
  <2>5. \A i \in DOMAIN fiDown' :
          fiDown'[i] = e \/ (i \in DOMAIN fiDown /\ fiDown'[i] = fiDown[i])
    BY <1>1, <2>1, AppendOf
  <2> QED
    BY <1>1, <2>1, <2>2, <2>3, <2>4, <2>5 DEF e
<1>3. CASE ~(c = fiLink /\ c # 0)
  <2>1. fiDown' = fiDown
    BY <1>3 DEF FiSend
  <2> QED
    BY <2>1, WithinItself DEF FiTypes, NoneOf, OneOf
<1> QED
  BY <1>2, <1>3

LEMMA Told ==
  ASSUME FiTypes, fiKind' = fiKind, NEW r \in DOMAIN fiKind, NEW what \in Shown, FiTells(r, what),
         what = "ok" => r \notin Uploads \/ r \in fiDone'
  PROVE  ShownKept
<1>1. DOMAIN fiShown = DOMAIN fiKind
  BY LenProperties DEF FiTypes
<1> DEFINE e == IF fiShown[r] = "nothing" THEN what ELSE fiShown[r]
<1>2. fiShown' = [fiShown EXCEPT ![r] = e]
  BY <1>1 DEF FiTells
<1>3. e \in Shown
  BY <1>1, ElementOfSeq, LenProperties DEF FiTypes
<1>4. fiShown' \in Seq(Shown) /\ Len(fiShown') = Len(fiShown)
  <2> HIDE DEF e
  <2> QED
    BY <1>1, <1>2, <1>3, ExceptSeq DEF FiTypes
<1>5. \A q \in Uploads : fiShown'[q] = "ok" => fiShown[q] = "ok" \/ q \in fiDone'
  BY <1>1, <1>2 DEF Uploads
<1> QED
  BY <1>4, <1>5 DEF ShownKept

LEMMA Unshown == ASSUME FiTypes, fiShown' = fiShown PROVE ShownKept
BY DEF FiTypes, ShownKept

LEMMA Popped ==
  ASSUME FiTypes, fiKind' = fiKind, NEW what \in Shown, FiPop(what)
  PROVE  fiExpect' \in Seq(Others) /\ ShownKept
<1>1. fiExpect \in Seq(Others) /\ fiExpect # <<>> /\ fiExpect' = Tail(fiExpect)
  BY DEF FiTypes, FiPop
<1>2. Head(fiExpect) \in Others /\ fiExpect' \in Seq(Others)
  BY <1>1, HeadTailProperties
<1>3. fiShown' = fiShown => ShownKept
  BY Unshown
<1>4. FiTells(Head(fiExpect), what) => ShownKept
  BY <1>2, Told DEF Others, Uploads
<1> QED
  BY <1>2, <1>3, <1>4 DEF FiPop

LEMMA ChannelFailed ==
  ASSUME FiTypes, FiFailChannel \/ UNCHANGED <<fiShown, fiExpect, fiDownloads, fiUpload>>
  PROVE  /\ ShownKept
         /\ fiExpect' \in Seq(Others) /\ DOMAIN fiDownloads' \subseteq Others
         /\ \/ fiUpload' = Idle
            \/ /\ fiUpload # Idle /\ fiUpload' \in InProgress
               /\ fiUpload'.r = fiUpload.r /\ fiUpload'.step = fiUpload.step
               /\ fiUpload'.acks \in {fiUpload.acks, Append(fiUpload.acks, "error")}
<1>1. CASE UNCHANGED <<fiShown, fiExpect, fiDownloads, fiUpload>>
  BY <1>1, Unshown DEF FiTypes
<1>2. CASE FiFailChannel /\ fiBrowser
  <2>1. fiExpect' = <<>> /\ fiDownloads' = Nothing
    BY <1>2 DEF FiFailChannel
  <2>2. fiExpect' \in Seq(Others) /\ DOMAIN fiDownloads' \subseteq Others
    BY <2>1, EmptySeq DEF Nothing
  <2>3. \E W : fiShown' = [r \in DOMAIN fiShown |->
                            IF r \in W /\ fiShown[r] = "nothing" THEN "channel" ELSE fiShown[r]]
    BY <1>2 DEF FiFailChannel
  <2>4. ShownKept
    <3>1. /\ DOMAIN fiShown = 1..Len(fiShown) /\ Len(fiShown) \in Nat
          /\ \A r \in DOMAIN fiShown : fiShown[r] \in Shown
      BY LenProperties, ElementOfSeq DEF FiTypes
    <3>2. /\ fiShown' \in [1..Len(fiShown) -> Shown]
          /\ \A r \in DOMAIN fiShown : fiShown'[r] = "ok" => fiShown[r] = "ok"
      BY <2>3, <3>1 DEF Shown
    <3>3. fiShown' \in Seq(Shown)
      BY <3>1, <3>2, SeqDef
    <3>4. Len(fiShown') = Len(fiShown)
      BY <3>1, <3>2, <3>3, LenProperties
    <3>5. Uploads \subseteq DOMAIN fiShown
      BY LenProperties DEF FiTypes, Uploads
    <3> QED
      BY <3>2, <3>3, <3>4, <3>5 DEF ShownKept
  <2>5. CASE fiUpload = Idle
    BY <1>2, <2>2, <2>4, <2>5 DEF FiFailChannel, Idle
  <2>6. CASE fiUpload # Idle
    <3>1. fiUpload \in InProgress
      BY <2>6 DEF FiTypes
    <3>2. fiUpload' = [fiUpload EXCEPT !.acks = Append(@, "error")]
      BY <1>2, <3>1 DEF FiFailChannel, InProgress, Steps
    <3>3. fiUpload.acks \in Seq(Acks) /\ "error" \in Acks
      BY <3>1 DEF InProgress, Acks
    <3>4. Append(fiUpload.acks, "error") \in Seq(Acks)
      BY <3>3, AppendProperties
    <3> HIDE <2>6
    <3>5. fiUpload' \in InProgress
      BY <3>1, <3>2, <3>4 DEF InProgress
    <3>6. /\ fiUpload'.r = fiUpload.r /\ fiUpload'.step = fiUpload.step
          /\ fiUpload'.acks = Append(fiUpload.acks, "error")
      BY <3>1, <3>2 DEF InProgress
    <3> QED
      BY <2>2, <2>4, <2>6, <3>5, <3>6
  <2> QED
    BY <2>5, <2>6
<1>3. CASE FiFailChannel /\ ~fiBrowser
  BY <1>1, <1>3 DEF FiFailChannel
<1> QED
  BY <1>1, <1>2, <1>3


\* Messages and answers.
LEMMA Answered ==
  ASSUME FiTypes, fiLink \in Channels, NEW ms \in Seq(UpMsgs), FiAnswer(ms), NEW r
  PROVE  /\ fiUp' \in [Channels -> Seq(UpMsgs)]
         /\ \A c \in Channels \ {fiLink} : fiUp'[c] = fiUp[c]
         /\ fiUp'[fiLink] = fiUp[fiLink] \o ms
         /\ NoneOf(ms, r) => \A c \in Channels : Within(fiUp'[c], fiUp[c], r)
<1>1. fiUp \in [Channels -> Seq(UpMsgs)] /\ fiUp' = [fiUp EXCEPT ![fiLink] = @ \o ms]
  BY DEF FiTypes, FiAnswer
<1>2. fiUp[fiLink] \in Seq(UpMsgs) /\ fiUp[fiLink] \o ms \in Seq(UpMsgs)
  BY <1>1, ConcatProperties
<1>3. /\ fiUp' \in [Channels -> Seq(UpMsgs)]
      /\ \A c \in Channels \ {fiLink} : fiUp'[c] = fiUp[c]
      /\ fiUp'[fiLink] = fiUp[fiLink] \o ms
  BY <1>1, <1>2
<1>4. ASSUME NoneOf(ms, r), NEW c \in Channels PROVE Within(fiUp'[c], fiUp[c], r)
  <2>1. CASE c = fiLink
    BY <1>2, <1>3, <1>4, <2>1, ConcatOf
  <2>2. CASE c # fiLink
    BY <1>3, <2>2, WithinItself
  <2> QED
    BY <2>1, <2>2
<1> QED
  BY <1>3, <1>4

LEMMA Got ==
  ASSUME FiTypes, NEW type, NEW r, FiGet(type, r), NEW q
  PROVE  /\ <<type, r>> \in DownMsgs /\ fiLink \in Channels
         /\ fiDown' \in Seq(DownMsgs) /\ (fiDown' # <<>> => fiLink' # 0)
         /\ Within(fiDown', fiDown, q)
         /\ NoneOf(fiDown, q) => r # q
         /\ OneOf(fiDown, q) /\ r = q => NoneOf(fiDown', q)
         /\ UNCHANGED fiLink /\ UNCHANGED fibackend
<1>1. /\ fiDown \in Seq(DownMsgs) /\ fiDown # <<>> /\ Head(fiDown) = <<type, r>>
      /\ fiDown' = Tail(fiDown) /\ UNCHANGED fiLink /\ UNCHANGED fibackend /\ fiLink \in Channels
  BY DEF FiTypes, FiGet
<1>2. <<type, r>>[2] = r
  OBVIOUS
<1> HIDE DEF Channels
<1>3. fiLink # 0
  BY <1>1 DEF FiTypes
<1> QED
  BY <1>1, <1>2, <1>3, TailOf

LEMMA Taken ==
  ASSUME FiTypes, NEW c, NEW type, NEW r, FiTake(c, type, r)
  PROVE  /\ c \in Channels /\ <<type, r>> \in UpMsgs
         /\ fiUp' \in [Channels -> Seq(UpMsgs)]
         /\ \A q : \A d \in Channels : Within(fiUp'[d], fiUp[d], q)
         /\ ~NoneOf(fiUp[c], r)
         /\ OneOf(fiUp[c], r) => NoneOf(fiUp'[c], r)
         /\ \A d \in Channels \ {c} : fiUp'[d] = fiUp[d]
         /\ 1 \in DOMAIN fiUp[c] /\ fiUp[c][1] = Head(fiUp[c])
<1>1. /\ c \in Channels /\ fiUp[c] \in Seq(UpMsgs) /\ fiUp[c] # <<>>
      /\ Head(fiUp[c]) = <<type, r>> /\ fiUp' = [fiUp EXCEPT ![c] = Tail(fiUp[c])]
      /\ fiUp \in [Channels -> Seq(UpMsgs)]
  BY DEF FiTypes, FiTake
<1>2. <<type, r>>[2] = r
  OBVIOUS
<1>3. /\ Tail(fiUp[c]) \in Seq(UpMsgs) /\ <<type, r>> \in UpMsgs
      /\ \A q : Within(Tail(fiUp[c]), fiUp[c], q)
  BY <1>1, TailOf
<1>4. /\ ~NoneOf(fiUp[c], r)
      /\ OneOf(fiUp[c], r) => NoneOf(Tail(fiUp[c]), r)
  BY <1>1, <1>2, TailOf
<1>5. /\ fiUp' \in [Channels -> Seq(UpMsgs)] /\ fiUp'[c] = Tail(fiUp[c])
      /\ \A d \in Channels \ {c} : fiUp'[d] = fiUp[d]
  BY <1>1, <1>3
<1>6. 1 \in DOMAIN fiUp[c] /\ fiUp[c][1] = Head(fiUp[c])
  BY <1>1, EmptySeq, LenProperties
<1>7. \A q : \A d \in Channels : Within(fiUp'[d], fiUp[d], q)
  BY <1>3, <1>5, WithinItself
<1> QED
  BY <1>1, <1>3, <1>4, <1>5, <1>6, <1>7

LEMMA UploadIs ==
  ASSUME FiTypes, fiUpload # Idle
  PROVE  fiUpload \in InProgress /\ fiUpload.r \in Uploads /\ fiUpload.acks \in Seq(Acks)
         /\ fiUpload.step \in Steps /\ fiUpload.r # 0 /\ fiUpload.r \notin Others
BY LenProperties DEF FiTypes, InProgress, Uploads, Others

\* The agent answers the message of the upload: it was the last one, and is no
\* more.
LEMMA AnswersUpload ==
  ASSUME FiTypes, InTurn, fiUpload # Idle, fiDone \subseteq fiDone', NEW type, NEW ack \in Acks,
         FiGet(type, fiUpload.r), FiAnswer(<<<<ack, fiUpload.r>>>>),
         type = "complete" /\ ack = "accepted" => fiUpload.r \in fiDone'
  PROVE  InTurn'
<1> DEFINE u == fiUpload
           e == <<ack, u.r>>
<1>1. u' = u /\ u.r \in Uploads
  BY UploadIs DEF FiGet, fibackend
<1>2. MessageOnItsWay
  BY Got DEF InTurn, AnswerOnItsWay, AnswerHasArrived
<1>3. type = u.step /\ NoneOf(fiDown', u.r)
  <2>1. 1 \in DOMAIN fiDown /\ fiDown[1] = <<type, u.r>>
    BY EmptySeq, LenProperties DEF FiGet, FiTypes
  <2> QED
    BY <1>2, <2>1, Got DEF MessageOnItsWay
<1>4. fiLink \in Channels /\ fiUp \in [Channels -> Seq(UpMsgs)]
  BY Got DEF FiTypes
<1>5. e \in UpMsgs /\ e[2] = u.r
  BY <1>1 DEF UpMsgs, Uploads
<1>6. <<e>> \in Seq(UpMsgs) /\ fiUp[fiLink] \o <<e>> = Append(fiUp[fiLink], e)
  <2> HIDE DEF e
  <2> QED
    BY <1>4, <1>5, ConcatProperties, AppendIsConcat
<1>7. /\ fiUp'[fiLink] = Append(fiUp[fiLink], e)
      /\ \A c \in Channels \ {fiLink} : fiUp'[c] = fiUp[c]
  BY <1>4, <1>6, Answered
<1>8. /\ OneOf(fiUp'[fiLink], u.r)
      /\ \A i \in DOMAIN fiUp'[fiLink] :
           fiUp'[fiLink][i] = e
             \/ (i \in DOMAIN fiUp[fiLink] /\ fiUp'[fiLink][i] = fiUp[fiLink][i])
  <2> HIDE DEF e
  <2> QED
    BY <1>2, <1>4, <1>5, <1>7, AppendOf DEF MessageOnItsWay, NoneUp
<1>9. u.step = "complete" /\ u.r \notin fiDone' =>
        \A i \in DOMAIN fiUp'[fiLink] : fiUp'[fiLink][i] # <<"accepted", u.r>>
  <2>1. \A i \in DOMAIN fiUp[fiLink] : fiUp[fiLink][i] # <<"accepted", u.r>>
    BY <1>2, <1>4 DEF MessageOnItsWay, NoneUp, NoneOf
  <2>2. u.step = "complete" /\ u.r \notin fiDone' => e # <<"accepted", u.r>>
    BY <1>3
  <2> QED
    BY <1>8, <2>1, <2>2
<1>10. ASSUME NEW c \in Channels, c = fiLink PROVE AnswerOnItsWay(c)'
  BY <1>1, <1>2, <1>3, <1>4, <1>7, <1>8, <1>9, <1>10 DEF AnswerOnItsWay, MessageOnItsWay, NoneUp, Channels, FiGet
<1> QED
  BY <1>4, <1>10 DEF InTurn, Channels

-----------------------------------------------------------------------------
LEMMA TypesKeep ==
  ASSUME FiTypes, fiKind' = fiKind, ShownKept,
         {fiLink', fiFiles'} \subseteq {0} \cup Channels, fiConns' \in Channels,
         fiHandlers' \subseteq Channels,
         fiDown' \in Seq(DownMsgs), fiDown' # <<>> => fiLink' # 0,
         fiUp' \in [Channels -> Seq(UpMsgs)], fiExpect' \in Seq(Others),
         DOMAIN fiDownloads' \subseteq Others, fiUpload' = Idle \/ fiUpload' \in InProgress
  PROVE  FiTypes'
BY SetsStay DEF FiTypes, ShownKept, Channels

LEMMA QuietKeeps ==
  ASSUME FiInv, fiKind' = fiKind, fiDone \subseteq fiDone', ShownKept, FiTypes', LetsBe \/ InTurn'
  PROVE  FiInv'
BY StaysInTurn, ShownStays DEF FiInv

LEMMA AgentKeeps ==
  ASSUME FiInv, UNCHANGED fibackend, fiDone \subseteq fiDone', fiLink' \in {0} \cup Channels,
         fiDown' \in Seq(DownMsgs), fiDown' # <<>> => fiLink' # 0,
         fiUp' \in [Channels -> Seq(UpMsgs)],
         InTurn' \/ (fiUpload # Idle => /\ Within(fiDown', fiDown, fiUpload.r)
                                        /\ \A c \in Channels : Within(fiUp'[c], fiUp[c], fiUpload.r))
  PROVE  FiInv'
<1>1. FiTypes /\ fiKind' = fiKind /\ ShownKept
  BY Unshown DEF FiInv, fibackend
<1>2. FiTypes'
  BY <1>1, TypesKeep DEF FiTypes, fibackend
<1>3. LetsBe \/ InTurn'
  BY DEF LetsBe, fibackend
<1> QED
  BY <1>1, <1>2, <1>3, QuietKeeps

LEMMA AnswersOther ==
  ASSUME FiInv, NEW type, NEW r, FiGet(type, r), NEW ms \in Seq(UpMsgs), FiAnswer(ms),
         fiDone \subseteq fiDone', fiUpload # Idle => NoneOf(ms, fiUpload.r)
  PROVE  FiInv'
<1>1. /\ fiLink \in Channels /\ UNCHANGED fiLink /\ UNCHANGED fibackend
      /\ fiDown' \in Seq(DownMsgs) /\ (fiDown' # <<>> => fiLink' # 0)
      /\ Within(fiDown', fiDown, fiUpload.r)
  BY Got DEF FiInv
<1>2. /\ fiUp' \in [Channels -> Seq(UpMsgs)]
      /\ fiUpload # Idle => \A c \in Channels : Within(fiUp'[c], fiUp[c], fiUpload.r)
  BY <1>1, Answered DEF FiInv
<1> QED
  BY <1>1, <1>2, AgentKeeps

\* One answer to one message.
LEMMA OneMessage ==
  ASSUME NEW m \in UpMsgs PROVE <<m>> \in Seq(UpMsgs) /\ \A r : m[2] # r => NoneOf(<<m>>, r)
<1>1. <<m>> \in Seq(UpMsgs)
  OBVIOUS
<1>2. DOMAIN <<m>> = {1} /\ <<m>>[1] = m
  OBVIOUS
<1> QED
  BY <1>1, <1>2 DEF NoneOf

LEMMA AnswersOne ==
  ASSUME FiInv, NEW type, NEW r \in {0} \cup DOMAIN fiKind, FiGet(type, r), NEW ack \in Acks,
         FiAnswer(<<<<ack, r>>>>), fiDone \subseteq fiDone',
         type = "complete" /\ ack = "accepted" => r \in fiDone'
  PROVE  FiInv'
<1>1. <<ack, r>> \in UpMsgs /\ <<ack, r>>[2] = r
  BY DEF UpMsgs
<1>2. CASE fiUpload # Idle /\ fiUpload.r = r
  <2>1. InTurn'
    BY <1>2, AnswersUpload DEF FiInv
  <2>2. /\ fiLink \in Channels /\ UNCHANGED fiLink /\ UNCHANGED fibackend
        /\ fiDown' \in Seq(DownMsgs) /\ (fiDown' # <<>> => fiLink' # 0)
    BY Got DEF FiInv
  <2>3. fiUp' \in [Channels -> Seq(UpMsgs)]
    BY <1>1, <2>2, OneMessage, Answered DEF FiInv
  <2> QED
    BY <2>1, <2>2, <2>3, AgentKeeps
<1>3. CASE ~(fiUpload # Idle /\ fiUpload.r = r)
  BY <1>1, <1>3, OneMessage, AnswersOther
<1> QED
  BY <1>2, <1>3

LEMMA AgentStepKeeps == ASSUME FiInv, FiAgentStep PROVE FiInv'
<1> USE DEF FiInv
<1>1. CASE FiOpened
  <2>1. FiGet("open", 0) /\ fiDone' = fiDone
    BY <1>1 DEF FiOpened
  <2>2. CASE fiUp' = fiUp
    BY <2>1, <2>2, Got, WithinItself, AgentKeeps DEF FiTypes
  <2>3. CASE FiAnswer(<<<<"error", 0>>>>)
    BY <2>1, <2>3, AnswersOne DEF Acks
  <2> QED
    BY <1>1, <2>2, <2>3 DEF FiOpened
<1>2. CASE FiClosed
  <2>1. FiGet("close", 0) /\ fiDone' = fiDone
    BY <1>2 DEF FiClosed
  <2>2. CASE fiUp' = fiUp
    BY <2>1, <2>2, Got, WithinItself, AgentKeeps DEF FiTypes
  <2>3. CASE FiAnswer(<<<<"error", 0>>>>)
    BY <2>1, <2>3, AnswersOne DEF Acks
  <2> QED
    BY <1>2, <2>2, <2>3 DEF FiClosed
<1>3. CASE FiChannelLost
  <2>1. PICK n \in 0..Len(fiUp[fiLink]) : fiUp' = [fiUp EXCEPT ![fiLink] = SubSeq(@, 1, n)]
    BY <1>3 DEF FiChannelLost
  <2>2. /\ fiLink \in Channels /\ fiLink' = 0 /\ fiDown' = <<>>
        /\ UNCHANGED fibackend /\ fiDone' = fiDone
        /\ fiUp \in [Channels -> Seq(UpMsgs)]
    BY <1>3 DEF FiChannelLost, FiTypes
  <2>3. fiUp[fiLink] \in Seq(UpMsgs)
    BY <2>2
  <2>4. /\ SubSeq(fiUp[fiLink], 1, n) \in Seq(UpMsgs)
        /\ Within(SubSeq(fiUp[fiLink], 1, n), fiUp[fiLink], fiUpload.r)
    BY <2>1, <2>3, PrefixOf
  <2>5. fiUp' \in [Channels -> Seq(UpMsgs)]
    BY <2>1, <2>2, <2>4
  <2>6. \A c \in Channels : Within(fiUp'[c], fiUp[c], fiUpload.r)
    BY <2>1, <2>2, <2>4, WithinItself
  <2>7. fiDown' \in Seq(DownMsgs) /\ Within(fiDown', fiDown, fiUpload.r)
    BY <2>2, WithinItself, EmptySeq
  <2> QED
    BY <2>2, <2>5, <2>6, <2>7, AgentKeeps
<1>4. ASSUME NEW r \in DOMAIN fiKind, FiReads(r) PROVE FiInv'
  <2>1. FiGet("download", r) /\ fiDone' = fiDone
    BY <1>4 DEF FiReads
  <2>2. r \in Others
    <3>1. <<"download", r>> \in DownMsgs
      BY <2>1, Got
    <3> QED
      BY <3>1 DEF DownMsgs, Steps
  <2>3. fiUpload # Idle => fiUpload.r # r
    BY <2>2, UploadIs
  <2>4. PICK n \in 0..FiChunks :
          FiAnswer([i \in 1..n |-> <<"chunk", r>>]
                   \o (IF n = FiChunks THEN <<<<"complete", r>>>> ELSE <<<<"error", r>>>>))
    BY <1>4 DEF FiReads
  <2> DEFINE p == [i \in 1..n |-> <<"chunk", r>>]
             e == IF n = FiChunks THEN <<"complete", r>> ELSE <<"error", r>>
  <2>5. e \in UpMsgs /\ <<"chunk", r>> \in UpMsgs /\ e[2] = r /\ <<"chunk", r>>[2] = r
    BY DEF UpMsgs, Acks
  <2>6. p \in Seq(UpMsgs) /\ \A i \in DOMAIN p : p[i][2] = r
    <3>1. n \in Nat
      BY <2>4, FiAssumption
    <3>2. p \in [1..n -> UpMsgs]
      BY <2>5
    <3> QED
      BY <2>5, <3>1, <3>2, SeqDef
  <2>7. <<e>> \in Seq(UpMsgs) /\ FiAnswer(p \o <<e>>)
    BY <2>4, <2>5
  <2> HIDE DEF p, e
  <2>8. p \o <<e>> \in Seq(UpMsgs) /\ (fiUpload # Idle => NoneOf(p \o <<e>>, fiUpload.r))
    <3>1. fiUpload # Idle => NoneOf(<<e>>, fiUpload.r) /\ NoneOf(p, fiUpload.r)
      BY <2>3, <2>5, <2>6, OneMessage DEF NoneOf
    <3>2. fiUpload # Idle => Within(p \o <<e>>, p, fiUpload.r)
      BY <2>6, <2>7, <3>1, ConcatOf
    <3> QED
      BY <2>6, <2>7, <3>1, <3>2, ConcatProperties, WithinHasNone
  <2> QED
    BY <2>1, <2>7, <2>8, AnswersOther
<1>5. ASSUME NEW r \in DOMAIN fiKind, FiOffered(r) PROVE FiInv'
  <2>1. FiGet("offer", r) /\ fiDone' = fiDone
    BY <1>5 DEF FiOffered
  <2>2. CASE FiAnswer(<<<<"accepted", r>>>>)
    <3>1. "accepted" \in Acks /\ ~("offer" = "complete" /\ "accepted" = "accepted")
      BY DEF Acks
    <3> HIDE DEF FiInv
    <3> QED
      BY <2>1, <2>2, <3>1, AnswersOne
  <2>3. CASE FiAnswer(<<<<"exists", r>>>>)
    BY <2>1, <2>3, AnswersOne DEF Acks
  <2> QED
    BY <1>5, <2>2, <2>3 DEF FiOffered
<1>6. ASSUME NEW r \in DOMAIN fiKind, FiStages(r) PROVE FiInv'
  <2>1. /\ FiGet("chunk", r) /\ fiDone' = fiDone /\ FiAnswer(<<<<"accepted", r>>>>)
        /\ "accepted" \in Acks /\ ~("chunk" = "complete" /\ "accepted" = "accepted")
    BY <1>6 DEF FiStages, Acks
  <2> HIDE DEF FiInv
  <2> QED
    BY <2>1, AnswersOne
<1>7. ASSUME NEW r \in DOMAIN fiKind, FiPublishes(r) PROVE FiInv'
  BY <1>7, AnswersOne DEF FiPublishes, Acks
<1>8. ASSUME NEW r \in DOMAIN fiKind, NEW type, FiOperates(type, r) PROVE FiInv'
  <2> DEFINE e == <<IF type = "list" THEN "listing" ELSE "result", r>>
  <2>1. /\ type \in {"list", "change", "move"} /\ FiGet(type, r) /\ fiDone' = fiDone \cup {r}
        /\ FiAnswer(<<e>>)
    BY <1>8 DEF FiOperates
  <2>2. r \in Others
    BY <2>1, Got DEF DownMsgs, Steps
  <2>3. e \in UpMsgs /\ e[2] = r
    BY DEF UpMsgs
  <2> HIDE DEF e
  <2>4. <<e>> \in Seq(UpMsgs) /\ (fiUpload # Idle => NoneOf(<<e>>, fiUpload.r))
    BY <2>2, <2>3, OneMessage, UploadIs
  <2> QED
    BY <2>1, <2>4, AnswersOther
<1>9. ASSUME NEW r \in DOMAIN fiKind, NEW type, FiFails(type, r) PROVE FiInv'
  BY <1>9, AnswersOne DEF FiFails, Acks
<1> QED
  BY <1>1, <1>2, <1>3, <1>4, <1>5, <1>6, <1>7, <1>8, <1>9 DEF FiAgentStep

-----------------------------------------------------------------------------
\* A handler takes a message, and lets the upload be.
LEMMA TakeKeeps ==
  ASSUME FiInv, NEW c, NEW type, NEW r, FiTake(c, type, r), UNCHANGED fiUpload, ShownKept,
         fiExpect' \in Seq(Others), DOMAIN fiDownloads' \subseteq Others
  PROVE  FiInv'
<1>1. /\ FiTypes /\ fiUp' \in [Channels -> Seq(UpMsgs)]
      /\ \A d \in Channels : Within(fiUp'[d], fiUp[d], fiUpload.r)
  BY Taken DEF FiInv
<1>2. /\ UNCHANGED <<fiBrowser, fiKind, fiFiles, fiHandlers, fiConns, fiLink, fiDown, fiSession,
                     fiStaged, fiDone>>
  BY DEF FiTake
<1>3. FiTypes'
  BY <1>1, <1>2, TypesKeep DEF FiTypes
<1>4. LetsBe
  BY <1>1, <1>2, WithinItself DEF LetsBe
<1> QED
  BY <1>2, <1>3, <1>4, QuietKeeps

LEMMA AckKeeps ==
  ASSUME FiInv, NEW c, NEW type, NEW r, FiAck(c, type, r)
  PROVE  FiInv'
<1> DEFINE u == fiUpload
<1>1. /\ FiTypes /\ InTurn /\ u # Idle /\ u.r = r /\ type \in Acks /\ FiTake(c, type, r)
      /\ fiUpload' = [u EXCEPT !.acks = Append(@, type)]
      /\ UNCHANGED <<fiShown, fiExpect, fiDownloads, fiReady>>
  BY DEF FiAck, FiInv, Idle, Acks
<1>2. u \in InProgress /\ u.r \in Uploads /\ u.acks \in Seq(Acks)
  BY <1>1, UploadIs
<1>3. /\ c \in Channels /\ fiUp' \in [Channels -> Seq(UpMsgs)]
      /\ \A d \in Channels \ {c} : fiUp'[d] = fiUp[d]
      /\ ~NoneOf(fiUp[c], r)
      /\ OneOf(fiUp[c], r) => NoneOf(fiUp'[c], r)
      /\ 1 \in DOMAIN fiUp[c] /\ fiUp[c][1] = Head(fiUp[c]) /\ Head(fiUp[c]) = <<type, r>>
  BY <1>1, Taken, ZenonT(60) DEF FiTake
<1>4. AnswerOnItsWay(c)
  BY <1>1, <1>3 DEF InTurn, MessageOnItsWay, AnswerOnItsWay, AnswerHasArrived, NoneUp
<1>5. Append(u.acks, type) \in Seq(Acks)
  BY <1>1, <1>2, AppendProperties
<1>6. /\ fiUpload' \in InProgress /\ fiUpload'.r = u.r /\ fiUpload'.step = u.step
      /\ fiUpload'.acks = Append(u.acks, type)
  <2> HIDE DEF u
  <2> QED
    BY <1>1, <1>2, <1>5 DEF InProgress
<1>7. UNCHANGED <<fiKind, fiFiles, fiHandlers, fiConns, fiLink, fiDown, fiDone>>
  BY <1>1 DEF FiTake
<1>8. ShownKept
  BY <1>1, Unshown
<1>9. FiTypes'
  BY <1>1, <1>3, <1>6, <1>7, <1>8, TypesKeep DEF FiTypes
<1>10. /\ OneAnswer(fiUpload'.acks)
       /\ \A i \in DOMAIN fiUpload'.acks :
            fiUpload'.acks[i] = type
              \/ (i \in DOMAIN u.acks /\ fiUpload'.acks[i] = u.acks[i])
  <2> DEFINE a == u.acks
  <2>1. a \in Seq(Acks) /\ OnlyErrors(a) /\ fiUpload'.acks = Append(a, type)
    BY <1>2, <1>4, <1>6 DEF AnswerOnItsWay
  <2> HIDE DEF a
  <2>2. /\ OneAnswer(Append(a, type))
        /\ \A i \in DOMAIN Append(a, type) :
             Append(a, type)[i] = type \/ (i \in DOMAIN a /\ Append(a, type)[i] = a[i])
    BY <1>1, <2>1, LastAck
  <2> QED
    BY <2>1, <2>2 DEF a
<1>11. u.step = "complete" /\ u.r \notin fiDone' =>
         \A i \in DOMAIN fiUpload'.acks : fiUpload'.acks[i] # "accepted"
  <2>1. u.step = "complete" /\ u.r \notin fiDone' => type # "accepted"
    BY <1>1, <1>3, <1>4, <1>7 DEF AnswerOnItsWay
  <2>2. \A i \in DOMAIN u.acks : u.acks[i] # "accepted"
    BY <1>4 DEF AnswerOnItsWay, OnlyErrors
  <2> QED
    BY <1>10, <2>1, <2>2
<1>12. AnswerHasArrived'
  BY <1>1, <1>3, <1>4, <1>6, <1>7, <1>10, <1>11 DEF AnswerHasArrived, AnswerOnItsWay, NoneUp, Channels
<1>13. InTurn'
  BY <1>12 DEF InTurn
<1> QED
  BY <1>7, <1>8, <1>9, <1>13, QuietKeeps

LEMMA HandleKeeps == ASSUME FiInv, NEW c, FiHandle(c) PROVE FiInv'
<1>1. FiTypes /\ fiExpect \in Seq(Others) /\ DOMAIN fiDownloads \subseteq Others
  BY DEF FiInv, FiTypes
<1>2. PICK r \in 0..Len(fiKind) :
        \/ FiResult(c, r) \/ FiListing(c, r) \/ FiLateAccepted(c, r) \/ FiChunk(c, r) \/ FiComplete(c, r)
        \/ \E type \in {"accepted", "exists", "error"} : FiAck(c, type, r) \/ FiError(c, type, r)
  BY DEF FiHandle
<1>3. CASE FiResult(c, r)
  <2>1. FiTake(c, "result", r) /\ UNCHANGED <<fiUpload, fiDownloads, fiReady>> /\ fiKind' = fiKind
    BY <1>3 DEF FiResult, FiTake
  <2>2. fiExpect' \in Seq(Others) /\ ShownKept
    BY <1>1, <1>3, <2>1, Popped, Unshown DEF FiResult, Shown
  <2> QED
    BY <1>1, <2>1, <2>2, TakeKeeps
<1>4. CASE FiListing(c, r)
  <2>1. FiTake(c, "listing", r) /\ UNCHANGED <<fiUpload, fiDownloads, fiReady>> /\ fiKind' = fiKind
    BY <1>4 DEF FiListing, FiTake
  <2>2. fiExpect' \in Seq(Others) /\ ShownKept
    BY <1>1, <1>4, <2>1, Popped, Unshown DEF FiListing, Shown
  <2> QED
    BY <1>1, <2>1, <2>2, TakeKeeps
<1>5. CASE FiLateAccepted(c, r)
  BY <1>1, <1>5, Unshown, TakeKeeps DEF FiLateAccepted
<1>6. CASE FiChunk(c, r)
  BY <1>1, <1>6, Unshown, TakeKeeps DEF FiChunk
<1>7. CASE FiComplete(c, r)
  <2>1. FiTake(c, "complete", r) /\ UNCHANGED <<fiExpect, fiUpload>> /\ fiKind' = fiKind
    BY <1>7 DEF FiComplete, FiTake
  <2>2. DOMAIN fiDownloads' \subseteq Others /\ ShownKept
    <3>1. CASE r \in DOMAIN fiDownloads
      <4>1. /\ \E what \in {"ok", "failed"} : FiTells(r, what)
            /\ DOMAIN fiDownloads' \subseteq Others
        BY <1>1, <1>7, <3>1 DEF FiComplete, Without
      <4>2. r \in DOMAIN fiKind \ Uploads
        BY <1>1, <3>1 DEF Others, Uploads
      <4> QED
        BY <1>1, <2>1, <4>1, <4>2, Told DEF Shown
    <3>2. CASE r \notin DOMAIN fiDownloads
      BY <1>1, <1>7, <3>2, Unshown DEF FiComplete
    <3> QED
      BY <3>1, <3>2
  <2> QED
    BY <1>1, <2>1, <2>2, TakeKeeps
<1>8. CASE \E type \in {"accepted", "exists", "error"} : FiAck(c, type, r)
  BY <1>8, AckKeeps
<1>9. ASSUME NEW type, FiError(c, type, r) PROVE FiInv'
  <2>1. FiTake(c, type, r) /\ UNCHANGED <<fiUpload, fiReady>> /\ fiKind' = fiKind
    BY <1>9 DEF FiError, FiTake
  <2>2. CASE r \in DOMAIN fiDownloads
    <3>1. FiTells(r, "failed") /\ DOMAIN fiDownloads' \subseteq Others /\ fiExpect' = fiExpect
      BY <1>1, <1>9, <2>2 DEF FiError, Without
    <3>2. r \in DOMAIN fiKind
      BY <1>1, <2>2 DEF Others
    <3> QED
      BY <1>1, <2>1, <3>1, <3>2, Told, TakeKeeps DEF Shown
  <2>3. CASE r \notin DOMAIN fiDownloads
    <3>1. /\ fiDownloads' = fiDownloads
          /\ \/ \E what \in {"transfer", "failed"} : FiPop(what)
             \/ UNCHANGED <<fiExpect, fiShown>>
      BY <1>9, <2>3 DEF FiError
    <3>2. fiExpect' \in Seq(Others) /\ ShownKept
      BY <1>1, <2>1, <3>1, Popped, Unshown DEF Shown
    <3> QED
      BY <1>1, <2>1, <3>1, <3>2, TakeKeeps
  <2> QED
    BY <2>2, <2>3
<1> QED
  BY <1>2, <1>3, <1>4, <1>5, <1>6, <1>7, <1>8, <1>9

-----------------------------------------------------------------------------
LEMMA RegisterKeeps == ASSUME FiInv, FiRegister PROVE FiInv'
<1>1. /\ FiTypes /\ fiKind' = fiKind /\ fiDone' = fiDone /\ fiUp' = fiUp
      /\ fiConns + 1 \in Channels /\ fiConns' = fiConns + 1 /\ fiLink' = fiConns + 1
      /\ fiFiles' = fiConns + 1 /\ fiHandlers' = fiHandlers \cup {fiConns + 1}
      /\ fiDown' \in {<<<<"open", 0>>>>, <<>>}
      /\ fiDown = <<>>
  BY FiAssumption DEF FiInv, FiTypes, FiRegister, Channels
<1>2. /\ ShownKept /\ fiExpect' \in Seq(Others) /\ DOMAIN fiDownloads' \subseteq Others
      /\ \/ fiUpload' = Idle
         \/ /\ fiUpload # Idle /\ fiUpload' \in InProgress
            /\ fiUpload'.r = fiUpload.r /\ fiUpload'.step = fiUpload.step
            /\ fiUpload'.acks \in {fiUpload.acks, Append(fiUpload.acks, "error")}
  BY <1>1, ChannelFailed DEF FiRegister
<1>3. fiDown' \in Seq(DownMsgs) /\ \A i \in DOMAIN fiDown' : fiDown'[i][2] = 0
  <2> DEFINE e == <<"open", 0>>
  <2>1. e \in DownMsgs /\ e[2] = 0
    BY DEF DownMsgs
  <2>2. fiDown' \in {<<e>>, <<>>} /\ DOMAIN <<e>> = {1} /\ <<e>>[1] = e
    BY <1>1
  <2> HIDE DEF e
  <2>3. <<e>> \in Seq(DownMsgs)
    BY <2>1
  <2>4. CASE fiDown' = <<e>>
    BY <2>1, <2>2, <2>3, <2>4
  <2>5. CASE fiDown' = <<>>
    BY <2>5, EmptySeq
  <2> QED
    BY <2>2, <2>4, <2>5
<1>4. FiTypes'
  <2>1. fiConns + 1 # 0
    BY <1>1 DEF Channels
  <2> HIDE DEF Channels
  <2> QED
    BY <1>1, <1>2, <1>3, <2>1, TypesKeep DEF FiTypes
<1>5. LetsBe
  <2>1. fiUpload # Idle => Within(fiDown', fiDown, fiUpload.r)
    BY <1>1, <1>3, UploadIs DEF Within, OneOf
  <2> QED
    BY <1>1, <1>2, <2>1, WithinItself DEF LetsBe
<1> QED
  BY <1>1, <1>2, <1>4, <1>5, QuietKeeps

LEMMA HandlerEndsKeeps == ASSUME FiInv, NEW c, FiHandlerEnds(c) PROVE FiInv'
<1>1. /\ FiTypes /\ UNCHANGED <<fiKind, fiConns, fiLink, fiDown, fiDone>>
      /\ c \in Channels /\ fiUp' = [fiUp EXCEPT ![c] = <<>>] /\ fiHandlers' \subseteq Channels
      /\ fiFiles' \in {0} \cup Channels
  BY DEF FiInv, FiTypes, FiHandlerEnds
<1>2. /\ ShownKept /\ fiExpect' \in Seq(Others) /\ DOMAIN fiDownloads' \subseteq Others
      /\ \/ fiUpload' = Idle
         \/ /\ fiUpload # Idle /\ fiUpload' \in InProgress
            /\ fiUpload'.r = fiUpload.r /\ fiUpload'.step = fiUpload.step
            /\ fiUpload'.acks \in {fiUpload.acks, Append(fiUpload.acks, "error")}
  BY <1>1, ChannelFailed DEF FiHandlerEnds
<1>3. fiUp' \in [Channels -> Seq(UpMsgs)]
  BY <1>1, EmptySeq DEF FiTypes
<1>4. \A d \in Channels : Within(fiUp'[d], fiUp[d], fiUpload.r)
  BY <1>1, WithinItself DEF FiTypes
<1>5. FiTypes'
  BY <1>1, <1>2, <1>3, TypesKeep DEF FiTypes
<1>6. LetsBe
  BY <1>1, <1>2, <1>4, WithinItself DEF LetsBe
<1> QED
  BY <1>1, <1>2, <1>5, <1>6, QuietKeeps

LEMMA BrowserGoneKeeps == ASSUME FiInv, FiBrowserGone PROVE FiInv'
<1>1. /\ FiTypes /\ fiExpect' = <<>> /\ fiDownloads' = Nothing /\ FiSend(fiFiles, "close", 0)
      /\ UNCHANGED <<fiKind, fiShown, fiFiles, fiHandlers, fiConns, fiLink, fiUp, fiUpload, fiDone>>
  BY DEF FiInv, FiBrowserGone
<1>2. <<"close", 0>> \in DownMsgs
  BY DEF DownMsgs
<1>3. /\ fiDown' \in Seq(DownMsgs) /\ (fiDown' # <<>> => fiLink # 0)
      /\ fiUpload # Idle => Within(fiDown', fiDown, fiUpload.r)
  BY <1>1, <1>2, SentOn, UploadIs DEF FiTypes
<1>4. FiTypes' /\ ShownKept
  <2>1. ShownKept /\ fiExpect' \in Seq(Others) /\ DOMAIN fiDownloads' \subseteq Others
    BY <1>1, Unshown, EmptySeq DEF Nothing
  <2> QED
    BY <1>1, <1>3, <2>1, TypesKeep DEF FiTypes
<1>5. LetsBe
  BY <1>1, <1>3, WithinItself DEF LetsBe
<1> QED
  BY <1>1, <1>4, <1>5, QuietKeeps

LEMMA FetchKeeps == ASSUME FiInv, UNCHANGED fivars \/ \E r \in fiReady : FiFetch(r) PROVE FiInv'
<1>1. /\ FiTypes
      /\ UNCHANGED <<fiKind, fiShown, fiFiles, fiHandlers, fiConns, fiLink, fiDown, fiUp,
                     fiExpect, fiUpload, fiDownloads, fiDone>>
  BY DEF FiInv, FiFetch, fivars
<1>2. ShownKept
  BY <1>1, Unshown
<1>3. FiTypes'
  BY <1>1, <1>2, TypesKeep DEF FiTypes
<1>4. LetsBe
  BY <1>1, WithinItself DEF LetsBe
<1> QED
  BY <1>1, <1>2, <1>3, <1>4, QuietKeeps

-----------------------------------------------------------------------------
\* The upload goes on: the answer has arrived, and the next message is sent.
LEMMA NextMessage ==
  ASSUME FiInv, fiUpload # Idle, fiUpload.acks # <<>>, Head(fiUpload.acks) # "error"
  PROVE  /\ NoneOf(fiDown, fiUpload.r) /\ NoneUp(fiUpload.r)
         /\ Tail(fiUpload.acks) \in Seq(Acks) /\ OnlyErrors(Tail(fiUpload.acks))
         /\ fiUpload.step = "complete" /\ Head(fiUpload.acks) = "accepted" => fiUpload.r \in fiDone
<1> DEFINE a == fiUpload.acks
<1>1. a \in Seq(Acks)
  BY UploadIs DEF FiInv
<1>2. a # <<>> /\ Head(a) # "error"
  OBVIOUS
<1>3. /\ Tail(a) \in Seq(Acks)
      /\ \E i \in DOMAIN a : a[i] = Head(a)
      /\ OneAnswer(a) => OnlyErrors(Tail(a))
  <2> HIDE DEF a
  <2> QED
    BY <1>1, <1>2, FirstAck
<1>4. AnswerHasArrived
  BY <1>2, <1>3 DEF FiInv, InTurn, MessageOnItsWay, AnswerOnItsWay, OnlyErrors
<1> QED
  BY <1>3, <1>4 DEF AnswerHasArrived

LEMMA SendsNext ==
  ASSUME FiInv, FiUploading, fiUpload # Idle, fiUpload.acks # <<>>, Head(fiUpload.acks) # "error",
         UNCHANGED fiShown, fiUpload' \in InProgress, fiUpload'.r = fiUpload.r,
         fiUpload'.acks = Tail(fiUpload.acks), FiSend(fiUpload.over, fiUpload'.step, fiUpload.r)
  PROVE  FiInv'
<1> DEFINE r == fiUpload.r
<1>1. FiTypes /\ r \in Uploads /\ fiUpload'.step \in Steps
  BY UploadIs DEF FiInv, InProgress
<1>2. <<fiUpload'.step, r>> \in DownMsgs
  BY <1>1 DEF DownMsgs
<1>3. NoneOf(fiDown, r) /\ NoneUp(r) /\ OnlyErrors(fiUpload'.acks)
  BY NextMessage
<1>4. /\ fiDown' \in Seq(DownMsgs) /\ (fiDown' # <<>> => fiLink # 0)
      /\ OneOf(fiDown', r)
      /\ \A i \in DOMAIN fiDown' :
           fiDown'[i] = <<fiUpload'.step, r>> \/ (i \in DOMAIN fiDown /\ fiDown'[i] = fiDown[i])
  <2> DEFINE st == fiUpload'.step
  <2>1. FiSend(fiUpload.over, st, r) /\ <<st, r>> \in DownMsgs
    BY <1>2
  <2> HIDE DEF st, r
  <2>2. fiDown \in Seq(DownMsgs)
    BY <1>1 DEF FiTypes
  <2> QED
    BY <1>1, <1>3, <2>1, <2>2, SentOn DEF st
<1>5. \A i \in DOMAIN fiDown' : fiDown'[i][2] = r => fiDown'[i][1] = fiUpload'.step
  BY <1>3, <1>4 DEF NoneOf
<1>6. UNCHANGED <<fiKind, fiFiles, fiHandlers, fiConns, fiLink, fiUp, fiExpect, fiDownloads, fiDone>>
  BY DEF FiUploading
<1>7. MessageOnItsWay'
  BY <1>3, <1>4, <1>5, <1>6 DEF MessageOnItsWay, NoneUp, Channels
<1>8. ShownKept /\ FiTypes'
  <2>1. ShownKept
    BY <1>1, Unshown
  <2> QED
    BY <1>1, <1>4, <1>6, <2>1, TypesKeep DEF FiTypes
<1> QED
  BY <1>6, <1>7, <1>8, QuietKeeps DEF InTurn

LEMMA EndKeeps ==
  ASSUME FiInv, FiUploading, fiUpload # Idle, NEW what \in {"ok", "failed"}, FiUploadEnds(what),
         what = "ok" => fiUpload.r \in fiDone
  PROVE  FiInv'
<1>1. /\ FiTypes /\ fiUpload' = Idle /\ fiUpload.r \in DOMAIN fiKind /\ FiTells(fiUpload.r, what)
      /\ what \in Shown
  BY UploadIs DEF FiInv, FiUploadEnds, Uploads, Shown
<1>2. UNCHANGED <<fiKind, fiFiles, fiHandlers, fiConns, fiLink, fiUp, fiExpect, fiDownloads, fiDone>>
      /\ fiDown' = fiDown
  BY DEF FiUploading, FiUploadEnds
<1>3. ShownKept
  BY <1>1, <1>2, Told
<1>4. FiTypes'
  BY <1>1, <1>2, <1>3, TypesKeep DEF FiTypes
<1> QED
  BY <1>1, <1>2, <1>3, <1>4, QuietKeeps DEF LetsBe


LEMMA UploadStepKeeps ==
  ASSUME FiInv, FiAccepted \/ FiOtherName \/ FiUploadRefused \/ FiUploadTimeout
  PROVE  FiInv'
<1> DEFINE u == fiUpload
<1>1. u # Idle /\ u \in InProgress /\ u.step \in Steps /\ u.acks \in Seq(Acks)
  <2>1. u # Idle
    BY DEF FiAccepted, FiOtherName, FiUploadRefused, FiUploadTimeout, Idle
  <2> QED
    BY <2>1, UploadIs DEF FiInv
<1>2. u.acks # <<>> => Tail(u.acks) \in Seq(Acks)
  BY <1>1, FirstAck
<1>3. CASE FiAccepted /\ u.step = "complete"
  <2>1. /\ FiUploading /\ FiUploadEnds("ok") /\ u.acks # <<>> /\ Head(u.acks) = "accepted"
    BY <1>3 DEF FiAccepted
  <2>2. u.r \in fiDone
    BY <1>1, <1>3, <2>1, NextMessage
  <2> QED
    BY <1>1, <2>1, <2>2, EndKeeps
<1>4. CASE FiAccepted /\ u.step # "complete"
  <2> DEFINE at == IF u.step = "chunk" THEN u.at + 1 ELSE u.at
             next == IF at < FiChunks THEN "chunk" ELSE "complete"
  <2>1. /\ u.acks # <<>> /\ Head(u.acks) = "accepted" /\ FiUploading /\ UNCHANGED fiShown
        /\ fiUpload' = [u EXCEPT !.step = next, !.at = at, !.acks = Tail(u.acks)]
        /\ FiSend(u.over, next, u.r)
    BY <1>4 DEF FiAccepted
  <2>2. at \in Nat /\ next \in Steps
    BY <1>1 DEF InProgress, Steps
  <2> HIDE DEF at, next
  <2>3. [u EXCEPT !.step = next] \in InProgress
    BY <1>1, <2>2 DEF InProgress
  <2>4. [[u EXCEPT !.step = next] EXCEPT !.at = at] \in InProgress
    BY <2>2, <2>3 DEF InProgress
  <2>5. [[[u EXCEPT !.step = next] EXCEPT !.at = at] EXCEPT !.acks = Tail(u.acks)] \in InProgress
    BY <1>2, <2>1, <2>4 DEF InProgress
  <2>6. fiUpload' = [[[u EXCEPT !.step = next] EXCEPT !.at = at] EXCEPT !.acks = Tail(u.acks)]
    BY <1>1, <2>1 DEF InProgress
  <2>7. fiUpload'.r = u.r /\ fiUpload'.acks = Tail(u.acks) /\ fiUpload'.step = next
    BY <1>1, <2>1 DEF InProgress
  <2> QED
    BY <1>1, <2>1, <2>5, <2>6, <2>7, SendsNext
<1>5. CASE FiOtherName
  <2>1. /\ u.acks # <<>> /\ Head(u.acks) = "exists" /\ FiUploading /\ UNCHANGED fiShown
        /\ u.step = "offer"
        /\ fiUpload' = [u EXCEPT !.tries = u.tries + 1, !.acks = Tail(u.acks)]
        /\ FiSend(u.over, "offer", u.r)
    BY <1>5 DEF FiOtherName
  <2>2. u.tries + 1 \in Nat
    BY <1>1 DEF InProgress
  <2>3. [u EXCEPT !.tries = u.tries + 1] \in InProgress
    BY <1>1, <2>2 DEF InProgress
  <2>4. [[u EXCEPT !.tries = u.tries + 1] EXCEPT !.acks = Tail(u.acks)] \in InProgress
    BY <1>2, <2>1, <2>3 DEF InProgress
  <2>5. fiUpload' = [[u EXCEPT !.tries = u.tries + 1] EXCEPT !.acks = Tail(u.acks)]
    BY <1>1, <2>1 DEF InProgress
  <2>6. fiUpload'.r = u.r /\ fiUpload'.acks = Tail(u.acks) /\ fiUpload'.step = "offer"
    BY <1>1, <2>1 DEF InProgress
  <2> QED
    BY <1>1, <2>1, <2>4, <2>5, <2>6, SendsNext
<1>6. CASE FiUploadRefused \/ FiUploadTimeout
  BY <1>1, <1>6, EndKeeps DEF FiUploadRefused, FiUploadTimeout
<1> QED
  BY <1>3, <1>4, <1>5, <1>6

-----------------------------------------------------------------------------
LEMMA RequestTypes ==
  ASSUME FiInv, NEW kind, FiAsks(kind), NEW x \in {"nothing", "failed"},
         fiShown' = Append(fiShown, x), fiDown' \in Seq(DownMsgs'), fiDown' # <<>> => fiLink # 0,
         fiExpect' \in Seq(Others'), DOMAIN fiDownloads' \subseteq Others',
         fiUpload' = Idle \/ fiUpload' \in InProgress'
  PROVE  FiTypes' /\ UploadShownIsPublished'
<1>1. /\ FiTypes /\ UploadShownIsPublished /\ kind \in FiKinds /\ fiKind' = Append(fiKind, kind)
      /\ UNCHANGED <<fiFiles, fiHandlers, fiConns, fiLink, fiUp, fiDone>>
  BY DEF FiInv, FiAsks
<1>2. /\ fiKind' \in Seq(FiKinds) /\ Len(fiKind') = Len(fiKind) + 1
      /\ DOMAIN fiKind' = DOMAIN fiKind \cup {Len(fiKind) + 1}
      /\ \A r \in DOMAIN fiKind : fiKind'[r] = fiKind[r]
      /\ fiUp \in [Channels -> Seq(UpMsgs')]
  BY <1>1, KindsGrow
<1>3. /\ fiShown' \in Seq(Shown) /\ Len(fiShown') = Len(fiShown) + 1
      /\ \A r \in 1..Len(fiShown) : fiShown'[r] = fiShown[r]
      /\ fiShown'[Len(fiShown) + 1] = x
  BY <1>1, AppendProperties DEF FiTypes, Shown
<1>4. DOMAIN fiKind = 1..Len(fiKind) /\ Len(fiShown) = Len(fiKind)
  BY <1>1, LenProperties DEF FiTypes
<1>5. FiTypes'
  BY <1>1, <1>2, <1>3, <1>4 DEF FiTypes, Channels
<1>6. UploadShownIsPublished'
  BY <1>1, <1>2, <1>3, <1>4 DEF UploadShownIsPublished
<1> QED
  BY <1>5, <1>6

\* A request that is no upload.
LEMMA RequestKeeps ==
  ASSUME FiInv, NEW kind, FiAsks(kind), NEW x \in {"nothing", "failed"},
         fiShown' = Append(fiShown, x), fiDown' \in Seq(DownMsgs'), fiDown' # <<>> => fiLink # 0,
         fiExpect' \in Seq(Others'), DOMAIN fiDownloads' \subseteq Others', UNCHANGED fiUpload,
         fiUpload # Idle => Within(fiDown', fiDown, fiUpload.r)
  PROVE  FiInv'
<1>1. /\ FiTypes /\ InTurn /\ kind \in FiKinds /\ fiKind' = Append(fiKind, kind)
      /\ UNCHANGED <<fiUp, fiDone>>
  BY DEF FiInv, FiAsks
<1>2. fiUpload' = Idle \/ fiUpload' \in InProgress'
  BY <1>1, KindsGrow
<1>3. LetsBe
  BY <1>1, WithinItself DEF LetsBe
<1> QED
  BY <1>1, <1>2, <1>3, RequestTypes, StaysInTurn DEF FiInv

LEMMA OperateKeeps == ASSUME FiInv, NEW kind, FiOperate(kind) PROVE FiInv'
<1> DEFINE r == Len(fiKind) + 1
<1>1. /\ FiTypes /\ FiAsks(kind) /\ kind \in FiKinds /\ fiKind' = Append(fiKind, kind)
      /\ kind \in {"list", "change", "move"} /\ fiShown' = Append(fiShown, "nothing")
      /\ UNCHANGED <<fiUpload, fiDownloads>> /\ fiLink' = fiLink
  BY DEF FiInv, FiOperate, FiAsks
<1>2. /\ r \in Others' /\ r \notin DOMAIN fiKind
      /\ fiDown \in Seq(DownMsgs') /\ fiExpect \in Seq(Others') /\ DOMAIN fiDownloads \subseteq Others'
  BY <1>1, KindsGrow DEF Others
<1>3. fiUpload # Idle => fiUpload.r # r
  BY <1>1, <1>2, UploadIs DEF Uploads
<1> HIDE DEF r
<1>4. <<kind, r>> \in DownMsgs' /\ <<kind, r>>[2] = r
  BY <1>1, <1>2 DEF DownMsgs
<1>5. CASE kind = "move"
  <2> DEFINE e == <<kind, r>>
  <2>1. fiExpect' = fiExpect \o <<r, r>> /\ fiDown' \in {fiDown, fiDown \o <<e, e>>}
        /\ (fiDown' # fiDown => fiFiles = fiLink)
    BY <1>5 DEF FiOperate, r
  <2>2. e \in DownMsgs' /\ e[2] = r
    BY <1>4
  <2> HIDE DEF e
  <2>3. <<e, e>> \in Seq(DownMsgs') /\ <<r, r>> \in Seq(Others')
    BY <1>2, <2>2
  <2>4. fiUpload # Idle => NoneOf(<<e, e>>, fiUpload.r)
    <3>1. DOMAIN <<e, e>> = {1, 2} /\ <<e, e>>[1] = e /\ <<e, e>>[2] = e
      OBVIOUS
    <3> QED
      BY <1>3, <2>2, <3>1 DEF NoneOf
  <2>5. fiExpect' \in Seq(Others') /\ fiDown' \in Seq(DownMsgs')
    BY <1>2, <2>1, <2>3, ConcatProperties
  <2>6. fiUpload # Idle => Within(fiDown', fiDown, fiUpload.r)
    BY <1>2, <2>1, <2>3, <2>4, ConcatOf, WithinItself
  <2>7. fiDown' # <<>> => fiLink # 0
    BY <1>1, <2>1 DEF FiTypes, FiAsks
  <2> QED
    BY <1>1, <1>2, <2>5, <2>6, <2>7, RequestKeeps
<1>6. CASE kind # "move"
  <2>1. fiExpect' = Append(fiExpect, r) /\ FiSend(fiFiles, kind, r)
    BY <1>6 DEF FiOperate, r
  <2>2. fiExpect' \in Seq(Others')
    BY <1>2, <2>1, AppendProperties
  <2>3. /\ fiDown' \in Seq(DownMsgs') /\ (fiDown' # <<>> => fiLink # 0)
        /\ fiUpload # Idle => Within(fiDown', fiDown, fiUpload.r)
    BY <1>1, <1>2, <1>3, <1>4, <2>1, SentOn
  <2> QED
    BY <1>1, <1>2, <2>2, <2>3, RequestKeeps
<1> QED
  BY <1>5, <1>6

LEMMA RefusedPathKeeps == ASSUME FiInv, NEW kind, FiRefusedPath(kind) PROVE FiInv'
<1>1. /\ FiTypes /\ FiAsks(kind) /\ kind \in FiKinds /\ fiKind' = Append(fiKind, kind)
      /\ kind \in {"list", "change"} /\ fiShown' = Append(fiShown, "failed")
      /\ UNCHANGED <<fiDown, fiUpload, fiDownloads>> /\ fiLink' = fiLink
      /\ fiExpect' = Append(fiExpect, Len(fiKind) + 1)
  BY DEF FiInv, FiRefusedPath, FiAsks
<1>2. /\ Len(fiKind) + 1 \in Others'
      /\ fiDown \in Seq(DownMsgs') /\ fiExpect \in Seq(Others') /\ DOMAIN fiDownloads \subseteq Others'
  BY <1>1, KindsGrow DEF Others
<1>3. fiExpect' \in Seq(Others')
  BY <1>1, <1>2, AppendProperties
<1>4. fiDown' # <<>> => fiLink # 0
  BY <1>1 DEF FiTypes
<1> QED
  BY <1>1, <1>2, <1>3, <1>4, WithinItself, RequestKeeps

LEMMA DownloadKeeps == ASSUME FiInv, FiDownload PROVE FiInv'
<1> DEFINE r == Len(fiKind) + 1
<1>1. /\ FiTypes /\ FiAsks("download") /\ "download" \in FiKinds
      /\ fiKind' = Append(fiKind, "download")
      /\ fiShown' = Append(fiShown, "nothing") /\ FiSend(fiFiles, "download", r)
      /\ DOMAIN fiDownloads' = DOMAIN fiDownloads \cup {r}
      /\ UNCHANGED <<fiUpload, fiExpect>>
  BY DEF FiInv, FiDownload, FiAsks
<1>2. /\ r \in Others' /\ r \notin DOMAIN fiKind
      /\ fiDown \in Seq(DownMsgs') /\ fiExpect \in Seq(Others') /\ DOMAIN fiDownloads \subseteq Others'
  BY <1>1, KindsGrow DEF Others
<1>3. fiUpload # Idle => fiUpload.r # r
  BY <1>1, <1>2, UploadIs DEF Uploads
<1> HIDE DEF r
<1>4. <<"download", r>> \in DownMsgs'
  BY <1>2 DEF DownMsgs
<1>5. /\ fiDown' \in Seq(DownMsgs') /\ (fiDown' # <<>> => fiLink # 0)
      /\ fiUpload # Idle => Within(fiDown', fiDown, fiUpload.r)
  BY <1>1, <1>2, <1>3, <1>4, SentOn
<1> QED
  BY <1>1, <1>2, <1>5, RequestKeeps

\* The first message of an upload: of its request nothing is on its way yet.
LEMMA UploadStartKeeps == ASSUME FiInv, FiUploadStart PROVE FiInv'
<1> DEFINE r == Len(fiKind) + 1
<1>1. /\ FiTypes /\ FiAsks("upload") /\ "upload" \in FiKinds /\ fiKind' = Append(fiKind, "upload")
      /\ fiShown' = Append(fiShown, "nothing") /\ FiSend(fiFiles, "offer", r)
      /\ fiUpload' = [Idle EXCEPT !.r = r, !.step = "offer", !.tries = 1, !.over = fiFiles]
      /\ UNCHANGED <<fiDownloads, fiExpect>> /\ fiUp' = fiUp /\ fiDone' = fiDone
      /\ fiFiles \in {0} \cup Channels
  BY DEF FiInv, FiUploadStart, FiAsks, FiTypes
<1>2. /\ r \in Uploads' /\ r \notin {0} \cup DOMAIN fiKind
      /\ fiDown \in Seq(DownMsgs') /\ fiExpect \in Seq(Others') /\ DOMAIN fiDownloads \subseteq Others'
  <2>1. r # 0
    BY <1>1, LenProperties DEF FiTypes
  <2> QED
    BY <1>1, <2>1, KindsGrow DEF Uploads
<1> HIDE DEF r
<1>3. fiUpload' = [r |-> r, step |-> "offer", at |-> 0, tries |-> 1, over |-> fiFiles, acks |-> <<>>]
  BY <1>1 DEF Idle
<1>4. fiUpload' \in InProgress'
  <2>1. <<>> \in Seq(Acks) /\ "offer" \in Steps
    BY EmptySeq DEF Steps
  <2>2. InProgress' = [r : Uploads', step : Steps, at : Nat, tries : Nat,
                       over : {0} \cup Channels, acks : Seq(Acks)]
    BY DEF InProgress, Steps, Channels, Acks
  <2>3. fiFiles \in {0} \cup Channels /\ r \in Uploads'
    BY <1>1, <1>2
  <2> HIDE DEF Channels
  <2> QED
    BY <1>3, <2>1, <2>2, <2>3
<1>5. <<"offer", r>> \in DownMsgs' /\ <<"offer", r>>[2] = r
  BY <1>2 DEF DownMsgs, Steps
<1>6. NoneOf(fiDown, r) /\ NoneUp(r)
  <2>1. \A m \in DownMsgs \cup UpMsgs : m[2] \in {0} \cup DOMAIN fiKind
    BY DEF DownMsgs, UpMsgs, Uploads, Others
  <2>2. \A i \in DOMAIN fiDown : fiDown[i] \in DownMsgs
    BY <1>1, LenProperties, ElementOfSeq DEF FiTypes
  <2>3. \A c \in Channels : \A i \in DOMAIN fiUp[c] : fiUp[c][i] \in UpMsgs
    BY <1>1, LenProperties, ElementOfSeq DEF FiTypes
  <2> QED
    BY <1>2, <2>1, <2>2, <2>3 DEF NoneOf, NoneUp
<1>7. /\ fiDown' \in Seq(DownMsgs') /\ (fiDown' # <<>> => fiLink # 0)
      /\ OneOf(fiDown', r)
      /\ \A i \in DOMAIN fiDown' :
           fiDown'[i] = <<"offer", r>> \/ (i \in DOMAIN fiDown /\ fiDown'[i] = fiDown[i])
  BY <1>1, <1>2, <1>5, <1>6, SentOn
<1>8. \A i \in DOMAIN fiDown' : fiDown'[i][2] = r => fiDown'[i][1] = "offer"
  BY <1>6, <1>7 DEF NoneOf
<1>9. fiUpload'.r = r /\ fiUpload'.step = "offer" /\ OnlyErrors(fiUpload'.acks)
  BY <1>3 DEF OnlyErrors
<1>10. MessageOnItsWay'
  BY <1>1, <1>6, <1>7, <1>8, <1>9 DEF MessageOnItsWay, NoneUp, Channels
<1> QED
  BY <1>1, <1>2, <1>4, <1>7, <1>10, RequestTypes DEF FiInv, InTurn

-----------------------------------------------------------------------------
\* An upload is shown with success only after the agent has published the
\* file, for any number of requests, channels and chunks.
THEOREM UploadsArePublished == FiSpec => []UploadShownIsPublished
<1>1. FiInit => FiInv
  <2> SUFFICES ASSUME FiInit PROVE FiInv
    OBVIOUS
  <2>1. 1 \in Channels
    BY FiAssumption DEF Channels
  <2>2. FiTypes
    <3>1. fiUp \in [Channels -> Seq(UpMsgs)]
      BY EmptySeq DEF FiInit, Channels
    <3>2. DOMAIN fiDownloads \subseteq Others
      BY DEF FiInit, Nothing
    <3> HIDE DEF Channels
    <3> QED
      BY <2>1, <3>1, <3>2, EmptySeq DEF FiTypes, FiInit
  <2> QED
    BY <2>2 DEF FiInv, FiInit, InTurn, UploadShownIsPublished
<1>2. FiInv /\ [FiNext]_fivars => FiInv'
  <2> SUFFICES ASSUME FiInv, [FiNext]_fivars PROVE FiInv'
    OBVIOUS
  <2>1. CASE FiRequest
    BY <2>1, OperateKeeps, RefusedPathKeeps, DownloadKeeps, UploadStartKeeps DEF FiRequest
  <2>2. CASE FiBrowserGone
    BY <2>2, BrowserGoneKeeps
  <2>3. CASE FiRegister
    BY <2>3, RegisterKeeps
  <2>4. CASE FiAgentStep
    BY <2>4, AgentStepKeeps
  <2>5. CASE FiAccepted \/ FiOtherName \/ FiUploadRefused \/ FiUploadTimeout
    BY <2>5, UploadStepKeeps
  <2>6. CASE \E c \in fiHandlers : FiHandle(c) \/ FiHandlerEnds(c)
    BY <2>6, HandleKeeps, HandlerEndsKeeps
  <2>7. CASE UNCHANGED fivars \/ \E r \in fiReady : FiFetch(r)
    BY <2>7, FetchKeeps
  <2> QED
    BY <2>1, <2>2, <2>3, <2>4, <2>5, <2>6, <2>7 DEF FiNext
<1>3. FiInv => UploadShownIsPublished
  BY DEF FiInv
<1> QED
  BY <1>1, <1>2, <1>3, PTL DEF FiSpec

-----------------------------------------------------------------------------
(***************************************************************************)
(* Terminal and Remote Desktop.  What happens to a row depends on nothing  *)
(* but the row: every handler that writes one, the late ones included,     *)
(* looks at the status it finds.                                           *)
(***************************************************************************)
TermStatuses == Alive \cup {"disconnected", "failed", "expired", "revoked"}

TermRow ==
  [browser : Browsers, status : TermStatuses, root : BOOLEAN,
   grant : {"none", "issued", "consumed", "revoked"}]

TermRows == rows \in Seq(TermRow)

\* The ends of a session in the order of their gravity.
LEMMA RankOf ==
  /\ Rank("authorized") = 1 /\ Rank("connected") = 2 /\ Rank("disconnected") = 3
  /\ Rank("failed") = 4 /\ Rank("expired") = 5 /\ Rank("revoked") = 6
<1> DEFINE order == <<"authorized", "connected", "disconnected", "failed", "expired", "revoked">>
<1>1. /\ order[1] = "authorized" /\ order[2] = "connected" /\ order[3] = "disconnected"
      /\ order[4] = "failed" /\ order[5] = "expired" /\ order[6] = "revoked"
  OBVIOUS
<1> HIDE DEF order
<1>2. \A m, n \in 1..6 : order[m] = order[n] => m = n
  BY <1>1
<1>3. \A n \in 1..6 : Rank(order[n]) = n
  <2> SUFFICES ASSUME NEW n \in 1..6 PROVE Rank(order[n]) = n
    OBVIOUS
  <2>1. Rank(order[n]) = CHOOSE m \in 1..6 : order[m] = order[n]
    BY DEF Rank, order
  <2> QED
    BY <1>2, <2>1
<1> QED
  BY <1>1, <1>3

\* Where every row is rewritten by its own status, all are rows again.
LEMMA RowsRewritten ==
  ASSUME TermRows, NEW new, new = [r \in DOMAIN rows |-> new[r]],
         \A r \in DOMAIN rows : new[r] \in TermRow
  PROVE  new \in Seq(TermRow)
<1>1. DOMAIN rows = 1..Len(rows) /\ Len(rows) \in Nat
  BY DEF TermRows
<1>2. new \in [1..Len(rows) -> TermRow]
  BY <1>1
<1> QED
  BY <1>1, <1>2

LEMMA RowOfBrowser ==
  ASSUME NEW b \in Browsers, NEW root \in BOOLEAN
  PROVE  NewSession(b, root) \in TermRow
BY DEF NewSession, TermRow, TermStatuses, Alive

\* What handlers make of a row.
LEMMA RowRises ==
  ASSUME NEW row \in TermRow
  PROVE  /\ BrowserClosed(row) \in TermRow
         /\ Rank(BrowserClosed(row).status) >= Rank(row.status)
         /\ AgentLeft(row) \in TermRow
         /\ Rank(AgentLeft(row).status) >= Rank(row.status)
<1> USE DEF TermRow, TermStatuses, Alive
<1>1. /\ BrowserClosed(row) \in TermRow
      /\ BrowserClosed(row).status = IF row.status \in Alive THEN "revoked" ELSE row.status
  BY DEF BrowserClosed
<1>2. /\ AgentLeft(row) \in TermRow
      /\ AgentLeft(row).status = IF row.status \in Alive THEN "disconnected" ELSE row.status
  BY DEF AgentLeft
<1> QED
  BY <1>1, <1>2, RankOf

LEMMA ReportRises ==
  ASSUME NEW row \in TermRow, NEW type, NEW late \in BOOLEAN
  PROVE  /\ Recorded(row, type, late) \in TermRow
         /\ Rank(Recorded(row, type, late).status) >= Rank(row.status)
<1> DEFINE before == IF late /\ row.status \in Alive THEN "expired" ELSE row.status
           after == StatusAfter(before, type)
<1>1. row.status \in TermStatuses
  BY DEF TermRow
<1>2. before \in TermStatuses /\ Rank(before) >= Rank(row.status)
  BY <1>1, RankOf DEF TermStatuses, Alive
<1>3. after \in TermStatuses /\ Rank(after) >= Rank(before)
  <2> HIDE DEF before
  <2> QED
    BY <1>2, RankOf DEF StatusAfter, TermStatuses, Alive
<1>4. Rank(after) >= Rank(row.status)
  <2>1. \A s \in TermStatuses : Rank(s) \in Nat
    BY RankOf DEF TermStatuses, Alive
  <2> HIDE DEF before, after
  <2> QED
    BY <1>1, <1>2, <1>3, <2>1
<1> DEFINE grant == IF type = "root_grant_consumed" /\ row.root THEN "consumed" ELSE row.grant
<1>5. Recorded(row, type, late) = [row EXCEPT !.status = after, !.grant = grant]
  BY DEF Recorded
<1>6. grant \in {"none", "issued", "consumed", "revoked"}
  BY DEF TermRow
<1> HIDE DEF after, grant
<1>7. /\ [row EXCEPT !.status = after, !.grant = grant] \in TermRow
      /\ [row EXCEPT !.status = after, !.grant = grant].status = after
  BY <1>3, <1>6 DEF TermRow
<1> QED
  BY <1>4, <1>5, <1>7

Rises ==
  /\ rows' \in Seq(TermRow)
  /\ \A s \in DOMAIN rows : Rank(rows'[s].status) >= Rank(rows[s].status)

LEMMA RowsRanked == TermRows => \A s \in DOMAIN rows : Rank(rows[s].status) \in Nat
<1> SUFFICES ASSUME TermRows, NEW s \in DOMAIN rows PROVE Rank(rows[s].status) \in Nat
  OBVIOUS
<1> DEFINE t == rows[s].status
<1>1. t \in TermStatuses
  <2>1. rows[s] \in TermRow
    BY DEF TermRows
  <2> QED
    BY <2>1 DEF TermRow
<1> HIDE DEF t
<1>2. Rank(t) \in Nat
  BY <1>1, RankOf DEF TermStatuses, Alive
<1> QED
  BY <1>2 DEF t

\* A row that stays is as grave as it was.
LEMMA SameRowRises ==
  ASSUME TermRows, NEW s \in DOMAIN rows, rows'[s] = rows[s]
  PROVE  Rank(rows'[s].status) >= Rank(rows[s].status)
<1>1. Rank(rows[s].status) \in Nat
  BY RowsRanked
<1> DEFINE n == Rank(rows[s].status)
<1>2. Rank(rows'[s].status) = n
  OBVIOUS
<1> HIDE DEF n
<1>3. n \in Nat => n >= n
  OBVIOUS
<1> QED
  BY <1>1, <1>2, <1>3 DEF n

LEMMA SameRowsRise == ASSUME TermRows, UNCHANGED rows PROVE Rises
BY SameRowRises DEF TermRows, Rises

LEMMA OpenRises ==
  ASSUME TermRows, NEW b \in Browsers, NEW root \in BOOLEAN, Open(b, root)
  PROVE  Rises
<1>1. PICK row \in TermRow : rows' = Append(rows, row)
  BY RowOfBrowser, RowRises DEF Open
<1>2. /\ rows' \in Seq(TermRow)
      /\ \A s \in DOMAIN rows : rows'[s] = rows[s]
  BY <1>1 DEF TermRows
<1> QED
  BY <1>2, SameRowRises DEF Rises

LEMMA RewrittenRise ==
  ASSUME TermRows, rows' = [r \in DOMAIN rows |-> rows'[r]],
         \A r \in DOMAIN rows : \/ rows'[r] = rows[r]
                                \/ rows'[r] = BrowserClosed(rows[r])
                                \/ rows'[r] = AgentLeft(rows[r])
  PROVE  Rises
<1>1. \A r \in DOMAIN rows : rows[r] \in TermRow
  BY DEF TermRows
<1>4. ASSUME NEW r \in DOMAIN rows
      PROVE  rows'[r] \in TermRow /\ Rank(rows'[r].status) >= Rank(rows[r].status)
  <2>1. CASE rows'[r] = rows[r]
    BY <1>1, <2>1, SameRowRises
  <2>2. CASE rows'[r] = BrowserClosed(rows[r])
    BY <1>1, <2>2, RowRises
  <2>3. CASE rows'[r] = AgentLeft(rows[r])
    BY <1>1, <2>3, RowRises
  <2> QED
    BY <2>1, <2>2, <2>3
<1>5. rows' \in Seq(TermRow)
  BY <1>4, RowsRewritten
<1> QED
  BY <1>4, <1>5 DEF Rises

LEMMA TermStepRises == ASSUME TermRows, [TermNext]_tvars PROVE Rises
<1>1. CASE UNCHANGED rows
  BY <1>1, SameRowsRise
<1>2. ASSUME NEW b \in Browsers, NEW root \in BOOLEAN, Open(b, root) PROVE Rises
  BY <1>2, OpenRises
<1>3. ASSUME NEW b \in Browsers, BrowserGone(b) PROVE Rises
  BY <1>3, RewrittenRise DEF BrowserGone
<1>4. ASSUME NEW c, HandlerEnds(c) PROVE Rises
  BY <1>4, RewrittenRise DEF HandlerEnds
<1>5. ASSUME NEW e \in events, EventArrives(e) PROVE Rises
  <2> DEFINE late == e.s \in over
             new == Recorded(rows[e.s], e.type, late)
  <2>1. rows' = [rows EXCEPT ![e.s] = new]
    BY <1>5 DEF EventArrives
  <2>2. CASE e.s \in DOMAIN rows
    <3>1. rows[e.s] \in TermRow
      BY <2>2 DEF TermRows
    <3>2. late \in BOOLEAN
      OBVIOUS
    <3> HIDE DEF late
    <3>3. new \in TermRow /\ Rank(new.status) >= Rank(rows[e.s].status)
      BY <3>1, <3>2, ReportRises
    <3> HIDE DEF new
    <3>4. rows' \in Seq(TermRow)
      BY <2>1, <2>2, <3>3 DEF TermRows
    <3>5. ASSUME NEW r \in DOMAIN rows PROVE Rank(rows'[r].status) >= Rank(rows[r].status)
      <4>1. CASE r = e.s
        <5>1. rows'[r] = new
          BY <2>1, <4>1
        <5> QED
          BY <3>3, <4>1, <5>1
      <4>2. CASE r # e.s
        BY <2>1, <4>2, SameRowRises
      <4> QED
        BY <4>1, <4>2
    <3> QED
      BY <3>4, <3>5 DEF Rises
  <2>3. CASE e.s \notin DOMAIN rows
    <3>1. rows' = rows
      BY <2>1, <2>3 DEF TermRows
    <3> QED
      BY <3>1, SameRowsRise
  <2> QED
    BY <2>2, <2>3
<1>6. \/ UNCHANGED rows
      \/ \E b \in Browsers : BrowserGone(b) \/ \E root \in BOOLEAN : Open(b, root)
      \/ \E c \in 1..MaxConns : HandlerEnds(c)
      \/ \E e \in events : EventArrives(e)
  BY DEF TermNext, tvars, IssueTicket, Connect, CloseShell, RecheckFails, LoginEnds, StepUpFails,
         LastStepUpFails, AgentConnects, CredentialRevoked, AgentRecheckFails, MessageLost,
         LinkLost, StartShell, StartRefused, StopShell, Receive, ShellExits, DeadlinePasses, Ends,
         Expires, ExitArrives, EventFails
<1> QED
  BY <1>1, <1>2, <1>3, <1>4, <1>5, <1>6

\* A Remote Desktop session that ended.
RdRows == rdRow \in [RdSessions -> RdStatuses]

RdEndsStay ==
  /\ rdRow' \in [RdSessions -> RdStatuses]
  /\ \A s \in RdSessions : rdRow[s] \notin RdLive \cup {"none"} => rdRow'[s] \notin RdLive

LEMMA RdStepKeeps == ASSUME RdRows, [RdNext]_rdvars PROVE RdEndsStay
<1> USE DEF RdRows, RdEndsStay, RdStatuses, RdLive
<1>1. CASE UNCHANGED rdRow
  BY <1>1
<1>2. ASSUME NEW s \in RdSessions, NEW status \in RdStatuses,
             rdRow' = [rdRow EXCEPT ![s] = status],
             rdRow[s] \notin RdLive \cup {"none"} => status \notin RdLive
      PROVE  RdEndsStay
  BY <1>2
<1>3. ASSUME NEW s \in RdSessions, RdConnect(s) PROVE RdEndsStay
  BY <1>3 DEF RdConnect
<1>4. ASSUME NEW s \in RdSessions, NEW status \in RdStatuses, RdLeaves(s, status) PROVE RdEndsStay
  BY <1>4 DEF RdLeaves, RdClosed
<1>5. CASE RdDecommission
  BY <1>5 DEF RdDecommission
<1>6. ASSUME NEW s \in RdSessions, NEW type PROVE RdRecorded(rdRow[s], type) \in RdStatuses
             /\ (rdRow[s] \notin RdLive \cup {"none"} => RdRecorded(rdRow[s], type) \notin RdLive)
  BY DEF RdRecorded
<1>7. ASSUME NEW s \in RdSessions, NEW c, RdAgentReady(c, s) PROVE RdEndsStay
  <2>1. rdRow' = rdRow \/ rdRow' = [rdRow EXCEPT ![s] = RdRecorded(rdRow[s], "agent_ready")]
    BY <1>7 DEF RdAgentReady
  <2> QED
    BY <1>1, <1>2, <1>6, <2>1
<1>8. ASSUME NEW s \in RdSessions, NEW type, RdEvent(s, type) PROVE RdEndsStay
  BY <1>2, <1>6, <1>8 DEF RdEvent
<1>9. \/ UNCHANGED rdRow \/ RdDecommission
      \/ \E s \in RdSessions :
           \/ RdConnect(s) \/ RdLeaves(s, rdRow[s]) \/ RdLeaves(s, "expired")
           \/ \E c \in rdChannels : RdAgentReady(c, s)
           \/ \E type \in {"capture_started", "error"} : RdEvent(s, type)
  BY DEF RdNext, rdvars, rdagent, RdRegister, RdChannelLost, RdChannelEnds, RdSessionStep, RdHandle,
         RdStreamStep, RdBrowserGone, RdExpires, RdDrive, RdTellOpen, RdOpened, RdSessionClosed,
         RdStart, RdStop, RdFrame, RdRefused, RdReceive, RdCapture, RdCaptureFails, RdEventFails
<1> QED
  BY <1>1, <1>3, <1>4, <1>5, <1>7, <1>8, <1>9

(***************************************************************************)
(* The end of a session is final, for any number of browsers, connections, *)
(* sessions and reports, in whatever order the end of a connection, the    *)
(* browser's end and the reports reach the database                        *)
(* (mark_browser_terminal_closed, mark_terminal_agent_disconnected,        *)
(* record_terminal_agent_event, close_remote_desktop_session,              *)
(* record_remote_desktop_event).                                           *)
(***************************************************************************)
THEOREM EndsStayEnds == SessionsSpec => EndsAreFinal
<1>1. TermInit => TermRows
  BY DEF TermInit, TermRows
<1>2. TermRows /\ [TermNext]_tvars => TermRows'
  BY TermStepRises DEF Rises, TermRows
<1>3. TermRows /\ [TermNext]_tvars =>
        [\A s \in DOMAIN rows : Rank(rows'[s].status) >= Rank(rows[s].status)]_tvars
  BY TermStepRises DEF Rises
<1>4. TermSpec => StatusOnlyRises
  BY <1>1, <1>2, <1>3, PTL DEF TermSpec, StatusOnlyRises
<1>5. RdInit => RdRows
  BY DEF RdInit, RdRows, RdStatuses
<1>6. RdRows /\ [RdNext]_rdvars => RdRows'
  BY RdStepKeeps DEF RdEndsStay, RdRows
<1>7. RdRows /\ [RdNext]_rdvars =>
        [\A s \in RdSessions : rdRow[s] \notin RdLive \cup {"none"} => rdRow'[s] \notin RdLive]_rdvars
  BY RdStepKeeps DEF RdEndsStay
<1>8. RdSpec => RdEndIsFinal
  BY <1>5, <1>6, <1>7, PTL DEF RdSpec, RdEndIsFinal
<1> QED
  BY <1>4, <1>8 DEF SessionsSpec, EndsAreFinal
=============================================================================
