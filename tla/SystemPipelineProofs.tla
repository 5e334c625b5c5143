------------------------- MODULE SystemPipelineProofs -------------------------
(***************************************************************************)
(* A System command from end to end, for every set of commands, any number *)
(* of attempts, late requests and boots, with failing disks: the queue and *)
(* the broker keep the invariants proved of each, the agent between them   *)
(* carries a success only with the answer of its own call, and together    *)
(* they implement RemoteCommand.                                           *)
(***************************************************************************)
EXTENDS SystemPipeline, TLAPS

QP == INSTANCE CommandQueueProofs
BP == INSTANCE SystemBrokerProofs WITH MaxCalls <- MaxAttempts

LEMMA Assumptions == QP!QueueAssumption /\ BP!BrokerAssumption
BY PipelineAssumption
   DEF Queue!QueueAssumption, Broker!BrokerAssumption, Queue!Kinds, Broker!Kinds,
       QP!QueueAssumption, BP!BrokerAssumption, QP!Kinds, BP!Kinds

-----------------------------------------------------------------------------
(* The components and their proofs speak of the same definitions *)

LEMMA SameQueueTypes == Queue!TypeOK <=> QP!TypeOK
BY DEF Queue!TypeOK, Queue!Row, Queue!Active, Queue!Terminal, Queue!Kinds,
       QP!TypeOK, QP!Row, QP!Active, QP!Terminal, QP!Kinds

LEMMA SameInit == /\ Queue!Init => QP!Init
                  /\ Broker!Init => BP!Init
BY DEF Queue!Init, Queue!NoRow, Queue!NoBoot, Queue!NoToken,
       QP!Init, QP!NoRow, QP!NoBoot, QP!NoToken,
       Broker!Init, Broker!Calls, Broker!NoCall, Broker!NoBoot,
       BP!Init, BP!Calls, BP!NoCall, BP!NoBoot

LEMMA SameClaims ==
  /\ Queue!ClaimTimes = QP!ClaimTimes
  /\ \A c \in Commands, at \in QP!ClaimTimes : Queue!Claim(c, at) <=> QP!Claim(c, at)
  /\ \A at \in QP!ClaimTimes : Queue!ClaimNothing(at) <=> QP!ClaimNothing(at)
BY DEF Queue!ClaimTimes, Queue!Claim, Queue!ClaimNothing, Queue!FirstClaimable, Queue!Claimable,
       Queue!Claimed,
       Queue!Reconciled, Queue!Rebooted, Queue!LeaseOver, Queue!Finished, Queue!Requeued,
       Queue!ClearClaim, Queue!Active, Queue!NoBoot, Queue!NoToken,
       QP!ClaimTimes, QP!Claim, QP!ClaimNothing, QP!FirstClaimable, QP!Claimable,
       QP!Claimed,
       QP!Reconciled, QP!Rebooted, QP!LeaseOver, QP!Finished, QP!Requeued,
       QP!ClearClaim, QP!Active, QP!NoBoot, QP!NoToken

LEMMA SameCalls ==
  /\ Queue!ClaimCall <=> QP!ClaimCall
  /\ \A c \in Commands, t \in 1..MaxAttempts :
       /\ Queue!Renew(c, t) <=> QP!Renew(c, t)
       /\ Queue!Complete(c, t) <=> QP!Complete(c, t)
       /\ \A r \in BOOLEAN : Queue!Fail(c, t, r) <=> QP!Fail(c, t, r)
<1>1. Queue!ClaimCall <=> QP!ClaimCall
  BY SameClaims DEF Queue!ClaimCall, QP!ClaimCall
<1>2. ASSUME NEW c \in Commands, NEW t \in 1..MaxAttempts, NEW r \in BOOLEAN
      PROVE  /\ Queue!Renew(c, t) <=> QP!Renew(c, t)
             /\ Queue!Complete(c, t) <=> QP!Complete(c, t)
             /\ Queue!Fail(c, t, r) <=> QP!Fail(c, t, r)
  BY DEF Queue!Renew, Queue!Complete, Queue!Fail, Queue!HoldsClaim, Queue!Least,
         Queue!Finished, Queue!Requeued, Queue!ClearClaim, Queue!NoToken,
         QP!Renew, QP!Complete, QP!Fail, QP!HoldsClaim, QP!Least,
         QP!Finished, QP!Requeued, QP!ClearClaim, QP!NoToken
<1> QED
  BY <1>1, <1>2

LEMMA SameEvents ==
  /\ \A c, k, b : Queue!Enqueue(c, k, b) <=> QP!Enqueue(c, k, b)
  /\ \A b : Queue!ReportBoot(b) <=> QP!ReportBoot(b)
  /\ Queue!Tick <=> QP!Tick
BY DEF Queue!Enqueue, Queue!ReportBoot, Queue!Tick, Queue!NoRow, Queue!NoBoot, Queue!NoToken,
       QP!Enqueue, QP!ReportBoot, QP!Tick, QP!NoRow, QP!NoBoot, QP!NoToken

LEMMA SameBrokerTypes ==
  /\ Broker!TypeOK <=> BP!TypeOK
  /\ Calls = BP!Calls
  /\ Broker!NoCall = BP!NoCall
BY DEF Calls, Broker!TypeOK, Broker!Calls, Broker!NoCall, Broker!Answers, Broker!Steps,
       Broker!Entry, Broker!JournalStates,
       BP!TypeOK, BP!Calls, BP!NoCall, BP!Answers, BP!Steps, BP!Entry, BP!JournalStates

LEMMA SameBroker ==
  /\ \A call : Broker!Submit(call) <=> BP!Submit(call)
  /\ Broker!Serve <=> BP!Serve
  /\ Broker!Crash <=> BP!Crash
  /\ Broker!HostReboot <=> BP!HostReboot
BY DEF Broker!Submit, Broker!Serve, Broker!Crash, Broker!HostReboot,
       Broker!Accept, Broker!Prepare, Broker!PrepareFails, Broker!Replay, Broker!Recover,
       Broker!RefuseInDoubt, Broker!Start, Broker!RecordIntent, Broker!Run, Broker!RunFails,
       Broker!MarkRebootRequested, Broker!AnnounceReboot, Broker!CrossRefused,
       Broker!CrossAccepted, Broker!CrossReturns, Broker!FinishOk, Broker!FinishError,
       Broker!ClearIntentFails, Broker!Closed, Broker!Answer, Broker!Written,
       Broker!WriteFails, Broker!BoundaryCrossed, Broker!Fresh, Broker!Locked,
       Broker!TakesEffect, Broker!Calls, Broker!NoCall, Broker!NoBoot, Broker!history,
       Broker!cmd,
       BP!Submit, BP!Serve, BP!Crash, BP!HostReboot,
       BP!Accept, BP!Prepare, BP!PrepareFails, BP!Replay, BP!Recover,
       BP!RefuseInDoubt, BP!Start, BP!RecordIntent, BP!Run, BP!RunFails,
       BP!MarkRebootRequested, BP!AnnounceReboot, BP!CrossRefused,
       BP!CrossAccepted, BP!CrossReturns, BP!FinishOk, BP!FinishError,
       BP!ClearIntentFails, BP!Closed, BP!Answer, BP!Written,
       BP!WriteFails, BP!BoundaryCrossed, BP!Fresh, BP!Locked,
       BP!TakesEffect, BP!Calls, BP!NoCall, BP!NoBoot, BP!history,
       BP!cmd

-----------------------------------------------------------------------------
(* What the agent carries *)

(***************************************************************************)
(* The agent and the broker work only on commands that were enqueued.      *)
(***************************************************************************)
Known ==
  /\ agent.step # "poll" => agent.call \in Calls /\ rows[agent.call[1]].status # "absent"
  /\ \A call \in Calls : call \in inbox \/ call = cur => rows[call[1]].status # "absent"

(***************************************************************************)
(* Whoever is about to report a success, or has reported one, has the      *)
(* answer of the broker to that very call.                                 *)
(***************************************************************************)
Backed ==
  /\ agent.step = "complete" => answer[agent.call] = "ok"
  /\ \A request \in late : request.to = "complete" => answer[request.call] = "ok"
  /\ \A c \in Commands :
       rows[c].status = "succeeded" =>
         <<c, ackedBy[c]>> \in Calls /\ answer[<<c, ackedBy[c]>>] = "ok"

PipelineHolds ==
  /\ TypeOK
  /\ BP!Safe /\ BP!PendingUnanswered /\ BP!BootsRecorded
  /\ Known
  /\ Backed

LEMMA PipelineTypes ==
  ASSUME TypeOK
  PROVE  QP!TypeOK /\ BP!TypeOK
BY SameQueueTypes, SameBrokerTypes DEF TypeOK

LEMMA CallParts == /\ \A call \in Calls : call = <<call[1], call[2]>>
                   /\ \A call \in Calls : call[1] \in Commands /\ call[2] \in 1..MaxAttempts
                   /\ \A c \in Commands, t \in 1..MaxAttempts : <<c, t>> \in Calls
                   /\ Calls = BP!Calls
BY SameBrokerTypes DEF BP!Calls

-----------------------------------------------------------------------------
(* What a step does to each component *)

(***************************************************************************)
(* A request that is applied claims, renews, fails, or completes a row.    *)
(***************************************************************************)
LEMMA AppliedIs ==
  ASSUME NEW request \in Requests, Applied(request)
  PROVE  \/ QP!Quiet
         \/ /\ request.to = "complete"
            /\ request.call \in Calls
            /\ QP!Complete(request.call[1], request.call[2])
BY CallParts, SameCalls DEF Applied, Requests, QP!Quiet

(***************************************************************************)
(* What can happen to the rows in one step: nothing, a new command, calls  *)
(* that tell no success, or the completion of a call that was answered.    *)
(***************************************************************************)
LEMMA OwnRequests ==
  ASSUME TypeOK, Known
  PROVE  /\ [to |-> "claim"] \in Requests
         /\ agent.step = "wait" => Renew \in Requests
         /\ agent.step \in {"complete", "fail"} => Report \in Requests
BY DEF TypeOK, Known, Requests, Renew, Report

RowsMove ==
  \/ UNCHANGED queueVars \/ StatusReport \/ Tick
  \/ /\ \/ \E c \in Commands : QP!Enqueue(c, KindOf[c], reported)
        \/ QP!Quiet
        \/ \E call \in Calls : answer[call] = "ok" /\ QP!Complete(call[1], call[2])
     /\ UNCHANGED brokerVars

LEMMA AppliedMoves ==
  ASSUME TypeOK, NEW request \in Requests, Applied(request), UNCHANGED brokerVars,
         request.to = "complete" => answer[request.call] = "ok"
  PROVE  RowsMove
BY AppliedIs DEF RowsMove

LEMMA RowsStep ==
  ASSUME PipelineHolds, [Next]_vars
  PROVE  RowsMove
<1> USE DEF PipelineHolds
<1>1. ASSUME NEW c \in Commands, Enqueue(c) \/ Claim(c) PROVE RowsMove
  BY <1>1, SameEvents, SameClaims
     DEF Enqueue, Claim, RowsMove, QP!Quiet, QP!ClaimCall
<1>2. CASE ClaimNothing
  BY <1>2, SameClaims DEF ClaimNothing, RowsMove, QP!Quiet, QP!ClaimCall
<1>3. ASSUME NEW request \in Requests, NoAnswer(request), UNCHANGED brokerVars,
             request.to = "complete" => answer[request.call] = "ok"
      PROVE  RowsMove
  BY <1>3, AppliedMoves DEF NoAnswer, RowsMove, queueVars
<1>4. CASE ClaimUnanswered
  BY <1>3, <1>4, OwnRequests DEF ClaimUnanswered
<1>5. CASE RenewAnswered \/ RenewUnanswered
  BY <1>3, <1>5, OwnRequests, AppliedMoves
     DEF RenewAnswered, RenewUnanswered, Refused, Renew, RowsMove, queueVars
<1>6. CASE Reported
  <2>1. Report \in Requests /\ UNCHANGED brokerVars
    BY <1>6, OwnRequests DEF Reported
  <2>2. Report.to = "complete" => answer[Report.call] = "ok"
    BY <1>6 DEF Reported, Report, Backed
  <2> QED
    BY <1>3, <1>6, <2>1, <2>2, AppliedMoves DEF Reported, Refused, RowsMove, queueVars
<1>7. ASSUME NEW request \in late, LateArrives(request) PROVE RowsMove
  BY <1>7, AppliedMoves DEF LateArrives, Refused, RowsMove, queueVars, Backed, TypeOK
<1> QED
  BY <1>1, <1>2, <1>4, <1>5, <1>6, <1>7
     DEF Next, Call, Answered, CallAbandoned, AgentCrash, StatusReport, Tick, BrokerStep,
         HostReboot, RowsMove, queueVars, vars

(***************************************************************************)
(* Every step is a step of the queue and a step of the broker, or leaves   *)
(* them.                                                                   *)
(***************************************************************************)
LEMMA QueueStep ==
  ASSUME PipelineHolds, [Next]_vars
  PROVE  [QP!Next]_QP!vars
<1>1. CASE UNCHANGED queueVars
  BY <1>1 DEF queueVars, QP!vars
<1>2. QP!Quiet => QP!Next
  BY DEF QP!Quiet, QP!Next
<1>3. \A call \in Calls : QP!Complete(call[1], call[2]) => QP!Next
  BY CallParts DEF QP!Next
<1>4. \A c \in Commands : QP!Enqueue(c, KindOf[c], reported) => QP!Next
  BY PipelineTypes, Assumptions DEF PipelineHolds, QP!TypeOK, QP!Next, BP!BrokerAssumption,
     BP!Kinds, QP!Kinds
<1>5. CASE StatusReport \/ Tick
  BY <1>5, SameEvents, PipelineTypes, Assumptions
     DEF StatusReport, Tick, PipelineHolds, BP!TypeOK, QP!Next
<1> QED
  BY <1>1, <1>2, <1>3, <1>4, <1>5, RowsStep DEF RowsMove

LEMMA RowsStay ==
  ASSUME StatusReport \/ Tick
  PROVE  UNCHANGED <<rows, ackedBy>>
BY DEF StatusReport, Tick, Queue!ReportBoot, Queue!Tick

LEMMA BrokerMoves ==
  ASSUME PipelineHolds, [Next]_vars
  PROVE  \/ UNCHANGED brokerVars
         \/ BP!Submit(agent.call) /\ Call
         \/ BP!Serve \/ BP!Crash \/ BP!HostReboot
BY SameBroker
   DEF Next, Enqueue, Claim, ClaimNothing, ClaimUnanswered, Call, RenewAnswered,
       RenewUnanswered, Answered, CallAbandoned, Reported, AgentCrash, LateArrives,
       StatusReport, Tick, BrokerStep, HostReboot, vars

LEMMA BrokerStepped ==
  ASSUME PipelineHolds, [Next]_vars
  PROVE  [BP!Next]_BP!vars
<1>1. agent.step # "poll" => agent.call \in BP!Calls
  BY CallParts DEF PipelineHolds, Known
<1> QED
  BY <1>1, BrokerMoves DEF BP!Next, BP!vars, brokerVars, Call

(***************************************************************************)
(* No row disappears, and an answer stays what it is.                      *)
(***************************************************************************)
LEMMA RowsRemain ==
  ASSUME PipelineHolds, [Next]_vars, NEW c \in Commands
  PROVE  rows[c].status # "absent" => rows'[c].status # "absent"
<1>1. QP!TypeOK /\ rows[c] \in QP!Row
  BY PipelineTypes DEF PipelineHolds, QP!TypeOK
<1>2. ASSUME NEW d \in Commands, QP!Enqueue(d, KindOf[d], reported)
      PROVE  rows[c].status # "absent" => rows'[c] = rows[c]
  BY <1>1, <1>2 DEF QP!Enqueue, QP!TypeOK
<1>3. QP!Quiet => (rows[c].status # "absent" => rows'[c].status # "absent")
  BY <1>1, QP!QuietKeeps, Assumptions DEF QP!Active
<1>4. ASSUME NEW call \in Calls, QP!Complete(call[1], call[2])
      PROVE  rows[c].status # "absent" => rows'[c].status # "absent"
  BY <1>1, <1>4 DEF QP!Complete, QP!TypeOK, QP!Finished, QP!ClearClaim, QP!Row
<1> QED
  BY <1>2, <1>3, <1>4, RowsStep, RowsStay DEF RowsMove, queueVars

LEMMA OkStays ==
  ASSUME PipelineHolds, [Next]_vars, NEW call \in Calls
  PROVE  answer[call] = "ok" => answer'[call] = "ok"
BY BP!AnswersStay, BrokerStepped, PipelineTypes, CallParts, Assumptions
   DEF PipelineHolds, BP!Answered

-----------------------------------------------------------------------------
(* The invariant is kept *)

(***************************************************************************)
(* How the agent goes on: it claims, ends its turn, or works on its call;  *)
(* and what it leaves under way is a request of its own.                   *)
(***************************************************************************)
WorksOn ==
  /\ agent.step # "poll"
  /\ agent'.call = agent.call
  /\ agent'.step = "complete" => answer[agent.call] = "ok"

AgentStep == agent' \in {agent, Polling} \/ WorksOn \/ \E c \in Commands : Claim(c)

LEMMA AgentGoesOn ==
  ASSUME TypeOK, [Next]_vars
  PROVE  AgentStep
<1>0. agent \in [step : {"poll", "call", "wait", "complete", "fail"},
                 call : Calls \cup {Broker!NoCall}, leased : BOOLEAN, retry : BOOLEAN]
  BY DEF TypeOK
<1>1. CASE Call \/ RenewAnswered \/ RenewUnanswered \/ CallAbandoned
  BY <1>0, <1>1
     DEF Call, RenewAnswered, RenewUnanswered, CallAbandoned, ToReport, AgentStep, WorksOn
<1>2. CASE Answered \/ Reported
  BY <1>0, <1>2 DEF Answered, AnswerReport, Reported, ToReport, AgentStep, WorksOn
<1> QED
  BY <1>1, <1>2
     DEF Next, AgentStep, Enqueue, ClaimNothing, ClaimUnanswered, AgentCrash, LateArrives,
         StatusReport, Tick, BrokerStep, HostReboot, vars

LEMMA LateIsOwn ==
  ASSUME [Next]_vars, NEW request \in late'
  PROVE  \/ request \in late
         \/ request = [to |-> "claim"]
         \/ request = Renew /\ agent.step = "wait"
         \/ request = Report /\ agent.step \in {"complete", "fail"}
<1>1. ASSUME NEW own, NoAnswer(own) PROVE late' \in {late, late \cup {own}}
  BY <1>1 DEF NoAnswer
<1>2. CASE ClaimUnanswered \/ RenewUnanswered
  BY <1>1, <1>2 DEF ClaimUnanswered, RenewUnanswered
<1>3. CASE Reported
  BY <1>1, <1>3 DEF Reported
<1> QED
  BY <1>2, <1>3
     DEF Next, Enqueue, Claim, ClaimNothing, Call, RenewAnswered, Answered, CallAbandoned,
         AgentCrash, LateArrives, StatusReport, Tick, BrokerStep, HostReboot, vars

LEMMA KnownStep ==
  ASSUME PipelineHolds, [Next]_vars
  PROVE  Known'
<1>1. \A call \in Calls :
        rows[call[1]].status # "absent" => rows'[call[1]].status # "absent"
  BY RowsRemain, CallParts
<1>2. agent'.step # "poll" =>
        agent'.call \in Calls /\ rows'[agent'.call[1]].status # "absent"
  <2>1. CASE WorksOn \/ agent' = agent
    BY <1>1, <2>1 DEF PipelineHolds, Known, WorksOn
  <2>2. ASSUME NEW c \in Commands, Claim(c)
        PROVE  agent'.call \in Calls /\ rows'[agent'.call[1]].status # "absent"
    <3>1. PICK at \in QP!ClaimTimes : QP!Claim(c, at)
      BY <2>2, SameClaims DEF Claim
    <3>2. rows[c].attempts + 1 \in 1..MaxAttempts /\ rows[c].status # "absent"
      BY <3>1, QP!ClaimAttempt, PipelineTypes, Assumptions DEF PipelineHolds
    <3>3. agent'.call = <<c, rows[c].attempts + 1>>
      BY <2>2 DEF Claim, Polling
    <3> QED
      BY <1>1, <3>2, <3>3, CallParts
  <2>3. CASE agent' = Polling
    BY <2>3 DEF Polling
  <2> QED
    BY <2>1, <2>2, <2>3, AgentGoesOn DEF PipelineHolds, AgentStep
<1>3. ASSUME NEW call \in Calls, call \in inbox' \/ call = cur'
      PROVE  rows'[call[1]].status # "absent"
  <2>1. CASE UNCHANGED brokerVars
    BY <1>1, <1>3, <2>1 DEF PipelineHolds, Known, brokerVars
  <2>2. CASE BP!Submit(agent.call) /\ Call
    BY <1>1, <1>3, <2>2 DEF PipelineHolds, Known, BP!Submit, Call
  <2>3. CASE BP!Serve \/ BP!Crash \/ BP!HostReboot
    BY <1>1, <1>3, <2>3, BP!NoNewCalls, PipelineTypes, CallParts, Assumptions
       DEF PipelineHolds, Known
  <2> QED
    BY <2>1, <2>2, <2>3, BrokerMoves
<1> QED
  BY <1>2, <1>3 DEF Known

LEMMA BackedStep ==
  ASSUME PipelineHolds, [Next]_vars
  PROVE  Backed'
<1> USE DEF PipelineHolds
<1>1. agent'.step = "complete" => answer'[agent'.call] = "ok"
  <2>1. agent'.step = "complete" =>
          /\ agent'.call = agent.call /\ agent.step # "poll"
          /\ answer[agent.call] = "ok"
    <3>1. CASE WorksOn \/ agent' \in {agent, Polling}
      BY <3>1 DEF WorksOn, Polling, Backed
    <3>2. ASSUME NEW c \in Commands, Claim(c) PROVE agent'.step = "call"
      BY <3>2 DEF Claim, Polling
    <3> QED
      BY <3>1, <3>2, AgentGoesOn DEF AgentStep
  <2> QED
    BY <2>1, OkStays DEF Known
<1>2. ASSUME NEW request \in late', request.to = "complete"
      PROVE  answer'[request.call] = "ok"
  <2>1. request \in late \/ (request = Report /\ agent.step = "complete")
    BY <1>2, LateIsOwn DEF Renew, Report
  <2>2. request.call \in Calls /\ answer[request.call] = "ok"
    BY <1>2, <2>1 DEF Backed, Known, TypeOK, Requests, Report
  <2> QED
    BY <2>2, OkStays
<1>3. ASSUME NEW c \in Commands, rows'[c].status = "succeeded"
      PROVE  <<c, ackedBy'[c]>> \in Calls /\ answer'[<<c, ackedBy'[c]>>] = "ok"
  <2>0. QP!TypeOK /\ rows[c] \in QP!Row
    BY PipelineTypes DEF QP!TypeOK
  <2>1. CASE rows[c].status = "succeeded" /\ ackedBy'[c] = ackedBy[c]
    BY <2>1, OkStays DEF Backed
  <2>2. ASSUME NEW d \in Commands, QP!Enqueue(d, KindOf[d], reported)
        PROVE  rows[c].status = "succeeded" /\ ackedBy'[c] = ackedBy[c]
    BY <1>3, <2>0, <2>2 DEF QP!Enqueue, QP!TypeOK, QP!NoRow
  <2>3. CASE QP!Quiet
    BY <1>3, <2>0, <2>1, <2>3, QP!QuietKeeps, Assumptions DEF QP!Active
  <2>4. ASSUME NEW call \in Calls, answer[call] = "ok", QP!Complete(call[1], call[2])
        PROVE  <<c, ackedBy'[c]>> \in Calls /\ answer'[<<c, ackedBy'[c]>>] = "ok"
    <3>1. call[1] # c => rows'[c] = rows[c] /\ ackedBy'[c] = ackedBy[c]
      BY <2>0, <2>4 DEF QP!Complete, QP!TypeOK
    <3>2. call[1] = c => <<c, ackedBy'[c]>> = call
      BY <2>0, <2>4, CallParts DEF QP!Complete, QP!TypeOK
    <3> QED
      BY <1>3, <2>1, <2>4, <3>1, <3>2, OkStays
  <2> QED
    BY <1>3, <2>1, <2>2, <2>3, <2>4, RowsStep, RowsStay DEF RowsMove, queueVars
<1> QED
  BY <1>1, <1>2, <1>3 DEF Backed

LEMMA TypesStep ==
  ASSUME PipelineHolds, [Next]_vars
  PROVE  TypeOK'
<1> USE DEF PipelineHolds
<1>1. Queue!TypeOK' /\ Broker!TypeOK'
  <2>1. QP!TypeOK' /\ BP!TypeOK'
    BY QP!TypeStep, BP!TypeStep, QueueStep, BrokerStepped, PipelineTypes, Assumptions
  <2>2. (Queue!TypeOK <=> QP!TypeOK)' /\ (Broker!TypeOK <=> BP!TypeOK)'
    BY SameQueueTypes, SameBrokerTypes, PTL
  <2> QED
    BY <2>1, <2>2
<1>2. agent' \in [step : {"poll", "call", "wait", "complete", "fail"},
                  call : Calls \cup {Broker!NoCall}, leased : BOOLEAN, retry : BOOLEAN]
  <2>0. /\ agent \in [step : {"poll", "call", "wait", "complete", "fail"},
                      call : Calls \cup {Broker!NoCall}, leased : BOOLEAN, retry : BOOLEAN]
        /\ Polling \in [step : {"poll", "call", "wait", "complete", "fail"},
                        call : Calls \cup {Broker!NoCall}, leased : BOOLEAN, retry : BOOLEAN]
    BY DEF TypeOK, Polling
  <2>1. CASE Call \/ RenewAnswered \/ RenewUnanswered \/ CallAbandoned
    BY <2>0, <2>1 DEF Call, RenewAnswered, RenewUnanswered, CallAbandoned, ToReport
  <2>2. CASE Answered
    BY <2>0, <2>2 DEF Answered, AnswerReport, ToReport
  <2>3. CASE Reported
    BY <2>0, <2>3 DEF Reported, ToReport
  <2>4. ASSUME NEW c \in Commands, Claim(c)
        PROVE  agent' \in [step : {"poll", "call", "wait", "complete", "fail"},
                           call : Calls \cup {Broker!NoCall}, leased : BOOLEAN, retry : BOOLEAN]
    <3>1. agent'.step = "call" /\ agent'.call \in Calls
      BY <2>4, KnownStep DEF Known, Claim, Polling
    <3> QED
      BY <2>0, <2>4, <3>1 DEF Claim
  <2> QED
    BY <2>0, <2>1, <2>2, <2>3, <2>4
       DEF Next, Enqueue, ClaimNothing, ClaimUnanswered, AgentCrash, LateArrives,
           StatusReport, Tick, BrokerStep, HostReboot, vars
<1>3. late' \in SUBSET Requests
  <2>1. ASSUME NEW request \in late' PROVE request \in Requests
    BY <2>1, LateIsOwn, OwnRequests DEF TypeOK
  <2> QED
    BY <2>1
<1> QED
  BY <1>1, <1>2, <1>3 DEF TypeOK

LEMMA PipelineStep == PipelineHolds /\ [Next]_vars => PipelineHolds'
<1> SUFFICES ASSUME PipelineHolds, [Next]_vars PROVE PipelineHolds'
  OBVIOUS
<1>1. BP!TypeOK /\ [BP!Next]_BP!vars
  BY PipelineTypes, BrokerStepped DEF PipelineHolds
<1>2. BP!Safe' /\ BP!PendingUnanswered' /\ BP!BootsRecorded'
  BY <1>1, BP!SafeStep, BP!PendingStep, BP!BootsStep, Assumptions DEF PipelineHolds
<1> QED
  BY <1>2, TypesStep, KnownStep, BackedStep DEF PipelineHolds

LEMMA PipelineInit == Init => PipelineHolds
<1> SUFFICES ASSUME Init PROVE PipelineHolds
  OBVIOUS
<1>1. QP!Init /\ BP!Init
  BY SameInit DEF Init
<1>2. QP!TypeOK /\ BP!TypeOK /\ BP!Safe
  BY <1>1, QP!TypeInit, BP!SafeInit, Assumptions
<1>3. BP!PendingUnanswered /\ BP!BootsRecorded
  BY <1>1 DEF BP!Init, BP!PendingUnanswered, BP!BootsRecorded, BP!NoCall, BP!Calls
<1>4. Known
  BY <1>1, CallParts DEF Init, Polling, Known, BP!Init, BP!NoCall, BP!Calls
<1>5. Backed
  BY <1>1 DEF Init, Polling, Backed, QP!Init, QP!NoRow
<1>6. TypeOK
  BY <1>2, SameQueueTypes, SameBrokerTypes DEF Init, TypeOK, Polling
<1> QED
  BY <1>2, <1>3, <1>4, <1>5, <1>6 DEF PipelineHolds

LEMMA AlwaysHolds == Spec => []PipelineHolds
BY PipelineInit, PipelineStep, PTL DEF Spec

(***************************************************************************)
(* A row ends as succeeded only by the claim whose own call was answered   *)
(* with success.                                                           *)
(***************************************************************************)
THEOREM SuccessIsBacked == Spec => []SuccessWasAnswered
<1>1. PipelineHolds => SuccessWasAnswered
  BY DEF PipelineHolds, Backed, SuccessWasAnswered
<1> QED
  BY <1>1, AlwaysHolds, PTL

-----------------------------------------------------------------------------
(* RemoteCommand is implemented *)

(***************************************************************************)
(* The state that the mapping gives to RemoteCommand.                      *)
(***************************************************************************)
Told == [c \in Commands |-> Outcome(rows[c])]
Done == {c \in Commands : effects[c] > 0}
Crossed == {c \in PowerCommands : journal[c].boot \in 1..(boot - 1)}

LEMMA Outcomes ==
  ASSUME NEW row \in QP!Row
  PROVE  /\ Outcome(row) \in {"none", "open", "succeeded", "unsuccessful"}
         /\ row.status = "absent" <=> Outcome(row) = "none"
         /\ row.status \in QP!Active <=> Outcome(row) = "open"
         /\ row.status = "succeeded" <=> Outcome(row) = "succeeded"
BY DEF Outcome, Queue!Active, QP!Active, QP!Row, QP!Terminal

(***************************************************************************)
(* An answered success was earned: its operation happened, or it is a      *)
(* reboot that the host has been through.                                  *)
(***************************************************************************)
LEMMA OkIsEarned ==
  ASSUME PipelineHolds, NEW call \in Calls, answer[call] = "ok"
  PROVE  call[1] \in Done \cup Crossed
<1>1. call \in BP!Calls /\ call[1] \in Commands
  BY CallParts
<1>2. journal[call[1]].state = "completed" /\ BP!EntryHolds(call[1])
  BY <1>1 DEF PipelineHolds, BP!Safe, BP!AnswersHold
<1>3. CASE effects[call[1]] = 1
  BY <1>1, <1>3 DEF Done
<1>4. CASE KindOf[call[1]] = "power" /\ journal[call[1]].boot < boot
  <2>1. journal[call[1]].boot # 0
    BY <1>1, <1>2, <1>4 DEF PipelineHolds, BP!BootsRecorded, BP!NoBoot
  <2>2. journal[call[1]].boot \in 0..MaxBoot /\ boot \in 1..MaxBoot /\ MaxBoot \in Nat
    BY <1>1, PipelineTypes, Assumptions DEF PipelineHolds, BP!TypeOK, BP!Entry, BP!BrokerAssumption
  <2> QED
    BY <1>1, <1>4, <2>1, <2>2 DEF Crossed, PowerCommands
<1> QED
  BY <1>2, <1>3, <1>4 DEF BP!EntryHolds

LEMMA RequestOrClose ==
  ASSUME PipelineHolds, RowsMove, UNCHANGED brokerVars
  PROVE  \/ UNCHANGED <<Told, Done, Crossed>>
         \/ Remote!Close
         \/ \E c \in Commands : Remote!Request(c)
<1> USE DEF PipelineHolds
<1>0. /\ \A c \in Commands : rows[c] \in QP!Row
      /\ QP!TypeOK
      /\ UNCHANGED <<Done, Crossed>>
  BY PipelineTypes DEF QP!TypeOK, Done, Crossed, brokerVars
<1>1. CASE UNCHANGED rows
  BY <1>0, <1>1 DEF Told
<1>2. ASSUME NEW c \in Commands, QP!Enqueue(c, KindOf[c], reported)
      PROVE  Remote!Request(c)
  <2>1. rows'[c].status = "queued" /\ \A d \in Commands : d # c => rows'[d] = rows[d]
    BY <1>0, <1>2 DEF QP!Enqueue, QP!TypeOK, QP!NoRow
  <2>2. Outcome(rows[c]) = "none" /\ Outcome(rows'[c]) = "open"
    BY <1>0, <1>2, <2>1, Outcomes DEF QP!Enqueue, Outcome, Queue!Active
  <2>3. Told' = [Told EXCEPT ![c] = "open"]
    BY <2>1, <2>2 DEF Told
  <2> QED
    BY <1>0, <2>2, <2>3 DEF Remote!Request, Told, Done, Crossed
<1>3. ASSUME NEW d \in Commands,
             \/ Outcome(rows'[d]) = Outcome(rows[d])
             \/ /\ Outcome(rows[d]) = "open"
                /\ \/ Outcome(rows'[d]) = "unsuccessful"
                   \/ Outcome(rows'[d]) = "succeeded" /\ d \in Done \cup Crossed
      PROVE  /\ Told'[d] \in {"none", "open", "succeeded", "unsuccessful"}
             /\ Told'[d] # Told[d] =>
                  /\ Told[d] = "open"
                  /\ \/ Told'[d] = "succeeded" /\ d \in Done \cup Crossed
                     \/ Told'[d] = "unsuccessful"
  BY <1>0, <1>3, Outcomes DEF Told
<1>4. ASSUME \A d \in Commands :
               \/ Outcome(rows'[d]) = Outcome(rows[d])
               \/ /\ Outcome(rows[d]) = "open"
                  /\ \/ Outcome(rows'[d]) = "unsuccessful"
                     \/ Outcome(rows'[d]) = "succeeded" /\ d \in Done \cup Crossed
      PROVE  Remote!Close
  <2>1. Told' \in [Commands -> {"none", "open", "succeeded", "unsuccessful"}]
    BY <1>3, <1>4 DEF Told
  <2> QED
    BY <1>0, <1>3, <1>4, <2>1 DEF Remote!Close, Told, Done, Crossed
<1>5. ASSUME QP!Quiet, NEW d \in Commands
      PROVE  \/ Outcome(rows'[d]) = Outcome(rows[d])
             \/ Outcome(rows[d]) = "open" /\ Outcome(rows'[d]) = "unsuccessful"
  <2>1. /\ rows[d].status \notin QP!Active => rows'[d] = rows[d]
        /\ rows[d].status \in QP!Active =>
             rows'[d].status \in QP!Active \cup {"failed", "expired"}
    BY <1>0, <1>5, QP!QuietKeeps, Assumptions
  <2> QED
    BY <2>1 DEF Outcome, Queue!Active, QP!Active
<1>6. ASSUME NEW call \in Calls, answer[call] = "ok", QP!Complete(call[1], call[2]),
             NEW d \in Commands
      PROVE  \/ rows'[d] = rows[d]
             \/ /\ Outcome(rows[d]) = "open" /\ Outcome(rows'[d]) = "succeeded"
                /\ d \in Done \cup Crossed
  <2>1. CASE call[1] # d
    BY <1>0, <1>6, <2>1 DEF QP!Complete, QP!TypeOK
  <2>2. CASE call[1] = d
    <3>1. rows[d].status = "claimed" /\ rows'[d].status = "succeeded"
      BY <1>0, <1>6, <2>2
         DEF QP!Complete, QP!HoldsClaim, QP!TypeOK, QP!Finished, QP!ClearClaim, QP!Row
    <3> QED
      BY <1>6, <2>2, <3>1, OkIsEarned DEF Outcome, Queue!Active
  <2> QED
    BY <2>1, <2>2
<1> QED
  BY <1>1, <1>2, <1>4, <1>5, <1>6, RowsStay DEF RowsMove, queueVars

(***************************************************************************)
(* A step of the broker happens for a command that was requested, or       *)
(* crosses a boot boundary.                                                *)
(***************************************************************************)
LEMMA HappenOrReboot ==
  ASSUME PipelineHolds, [Next]_vars, UNCHANGED rows
  PROVE  Remote!Reboot \/ \E c \in Commands : Remote!Happen(c)
<1> USE DEF PipelineHolds
<1>0. /\ BP!TypeOK /\ [BP!Next]_BP!vars
      /\ UNCHANGED Told
  BY PipelineTypes, BrokerStepped DEF Told
<1>1. ASSUME NEW d \in Commands, BP!Takes(d) PROVE Remote!Happen(d)
  <2>1. cur \in Calls /\ d = cur[1]
    BY <1>0, <1>1, CallParts DEF BP!Takes, BP!TypeOK, BP!NoCall, BP!cmd
  <2>2. Outcome(rows[d]) # "none"
    BY <2>1, Outcomes, PipelineTypes DEF Known, QP!TypeOK
  <2>3. d \notin Done /\ Done' = Done \cup {d} /\ UNCHANGED Crossed
    BY <1>1 DEF BP!Takes, Done, Crossed
  <2> QED
    BY <1>0, <2>2, <2>3 DEF Remote!Happen, Told, Done, Crossed
<1>2. CASE UNCHANGED effects
  <2>1. ASSUME NEW c \in Crossed PROVE c \in Crossed'
    <3>1. c \in Commands /\ KindOf[c] = "power" /\ journal[c].boot \in 1..(boot - 1)
      BY DEF Crossed, PowerCommands
    <3>2. boot \in Nat /\ (boot' = boot \/ boot' = boot + 1)
      BY <1>0, BP!BootRises, Assumptions DEF BP!TypeOK
    <3>3. journal'[c].boot = journal[c].boot
      BY <1>0, <3>1, BP!BootsStep, Assumptions DEF BP!BootStays, BP!NoBoot
    <3> QED
      BY <3>1, <3>2, <3>3 DEF Crossed, PowerCommands
  <2>2. Crossed' \in SUBSET PowerCommands /\ UNCHANGED Done
    BY <1>2 DEF Crossed, Done
  <2> QED
    BY <1>0, <2>1, <2>2 DEF Remote!Reboot, Told, Done, Crossed
<1> QED
  BY <1>0, <1>1, <1>2, BP!EffectsStep, Assumptions

(***************************************************************************)
(* The queue, the agent and the broker together keep what RemoteCommand    *)
(* promises: at most once, one outcome, and no success without a reason.   *)
(***************************************************************************)
THEOREM PipelineImplementsRemoteCommand == Spec => ImplementsRemoteCommand
<1>1. Init => Remote!Init
  <2> SUFFICES ASSUME Init PROVE Remote!Init
    OBVIOUS
  <2>1. QP!Init /\ BP!Init
    BY SameInit DEF Init
  <2>2. Told = [c \in Commands |-> "none"] /\ Done = {} /\ Crossed = {}
    BY <2>1 DEF Told, Done, Crossed, Outcome, Queue!Active, QP!Init, QP!NoRow, BP!Init, BP!NoBoot
  <2> QED
    BY <2>2 DEF Remote!Init, Told, Done, Crossed
<1>2. PipelineHolds /\ [Next]_vars => [Remote!Next]_Remote!vars
  <2> SUFFICES ASSUME PipelineHolds, [Next]_vars PROVE [Remote!Next]_Remote!vars
    OBVIOUS
  <2>1. CASE UNCHANGED <<Told, Done, Crossed>>
    BY <2>1 DEF Remote!vars, Told, Done, Crossed
  <2>2. CASE UNCHANGED rows
    BY <2>2, HappenOrReboot DEF Remote!Next
  <2>3. CASE UNCHANGED brokerVars
    BY <2>1, <2>3, RowsStep, RequestOrClose DEF Remote!Next
  <2> QED
    BY <2>2, <2>3, RowsStep, RowsStay DEF RowsMove, queueVars
<1> QED
  BY <1>1, <1>2, AlwaysHolds, PTL DEF Spec, ImplementsRemoteCommand, Remote!Spec
=============================================================================
