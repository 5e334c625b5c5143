--------------------------- MODULE SystemPipeline ---------------------------
(***************************************************************************)
(* A System command from the queue of the backend to the broker of the     *)
(* host and back: CommandQueue and SystemBroker, joined by the System      *)
(* agent (command_agent.py, system_agent.py) over a network that loses     *)
(* requests and replies and delivers requests late.                        *)
(*                                                                         *)
(* The agent is one loop: claim a command, call the broker once while a    *)
(* thread renews the lease, report, claim the next.  It calls the broker   *)
(* at most once per claim, so the number of the claim names the call.      *)
(***************************************************************************)
EXTENDS Naturals, FiniteSets

CONSTANTS
  Commands,
  KindOf,
  MaxAttempts, Lease, Ttl, RetryDelay, MaxWait,  \* of CommandQueue
  MaxTime,
  MaxBoot,
  DiskFaults,
  MaxLate  \* bound on the requests that are late at a time

VARIABLES
  now, reported, rows, ackedBy,                        \* CommandQueue
  boot, inbox, answer, pc, cur, lock, journal,         \* SystemBroker
  effects, effectBoot, needsReboot, requested,
  agent,  \* what the agent is doing
  late    \* requests that the agent has given up and the backend may still get

Queue == INSTANCE CommandQueue
Broker == INSTANCE SystemBroker WITH MaxCalls <- MaxAttempts

ASSUME PipelineAssumption ==
  /\ Queue!QueueAssumption
  /\ Broker!BrokerAssumption
  /\ MaxLate \in Nat

queueVars == <<now, reported, rows, ackedBy>>
brokerVars == <<boot, inbox, answer, pc, cur, lock, journal,
                effects, effectBoot, needsReboot, requested>>
vars == <<queueVars, brokerVars, agent, late>>

Calls == Broker!Calls
Polling == [step |-> "poll", call |-> Broker!NoCall, leased |-> TRUE, retry |-> FALSE]

Requests ==
  [to : {"claim"}]
  \cup [to : {"renew", "complete"}, call : Calls]
  \cup [to : {"fail"}, call : Calls, retry : BOOLEAN]

Init ==
  /\ Queue!Init
  /\ Broker!Init
  /\ agent = Polling
  /\ late = {}

-----------------------------------------------------------------------------
(* The backend's side of each request *)

Applied(request) ==
  \/ request.to = "claim" /\ Queue!ClaimCall
  \/ request.to = "renew" /\ Queue!Renew(request.call[1], request.call[2])
  \/ request.to = "complete" /\ Queue!Complete(request.call[1], request.call[2])
  \/ request.to = "fail" /\ Queue!Fail(request.call[1], request.call[2], request.retry)

\* 409: the claim is not held any more.
Refused(request) ==
  /\ request.to # "claim"
  /\ ~Queue!HoldsClaim(request.call[1], request.call[2])
  /\ UNCHANGED queueVars

\* The agent sees no answer: the request was handled, it was lost, or it is
\* still under way.
NoAnswer(request) ==
  \/ Applied(request) /\ UNCHANGED late
  \/ UNCHANGED <<queueVars, late>>
  \/ /\ Cardinality(late \cup {request}) <= MaxLate
     /\ late' = late \cup {request}
     /\ UNCHANGED queueVars

LateArrives(request) ==
  /\ Applied(request) \/ Refused(request)
  /\ late' = late \ {request}
  /\ UNCHANGED <<brokerVars, agent>>

-----------------------------------------------------------------------------
(* The agent *)

Claim(c) ==
  /\ agent.step = "poll"
  /\ \E at \in Queue!ClaimTimes : Queue!Claim(c, at)
  /\ agent' = [Polling EXCEPT !.step = "call", !.call = <<c, rows[c].attempts + 1>>]
  /\ UNCHANGED <<brokerVars, late>>

ClaimNothing ==
  /\ agent.step = "poll"
  /\ \E at \in Queue!ClaimTimes : Queue!ClaimNothing(at)
  /\ UNCHANGED <<brokerVars, agent, late>>

\* The claim is applied and its reply lost, or the request is.
ClaimUnanswered ==
  /\ agent.step = "poll"
  /\ NoAnswer([to |-> "claim"])
  /\ UNCHANGED <<brokerVars, agent>>

Call ==
  /\ agent.step = "call"
  /\ Broker!Submit(agent.call)
  /\ agent' = [agent EXCEPT !.step = "wait"]
  /\ UNCHANGED <<queueVars, late>>

Renew == [to |-> "renew", call |-> agent.call]

RenewAnswered ==
  /\ agent.step = "wait"
  /\ agent.leased
  /\ \/ Applied(Renew) /\ UNCHANGED agent
     \/ Refused(Renew) /\ agent' = [agent EXCEPT !.leased = FALSE]
  /\ UNCHANGED <<brokerVars, late>>

\* LeaseKeeper stops at its first failure.
RenewUnanswered ==
  /\ agent.step = "wait"
  /\ agent.leased
  /\ NoAnswer(Renew)
  /\ agent' = [agent EXCEPT !.leased = FALSE]
  /\ UNCHANGED brokerVars

ToReport(step, retry) == agent' = [agent EXCEPT !.step = step, !.retry = retry]

\* A success reported whatever became of the lease.
Mut_AnswerReport(what) ==
  IF what # "in_doubt" THEN ToReport("complete", FALSE) ELSE ToReport("fail", FALSE)

\* A lost answer taken for the success of a disruptive command.
Mut_AnswerReportClosed(what) ==
  IF what \in {"ok", "closed"} THEN ToReport("complete", FALSE) ELSE ToReport("fail", FALSE)

\* What is reported for an answer of the broker.  A success is reported as a
\* failure if the lease was lost meanwhile.
AnswerReport(what) ==
  \/ what = "ok" /\ agent.leased /\ ToReport("complete", FALSE)
  \/ what = "ok" /\ ~agent.leased /\ \E retry \in BOOLEAN : ToReport("fail", retry)
  \/ what = "in_doubt" /\ ToReport("fail", FALSE)
  \/ what \in {"error", "closed"} /\ ToReport("fail", KindOf[agent.call[1]] = "update")

Answered ==
  /\ agent.step = "wait"
  /\ answer[agent.call] # "none"
  /\ AnswerReport(answer[agent.call])
  /\ UNCHANGED <<queueVars, brokerVars, late>>

\* connect is refused, or the answer takes longer than the agent waits.
CallAbandoned ==
  /\ agent.step \in {"call", "wait"}
  /\ agent.step = "wait" => answer[agent.call] = "none"
  /\ ToReport("fail", FALSE)
  /\ UNCHANGED <<queueVars, brokerVars, late>>

Report ==
  IF agent.step = "complete" THEN [to |-> "complete", call |-> agent.call]
  ELSE [to |-> "fail", call |-> agent.call, retry |-> agent.retry]

\* A report that is refused or unanswered raises.  After complete that makes
\* the agent report a failure, retryable unless the answer was unreadable;
\* after fail it ends the turn.
Reported ==
  /\ agent.step \in {"complete", "fail"}
  /\ \/ Applied(Report) /\ UNCHANGED late /\ agent' = Polling
     \/ /\ (Refused(Report) /\ UNCHANGED late) \/ NoAnswer(Report)
        /\ IF agent.step = "complete"
             THEN \E retry \in BOOLEAN : ToReport("fail", retry)
             ELSE agent' = Polling
  /\ UNCHANGED brokerVars

AgentCrash ==
  /\ agent # Polling
  /\ agent' = Polling
  /\ UNCHANGED <<queueVars, brokerVars, late>>

-----------------------------------------------------------------------------
(* The backend, the broker and the host by themselves *)

Enqueue(c) ==
  /\ Queue!Enqueue(c, KindOf[c], reported)
  /\ UNCHANGED <<brokerVars, agent, late>>

\* Status reports the running boot, or an earlier report arrives late.
StatusReport ==
  /\ \E b \in 1..boot : Queue!ReportBoot(b)
  /\ UNCHANGED <<brokerVars, agent, late>>

Tick ==
  /\ Queue!Tick
  /\ UNCHANGED <<brokerVars, agent, late>>

BrokerStep ==
  /\ Broker!Serve \/ Broker!Crash
  /\ UNCHANGED <<queueVars, agent, late>>

HostReboot ==
  /\ Broker!HostReboot
  /\ agent' = Polling
  /\ UNCHANGED <<queueVars, late>>

Next ==
  \/ \E c \in Commands : Enqueue(c) \/ Claim(c)
  \/ ClaimNothing \/ ClaimUnanswered
  \/ Call \/ RenewAnswered \/ RenewUnanswered
  \/ Answered \/ CallAbandoned \/ Reported \/ AgentCrash
  \/ \E request \in late : LateArrives(request)
  \/ StatusReport \/ Tick
  \/ BrokerStep \/ HostReboot

Spec == Init /\ [][Next]_vars

-----------------------------------------------------------------------------

\* The types of both components, of the agent's turn and of late requests.
TypeOK ==
  /\ Queue!TypeOK
  /\ Broker!TypeOK
  /\ agent \in [step : {"poll", "call", "wait", "complete", "fail"},
                call : Calls \cup {Broker!NoCall}, leased : BOOLEAN, retry : BOOLEAN]
  /\ late \in SUBSET Requests

(***************************************************************************)
(* The claim that moves a row to succeeded is one whose own call of the    *)
(* broker was answered with success: an answer that was lost, doubtful or  *)
(* meant for an earlier claim of the row never ends as its success.        *)
(***************************************************************************)
SuccessWasAnswered ==
  \A c \in Commands :
    rows[c].status = "succeeded" => answer[<<c, ackedBy[c]>>] = "ok"

(***************************************************************************)
(* RemoteCommand, which this system implements: what the row says is what  *)
(* the user is told, and a later boot than the one in the journal proves a *)
(* reboot or a poweroff.                                                   *)
(***************************************************************************)
Outcome(row) ==
  CASE row.status = "absent" -> "none"
    [] row.status \in Queue!Active -> "open"
    [] row.status = "succeeded" -> "succeeded"
    [] row.status \in {"failed", "expired"} -> "unsuccessful"

PowerCommands == {c \in Commands : KindOf[c] = "power"}

Remote == INSTANCE RemoteCommand WITH
  Boundary <- PowerCommands,
  outcome <- [c \in Commands |-> Outcome(rows[c])],
  done <- {c \in Commands : effects[c] > 0},
  crossed <- {c \in PowerCommands : journal[c].boot \in 1..(boot - 1)}

ImplementsRemoteCommand == Remote!Spec
=============================================================================
