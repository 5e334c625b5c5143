--------------------------- MODULE DisplayControl ---------------------------
(***************************************************************************)
(* The configuration and the lockdown a client's display should have, and  *)
(* the commands that carry them (display_control.py, display_agent.py,     *)
(* apply_configuration of display_runtime.py).                             *)
(*                                                                         *)
(* A command is named by what it carries: there is at most one active of   *)
(* each.  The agent reports when it claims; a countdown is reported by a   *)
(* thread of its own, whose report takes two steps at the backend.         *)
(***************************************************************************)
EXTENDS KioskLockdown

CONSTANTS
  DcMaxChanges  \* bound on changes of what is wanted

VARIABLES
  want,     \* the desired state at the backend, and what it shows
  cmds,     \* the status of each command
  shown,    \* the revision that the display runtime has
  agent,    \* the command that the agent works on
  bridge    \* what a report of a countdown has read

dcvars == <<want, cmds, shown, agent, bridge>>

Configs == {<<"config", r>> : r \in 1 .. DcMaxChanges}
Locks == {<<"lock", b>> : b \in BOOLEAN}
Commands == Configs \cup Locks
Nothing == <<"none", 0>>
NoReport == [rev |-> 0, status |-> "none", desired |-> "none"]

DcInit ==
  /\ want = [rev |-> 0, locked |-> FALSE, status |-> "unknown", recent |-> FALSE, locks |-> 0]
  /\ cmds = [c \in Commands |-> "none"]
  /\ shown = 0
  /\ agent = [cmd |-> Nothing, at |-> "off"]
  /\ bridge = [at |-> "none", report |-> NoReport, locked |-> FALSE, active |-> cmds]

DcRest == UNCHANGED <<saved, force, icon, backup, op, harm>>

-----------------------------------------------------------------------------
(***************************************************************************)
(* What is wanted.                                                         *)
(***************************************************************************)
\* A report that is being applied holds the row of the configuration.
SetConfiguration ==
  /\ want.rev + want.locks < DcMaxChanges
  /\ bridge.at # "read"
  /\ want' = [want EXCEPT !.rev = @ + 1]
  /\ UNCHANGED <<cmds, shown, agent, bridge>> /\ UNCHANGED klvars

SetLockdown ==
  /\ want.rev + want.locks < DcMaxChanges
  /\ want' = [want EXCEPT !.locked = ~@, !.status = "pending", !.recent = FALSE, !.locks = @ + 1]
  /\ UNCHANGED <<cmds, shown, agent, bridge>> /\ UNCHANGED klvars

CooldownOver ==
  /\ want.recent
  /\ want' = [want EXCEPT !.recent = FALSE]
  /\ UNCHANGED <<cmds, shown, agent, bridge>> /\ UNCHANGED klvars

-----------------------------------------------------------------------------
(***************************************************************************)
(* Reports, and what is made of them.                                      *)
(***************************************************************************)
\* A broker at work does not answer in time.
Report ==
  [rev |-> shown,
   status |-> IF Busy THEN "unknown" ELSE Observed,
   desired |-> IF Busy THEN "unknown" ELSE IF saved.desired THEN "locked" ELSE "open"]

Word(b) == IF b THEN "locked" ELSE "open"
Active(s) == s \in {"queued", "claimed"}

\* reconcile_display_configuration: a queued command that is not wanted goes.
ReconciledConfig(seen, now, rev, report) ==
  [c \in Configs |->
     IF seen[c] = "queued" /\ (report.rev = rev \/ c[2] # rev) THEN "none"
     ELSE IF rev # 0 /\ report.rev # rev /\ c[2] = rev /\ ~Active(seen[c]) THEN "queued"
     ELSE now[c]]

Matches(locked, report) ==
  report.desired = Word(locked) /\ report.status = (IF locked THEN "applied" ELSE "disabled")

\* Only repairs of the same drift wait for the cooldown to end.
Queues(seen, locked, recent, report) ==
  /\ ~Matches(locked, report)
  /\ ~Active(seen[<<"lock", locked>>])
  /\ ~(report.status = "drifted" /\ report.desired = Word(locked) /\ recent)

\* Behind one that is wanted and active, nothing is looked at.
Superseded(seen, locked, report, behind) ==
  IF Matches(locked, report) THEN {c \in Locks : seen[c] = "queued"}
  ELSE IF behind /\ Active(seen[<<"lock", locked>>]) THEN {}
  ELSE {c \in Locks : seen[c] = "queued" /\ c[2] # locked}

\* A wish is carried once and for all.
Mut_ReconciledLock(seen, now, locked, recent, report, behind) ==
  [c \in Locks |->
     IF c \in Superseded(seen, locked, report, behind) THEN "none"
     ELSE IF c[2] = locked /\ Queues(seen, locked, recent, report) /\ report.status # "drifted" THEN "queued"
     ELSE now[c]]

\* reconcile_kiosk_lockdown, for the commands.
ReconciledLock(seen, now, locked, recent, report, behind) ==
  [c \in Locks |->
     IF c \in Superseded(seen, locked, report, behind) THEN "none"
     ELSE IF c[2] = locked /\ Queues(seen, locked, recent, report) THEN "queued"
     ELSE now[c]]

NowRecent(w, report) ==
  w.recent \/ (report.status \in {"applied", "disabled"} /\ w.status # report.status)

\* And for what the client row shows.
Noted(w, seen, locked, report) ==
  [w EXCEPT !.status = IF Queues(seen, locked, NowRecent(w, report), report) THEN "pending" ELSE report.status,
            !.recent = NowRecent(w, report)]

Applied(seen, now, locked, report) ==
  /\ \E behind \in BOOLEAN : cmds' = [c \in Commands |->
       IF c \in Configs THEN ReconciledConfig(seen, now, want.rev, report)[c]
       ELSE ReconciledLock(seen, now, locked, NowRecent(want, report), report, behind)[c]]
  /\ want' = Noted(want, seen, locked, report)

BridgeReports ==
  /\ bridge.at = "none"
  /\ agent.cmd \in Configs
  /\ bridge' = [bridge EXCEPT !.at = "sent", !.report = Report]
  /\ UNCHANGED <<want, cmds, shown, agent>> /\ UNCHANGED klvars

BridgeReads ==
  /\ bridge.at = "sent"
  /\ bridge' = [bridge EXCEPT !.at = "read", !.locked = want.locked, !.active = cmds]
  /\ UNCHANGED <<want, cmds, shown, agent>> /\ UNCHANGED klvars

\* It cancels what was queued when it looked, also what was claimed since.
BridgeCommits ==
  /\ bridge.at = "read"
  /\ Applied(bridge.active, cmds, bridge.locked, bridge.report)
  /\ bridge' = [at |-> "none", report |-> NoReport, locked |-> FALSE, active |-> [c \in Commands |-> "none"]]
  /\ UNCHANGED <<shown, agent>> /\ UNCHANGED klvars

-----------------------------------------------------------------------------
(***************************************************************************)
(* The agent, from the time it is installed and started.                   *)
(***************************************************************************)
AgentStarts ==
  /\ agent.at = "off"
  /\ agent' = [agent EXCEPT !.at = "idle"]
  /\ UNCHANGED <<want, cmds, shown, bridge>> /\ UNCHANGED klvars

AgentReports ==
  /\ agent.at = "idle"
  /\ bridge.at # "read"
  /\ Applied(cmds, cmds, want.locked, Report)
  /\ agent' = [agent EXCEPT !.at = "reported"]
  /\ UNCHANGED <<shown, bridge>> /\ UNCHANGED klvars

AgentClaims(c) ==
  /\ agent.at = "reported"
  /\ cmds[c] = "queued"
  /\ cmds' = [cmds EXCEPT ![c] = "claimed"]
  /\ agent' = [cmd |-> c, at |-> "claimed"]
  /\ UNCHANGED <<want, shown, bridge>> /\ UNCHANGED klvars

AgentFindsNothing ==
  /\ agent.at = "reported"
  /\ \A c \in Commands : cmds[c] # "queued"
  /\ agent' = [agent EXCEPT !.at = "idle"]
  /\ UNCHANGED <<want, cmds, shown, bridge>> /\ UNCHANGED klvars

\* apply_configuration refuses an older revision.
AgentConfigures ==
  /\ agent.at = "claimed" /\ agent.cmd \in Configs
  /\ IF agent.cmd[2] >= shown
     THEN shown' = agent.cmd[2] /\ agent' = [agent EXCEPT !.at = "done"]
     ELSE UNCHANGED shown /\ agent' = [agent EXCEPT !.at = "failed"]
  /\ UNCHANGED <<want, cmds, bridge>> /\ UNCHANGED klvars

AgentCalls ==
  /\ agent.at = "claimed" /\ agent.cmd \in Locks
  /\ Ask(agent.cmd[2])
  /\ agent' = [agent EXCEPT !.at = "calling"]
  /\ UNCHANGED <<want, cmds, shown, bridge>>

\* The broker has answered: there is nothing left to be served.
AgentIsAnswered ==
  /\ agent.at = "calling" /\ asked = <<>>
  /\ agent' = [agent EXCEPT !.at = IF op.at = "ok" THEN "done" ELSE "failed"]
  /\ op' = NoOp
  /\ UNCHANGED <<want, cmds, shown, bridge>>
  /\ UNCHANGED <<saved, force, icon, backup, asked, harm, klfaults>>

\* It waits for 90 seconds.
AgentGivesUp ==
  /\ agent.at = "calling" /\ asked # <<>>
  /\ FailsNow
  /\ agent' = [agent EXCEPT !.at = "failed"]
  /\ UNCHANGED <<want, cmds, shown, bridge, asked>> /\ DcRest

\* An answer is taken only for a command that is still claimed.
Holds == cmds[agent.cmd] = "claimed"
Closed == [cmds EXCEPT ![agent.cmd] = IF Holds THEN "none" ELSE @]

\* complete, with apply_display_command_completion.
AgentCompletes ==
  /\ agent.at = "done"
  /\ cmds' = Closed
  /\ want' = IF Holds /\ agent.cmd \in Locks
             THEN [want EXCEPT !.status = IF agent.cmd[2] THEN "applied" ELSE "disabled", !.recent = TRUE]
             ELSE want
  /\ agent' = [cmd |-> Nothing, at |-> "idle"]
  /\ UNCHANGED <<shown, bridge>> /\ UNCHANGED klvars

\* fail, with apply_display_command_failure; a broker's failure is tried again.
AgentFails ==
  /\ agent.at = "failed"
  /\ \/ cmds' = Closed
     \/ agent.cmd \in Locks /\ cmds' = [cmds EXCEPT ![agent.cmd] = IF Holds THEN "queued" ELSE @]
  /\ want' = IF Holds /\ agent.cmd \in Locks /\ ~Active(cmds'[agent.cmd])
             THEN [want EXCEPT !.status = "error"] ELSE want
  /\ agent' = [cmd |-> Nothing, at |-> "idle"]
  /\ UNCHANGED <<shown, bridge>> /\ UNCHANGED klvars

\* The lease of an agent that is gone runs out, with or without tries left.
LeaseRunsOut(c) ==
  /\ cmds[c] = "claimed"
  /\ agent.cmd # c
  /\ \E s \in {"queued", "none"} : cmds' = [cmds EXCEPT ![c] = s]
  /\ UNCHANGED <<want, shown, agent, bridge>> /\ UNCHANGED klvars

CommandExpires(c) ==
  /\ cmds[c] = "queued"
  /\ FailsNow
  /\ cmds' = [cmds EXCEPT ![c] = "none"]
  /\ UNCHANGED <<want, shown, agent, bridge, asked>> /\ DcRest

AgentGone == agent' = [cmd |-> Nothing, at |-> "idle"]

AgentDies ==
  /\ agent.at \notin {"off", "idle"}
  /\ FailsNow
  /\ AgentGone
  /\ UNCHANGED <<want, cmds, shown, bridge, asked>> /\ DcRest

PowerIsLost ==
  /\ agent.at # "off"
  /\ MachineBoots
  /\ AgentGone
  /\ UNCHANGED <<want, cmds, shown, bridge>>

-----------------------------------------------------------------------------
AgentNext ==
  \/ AgentReports \/ AgentFindsNothing \/ \E c \in Commands : AgentClaims(c)
  \/ AgentConfigures \/ AgentCalls \/ AgentIsAnswered \/ AgentCompletes \/ AgentFails

DcNext ==
  \/ SetConfiguration \/ SetLockdown \/ CooldownOver \/ AgentStarts
  \/ BridgeReports \/ BridgeReads \/ BridgeCommits
  \/ AgentNext \/ AgentGivesUp \/ AgentDies \/ PowerIsLost
  \/ \E c \in Commands : LeaseRunsOut(c) \/ CommandExpires(c)
  \/ (BrokerNext \/ BrokerFails) /\ UNCHANGED dcvars

\* The display by itself.
DcSpec == KlInit /\ DcInit /\ [][DcNext]_<<klvars, dcvars>>

\* Services that run go on, reports arrive and time passes.
DcFairness ==
  LET all == <<klvars, dcvars>> IN
  /\ WF_all(AgentNext) /\ WF_all(BrokerNext /\ UNCHANGED dcvars)
  /\ WF_all(BridgeReads \/ BridgeCommits)
  /\ WF_all(CooldownOver)
  /\ WF_all(\E c \in Commands : LeaseRunsOut(c))

-----------------------------------------------------------------------------
(***************************************************************************)
(* What is wanted is shown and in force in the end, and the client row     *)
(* says so: commands that are superseded while they are claimed, expire,   *)
(* fail or are lost are made good by later reports (the comment on         *)
(* reconcile_display_configuration).                                       *)
(***************************************************************************)
Converged ==
  /\ shown = want.rev
  /\ Verified(want.locked)
  /\ want.status = IF want.locked THEN "applied" ELSE "disabled"
DisplaySettles == <>[](agent.at = "off" \/ Converged)
=============================================================================
