------------------------------ MODULE Livestream ------------------------------
(***************************************************************************)
(* The livestream of one client: viewers and other activity, the           *)
(* generations and commands of the backend (livestream_v2.py,              *)
(* routers/livestream_v2.py, client_activity.py), the agent with its       *)
(* broker, and the producer and the uploader, which follow the desired     *)
(* state of the broker in their own time (livestream_agent.py,             *)
(* livestream_broker.py, livestream_producer.py, livestream_uploader.py).  *)
(*                                                                         *)
(* Viewers' heartbeats are kept in memory only; their rows say when they   *)
(* were opened and closed.  Times are ages, in units of the lease.         *)
(***************************************************************************)
EXTENDS Naturals, Sequences, FiniteSets, FiniteSetsExt

CONSTANTS
  LsLease,       \* VIEWER_LEASE_SECONDS
  LsGrace,       \* VIEWER_STOP_GRACE_SECONDS
  LsMaxAttempts, \* COMMAND_MAX_ATTEMPTS
  LsMaxResets,   \* resets in ten minutes before the stream is given up (3)
  LsMaxGens,     \* bound on generations
  LsMaxCmds,     \* bound on commands
  LsMaxFaults    \* bound on faults of any kind

ASSUME LsAssumption ==
  {LsLease, LsGrace, LsMaxAttempts, LsMaxResets, LsMaxGens, LsMaxCmds, LsMaxFaults} \subseteq Nat

VARIABLES
  lsWatching, \* whether a browser shows the stream
  lsTrue,     \* the age of its last heartbeat
  lsBeat,     \* the age of its entry in _VIEWERS
  lsRow,      \* its livestream_v2_viewer: [open, seen, ended], the last two ages
  lsActivity, \* whether _ACTIVE_PRESENCE has a Terminal or Remote Desktop session
  lsActEnded, \* the age of _LAST_ENDED
  lsLatch,    \* whether livestream_stop_reason is an explicit stop
  lsBlocked,  \* whether the client is shutting down, rebooting or updating
  lsGens,     \* the states of the generations, oldest first
  lsAge,      \* the age of the newest
  lsFresh,    \* whether media of it was uploaded within MEDIA_STALE_SECONDS
  lsResets,   \* resets so far
  lsCmds,     \* livestream_v2_command: [type, gen, state, attempts, later]
  lsAgent,    \* the agent: the command it works on and how far it is
  lsTx,       \* a "started" transaction between its read and its commit
  lsDesired,  \* desired.json of the broker
  lsProd,     \* the producer: its generation_id, and whether it captures
  lsPub,      \* the producer's published state
  lsUp,       \* the uploader's published state
  lsFaults

lsviewers == <<lsWatching, lsTrue, lsBeat, lsRow, lsActivity, lsActEnded>>
lsserver == <<lsLatch, lsBlocked, lsGens, lsAge, lsFresh, lsResets, lsCmds, lsTx>>
lsmachine == <<lsDesired, lsProd, lsPub, lsUp>>
lsvars == <<lsviewers, lsserver, lsmachine, lsAgent, lsFaults>>

LsGone == LsLease + 1
LsLong == LsLease + LsGrace
LsOlder(age, most) == IF age < most THEN age + 1 ELSE age
LsActive == {"starting", "running", "stopping"}
LsFinal == {"stopped", "failed", "superseded"}
LsStarts == {"start", "restart", "reset_generation"}
LsNoAgent == [cmd |-> 0, token |-> 0, step |-> "idle", gen |-> 0]

LsInit ==
  /\ lsWatching = FALSE /\ lsTrue = LsLong /\ lsBeat = LsGone
  /\ lsRow = [open |-> FALSE, seen |-> LsLong, ended |-> LsGrace]
  /\ lsActivity = FALSE /\ lsActEnded = LsGrace
  /\ lsLatch = FALSE /\ lsBlocked = FALSE
  /\ lsGens = <<>> /\ lsAge = LsGrace /\ lsFresh = TRUE /\ lsResets = 0
  /\ lsCmds = <<>> /\ lsAgent = LsNoAgent /\ lsTx = 0
  /\ lsDesired = [run |-> FALSE, gen |-> 0]
  /\ lsProd = [gen |-> 0, on |-> FALSE] /\ lsPub = [state |-> "stopped", gen |-> 0]
  /\ lsUp = [busy |-> FALSE, gen |-> 0]
  /\ lsFaults = 0

\* current_generation: the newest that is active.
LsCurrentOf(gens) == Max({0} \cup {g \in DOMAIN gens : gens[g] \in LsActive})
LsCurrent == LsCurrentOf(lsGens)

\* active_viewer_count, after _expire_stale_viewers.
LsViewed(row) == row.open \/ lsBeat <= LsLease
LsExpired(row) ==
  IF row.open /\ row.seen > LsLease /\ lsBeat > LsLease
    THEN [row EXCEPT !.open = FALSE, !.ended = row.seen - LsLease]
    ELSE row

-----------------------------------------------------------------------------
(***************************************************************************)
(* Intents: these operators give the next generations, commands and latch. *)
(***************************************************************************)
LsRoom == Len(lsGens) < LsMaxGens /\ Len(lsCmds) < LsMaxCmds
LsCommand(type, g) == [type |-> type, gen |-> g, state |-> "queued", attempts |-> 0, later |-> FALSE]

\* cancel_queued_generation_commands
LsCancelled(cmds) ==
  [c \in DOMAIN cmds |-> IF cmds[c].type \in LsStarts /\ cmds[c].state = "queued"
                         THEN [cmds[c] EXCEPT !.state = "over"] ELSE cmds[c]]

\* _new_generation
LsNewGeneration(gens, cmds, action) ==
  /\ ~lsBlocked /\ LsRoom
  /\ lsGens' = Append([g \in DOMAIN gens |-> IF g = LsCurrentOf(gens) THEN "superseded" ELSE gens[g]],
                      "starting")
  /\ lsCmds' = Append(LsCancelled(cmds), LsCommand(action, Len(gens) + 1))
  /\ lsLatch' = FALSE /\ lsAge' = 0 /\ lsFresh' = TRUE

\* The start that follows the end of a generation; within the bounds.
LsNextOf(gens, cmds, due) ==
  IF due /\ LsRoom
    THEN LsNewGeneration(gens, cmds, "start")
    ELSE lsGens' = gens /\ lsCmds' = cmds /\ UNCHANGED <<lsLatch, lsAge, lsFresh>>

LsKeeps == UNCHANGED <<lsGens, lsCmds, lsLatch, lsAge, lsFresh>>

\* request_stop
LsRequestStop(explicit) ==
  LET cur == LsCurrent
      stops == {c \in DOMAIN lsCmds : lsCmds[c].type = "stop" /\ lsCmds[c].state # "over"} IN
  /\ stops # {} \/ Len(lsCmds) < LsMaxCmds
  /\ lsGens' = IF cur = 0 THEN lsGens ELSE [lsGens EXCEPT ![cur] = "stopping"]
  /\ lsCmds' = IF stops # {} THEN LsCancelled(lsCmds)
               ELSE Append(LsCancelled(lsCmds), LsCommand("stop", cur))
  /\ lsLatch' = (lsLatch \/ explicit)
  /\ UNCHANGED <<lsAge, lsFresh>>

-----------------------------------------------------------------------------
(***************************************************************************)
(* Browsers, activity and the sweeper.                                     *)
(***************************************************************************)
LsBrowserUnchanged ==
  UNCHANGED <<lsBlocked, lsResets, lsTx, lsmachine, lsAgent, lsFaults>>

\* viewer_heartbeat: the row is renewed only when it is opened again.
LsHeartbeat ==
  /\ ~lsBlocked
  /\ lsWatching' = TRUE /\ lsTrue' = 0 /\ lsBeat' = 0
  /\ lsRow' = IF lsRow.open THEN lsRow ELSE [lsRow EXCEPT !.open = TRUE, !.seen = 0]
  /\ IF LsCurrent = 0 /\ ~lsLatch
       THEN LsNewGeneration(lsGens, lsCmds, "start")
       ELSE LsKeeps
  /\ UNCHANGED <<lsActivity, lsActEnded>>
  /\ LsBrowserUnchanged

\* viewer_leave; and a browser that is gone without a word.
LsLeave ==
  /\ lsWatching
  /\ lsWatching' = FALSE
  /\ \/ /\ lsTrue' = LsLease /\ lsBeat' = LsGone
        /\ lsRow' = IF lsRow.open THEN [lsRow EXCEPT !.open = FALSE, !.ended = 0] ELSE lsRow
     \/ UNCHANGED <<lsTrue, lsBeat, lsRow>>
  /\ UNCHANGED <<lsActivity, lsActEnded, lsLatch, lsGens, lsAge, lsFresh, lsCmds>>
  /\ LsBrowserUnchanged

\* maintain_activity_lease begins or ends.
LsActivityChanges ==
  /\ lsActivity' = ~lsActivity
  /\ lsActEnded' = IF lsActivity THEN 0 ELSE lsActEnded
  /\ UNCHANGED <<lsWatching, lsTrue, lsBeat, lsRow, lsLatch, lsGens, lsAge, lsFresh, lsCmds>>
  /\ LsBrowserUnchanged

\* browser_command
LsManualStart ==
  /\ LsCurrent = 0
  /\ LsNewGeneration(lsGens, lsCmds, "start")
  /\ UNCHANGED lsviewers /\ LsBrowserUnchanged

LsManualRestart ==
  /\ LsNewGeneration(lsGens, lsCmds, "restart")
  /\ UNCHANGED lsviewers /\ LsBrowserUnchanged

LsManualStop ==
  /\ LsRequestStop(TRUE)
  /\ UNCHANGED lsviewers /\ LsBrowserUnchanged

\* How long ago the last viewer or activity ended, or the stream was made.
LsAbsent(row) == Min({row.ended, lsActEnded, lsAge})

\* reconcile_all_viewer_lifecycles and reconcile_viewer_lifecycle.  A start
\* that is refused raises, and then nothing of the sweep is kept.
LsSweep ==
  LET row == LsExpired(lsRow) IN
  /\ \/ /\ LsViewed(row) \/ lsActivity
        /\ IF LsCurrent = 0 /\ ~lsLatch
             THEN LsNewGeneration(lsGens, lsCmds, "start")
             ELSE LsKeeps
     \/ /\ ~LsViewed(row) /\ ~lsActivity
        /\ IF LsCurrent # 0 /\ lsGens[LsCurrent] # "stopping" /\ LsAbsent(row) >= LsGrace
             THEN LsRequestStop(FALSE)
             ELSE LsKeeps
  /\ lsRow' = row
  /\ UNCHANGED <<lsWatching, lsTrue, lsBeat, lsActivity, lsActEnded>>
  /\ LsBrowserUnchanged

\* Time passes; a browser that watches sends its heartbeats within the lease.
LsTick ==
  /\ lsWatching /\ ~lsBlocked => lsTrue < LsLease
  /\ lsTrue' = LsOlder(lsTrue, LsLong) /\ lsBeat' = LsOlder(lsBeat, LsGone)
  /\ lsRow' = [lsRow EXCEPT !.seen = LsOlder(@, LsLong), !.ended = LsOlder(@, LsGrace)]
  /\ lsActEnded' = LsOlder(lsActEnded, LsGrace) /\ lsAge' = LsOlder(lsAge, LsGrace)
  /\ UNCHANGED <<lsWatching, lsActivity, lsLatch, lsGens, lsFresh, lsCmds>>
  /\ LsBrowserUnchanged

LsLifecycle ==
  /\ lsBlocked \/ lsFaults < LsMaxFaults
  /\ lsBlocked' = ~lsBlocked
  /\ lsFaults' = IF lsBlocked THEN lsFaults ELSE lsFaults + 1
  /\ UNCHANGED <<lsviewers, lsLatch, lsGens, lsAge, lsFresh, lsResets, lsCmds, lsTx, lsmachine, lsAgent>>

LsFault == lsFaults < LsMaxFaults /\ lsFaults' = lsFaults + 1

\* The memory of the backend is lost, and the transaction that was open.
LsBackendRestarts ==
  /\ LsFault
  /\ lsBeat' = LsGone /\ lsActivity' = FALSE /\ lsTx' = 0
  /\ UNCHANGED <<lsWatching, lsTrue, lsRow, lsActEnded, lsLatch, lsBlocked, lsGens, lsAge, lsFresh,
                 lsResets, lsCmds, lsmachine, lsAgent>>

-----------------------------------------------------------------------------
(***************************************************************************)
(* The agent and its commands.                                             *)
(***************************************************************************)
LsAgentUnchanged ==
  UNCHANGED <<lsviewers, lsBlocked, lsResets, lsProd, lsPub, lsUp>>
LsServerUnchanged == UNCHANGED <<lsLatch, lsGens, lsAge, lsFresh>>

\* claim_command, after _recover_expired_leases; the oldest that is available.
LsClaim ==
  \E expired \in SUBSET {c \in DOMAIN lsCmds : lsCmds[c].state = "leased"} :
    LET cmds == [c \in DOMAIN lsCmds |->
                   IF c \notin expired THEN lsCmds[c]
                   ELSE [lsCmds[c] EXCEPT !.state = IF lsCmds[c].attempts >= LsMaxAttempts
                                                    THEN "over" ELSE "queued"]]
        ready == {c \in DOMAIN cmds : cmds[c].state = "queued" /\ ~cmds[c].later}
        c == Min(ready) IN
    /\ lsAgent = LsNoAgent /\ ready # {}
    /\ lsCmds' = [cmds EXCEPT ![c].state = "leased", ![c].attempts = @ + 1]
    /\ lsAgent' = [cmd |-> c, token |-> cmds[c].attempts + 1, step |-> "ask", gen |-> cmds[c].gen]
    /\ UNCHANGED <<lsTx, lsDesired, lsFaults>>
    /\ LsServerUnchanged /\ LsAgentUnchanged

\* available_at of a command that is tried again.
LsBackoffOver(c) ==
  /\ lsCmds[c].later
  /\ lsCmds' = [lsCmds EXCEPT ![c].later = FALSE]
  /\ UNCHANGED <<lsTx, lsDesired, lsFaults, lsAgent>>
  /\ LsServerUnchanged /\ LsAgentUnchanged

LsType == lsCmds[lsAgent.cmd].type

\* The call to the broker; a stop is about whatever generation it has.
LsAsk ==
  /\ lsAgent.step = "ask"
  /\ lsDesired' = [run |-> LsType # "stop", gen |-> IF LsType = "stop" THEN lsDesired.gen ELSE lsAgent.gen]
  /\ lsAgent' = [lsAgent EXCEPT !.gen = IF LsType = "stop" THEN lsDesired.gen ELSE @,
                                !.step = IF LsType = "stop" /\ lsDesired.gen = 0 THEN "finish" ELSE "wait"]
  /\ UNCHANGED <<lsCmds, lsTx, lsFaults>>
  /\ LsServerUnchanged /\ LsAgentUnchanged

LsHasLease == lsCmds[lsAgent.cmd].state = "leased" /\ lsCmds[lsAgent.cmd].attempts = lsAgent.token

\* Bug: a stop that fails is not tried again.
Mut_LsFails ==
  LET c == lsAgent.cmd
      g == lsCmds[c].gen
      stale == g # 0 /\ \/ LsCurrent # g
                        \/ lsGens[g] = "stopping" /\ LsType # "stop"
      again == ~stale /\ LsType # "stop" /\ lsCmds[c].attempts < LsMaxAttempts IN
  /\ lsAgent' = LsNoAgent
  /\ IF LsHasLease
       THEN /\ lsCmds' = [lsCmds EXCEPT ![c].state = IF again THEN "queued" ELSE "over", ![c].later = again]
            /\ lsGens' = IF ~again /\ g # 0 /\ lsGens[g] \in {"starting", "running"}
                         THEN [lsGens EXCEPT ![g] = "failed"] ELSE lsGens
       ELSE UNCHANGED <<lsCmds, lsGens>>
  /\ UNCHANGED <<lsLatch, lsAge, lsFresh, lsTx, lsDesired>>
  /\ LsAgentUnchanged

\* fail_command, for an error that allows another attempt, as all of these do;
\* it refuses a command whose lease is gone.
LsFails ==
  LET c == lsAgent.cmd
      g == lsCmds[c].gen
      stale == g # 0 /\ \/ LsCurrent # g
                        \/ lsGens[g] = "stopping" /\ LsType # "stop"
      again == ~stale /\ lsCmds[c].attempts < LsMaxAttempts IN
  /\ lsAgent' = LsNoAgent
  /\ IF LsHasLease
       THEN /\ lsCmds' = [lsCmds EXCEPT ![c].state = IF again THEN "queued" ELSE "over", ![c].later = again]
            /\ lsGens' = IF ~again /\ g # 0 /\ lsGens[g] \in {"starting", "running"}
                         THEN [lsGens EXCEPT ![g] = "failed"] ELSE lsGens
       ELSE UNCHANGED <<lsCmds, lsGens>>
  /\ UNCHANGED <<lsLatch, lsAge, lsFresh, lsTx, lsDesired>>
  /\ LsAgentUnchanged

\* _wait_producer finds one of the states it wants.
LsProducerSeen ==
  LET ends == IF LsType = "stop" THEN {"stopped"} ELSE {"running", "failed"} IN
  /\ lsAgent.step = "wait"
  /\ lsPub.gen \in {0, lsAgent.gen} /\ lsPub.state \in ends
  /\ IF lsPub.state = "failed"
       THEN LsFails
       ELSE /\ lsAgent' = [lsAgent EXCEPT !.step = "report"]
            /\ UNCHANGED <<lsCmds, lsTx, lsDesired>>
            /\ LsServerUnchanged /\ LsAgentUnchanged
  /\ UNCHANGED lsFaults

\* A broker that does not answer, a producer that is not ready within 30
\* seconds, a request that is not answered.
LsCallFails ==
  /\ lsAgent.step \in {"ask", "wait", "report"}
  /\ LsFault
  /\ LsFails

\* generation_started, in a transaction that locks nothing: what it writes
\* depends on what it read.  A generation that is no longer active is refused.
LsStartedReads ==
  /\ lsAgent.step = "report" /\ LsType # "stop" /\ lsTx = 0
  /\ IF LsCurrent = lsAgent.gen /\ lsGens[lsAgent.gen] \in {"starting", "running"}
       THEN /\ lsTx' = lsAgent.gen
            /\ lsAgent' = [lsAgent EXCEPT !.step = "commit"]
            /\ UNCHANGED <<lsCmds, lsDesired>>
            /\ LsServerUnchanged /\ LsAgentUnchanged
       ELSE LsFails
  /\ UNCHANGED lsFaults

LsStartedCommits ==
  /\ lsTx # 0
  /\ lsTx' = 0
  /\ lsGens' = [lsGens EXCEPT ![lsTx] = "running"]
  /\ lsAgent' = IF lsAgent.step = "commit" THEN [lsAgent EXCEPT !.step = "finish"] ELSE lsAgent
  /\ UNCHANGED <<lsCmds, lsDesired, lsFaults, lsLatch, lsAge, lsFresh>>
  /\ LsAgentUnchanged

\* The transaction was lost with the backend.
LsCommitFails ==
  /\ lsAgent.step = "commit" /\ lsTx = 0
  /\ LsFails
  /\ UNCHANGED lsFaults

\* generation_stopped, whatever state the generation had, and the start for a
\* viewer who came back.  When that is refused, nothing is kept.
LsStoppedReported ==
  LET gens == [lsGens EXCEPT ![lsAgent.gen] = "stopped"]
      due == ~lsLatch /\ LsViewed(lsRow) /\ LsCurrentOf(gens) = 0 IN
  /\ lsAgent.step = "report" /\ LsType = "stop"
  /\ IF due /\ lsBlocked
       THEN LsFails
       ELSE /\ lsAgent' = [lsAgent EXCEPT !.step = "finish"]
            /\ LsNextOf(gens, lsCmds, due)
            /\ UNCHANGED <<lsTx, lsDesired>>
            /\ LsAgentUnchanged
  /\ UNCHANGED lsFaults

\* complete_command
LsFinishes ==
  /\ lsAgent.step = "finish"
  /\ lsAgent' = LsNoAgent
  /\ lsCmds' = IF LsHasLease THEN [lsCmds EXCEPT ![lsAgent.cmd].state = "over"] ELSE lsCmds
  /\ UNCHANGED <<lsTx, lsDesired, lsFaults>>
  /\ LsServerUnchanged /\ LsAgentUnchanged

\* The agent dies, or the result of a command never reaches the backend.
LsAgentDies ==
  /\ lsAgent # LsNoAgent
  /\ LsFault
  /\ lsAgent' = LsNoAgent
  /\ UNCHANGED <<lsCmds, lsTx, lsDesired>>
  /\ LsServerUnchanged /\ LsAgentUnchanged

\* What reconcile_stopping_generation_from_agent_status takes as proof.
LsQuiet(g) ==
  /\ lsPub.gen \in {0, g} /\ lsPub.state = "stopped"
  /\ ~lsUp.busy
  /\ lsUp.gen \notin {0, g} => lsGens[lsUp.gen] \in LsFinal
  /\ \A c \in DOMAIN lsCmds :
       ~(lsCmds[c].type = "stop" /\ lsCmds[c].state = "leased" /\ lsCmds[c].gen = g)

\* agent_status, with the states that the two have published.
LsReconcile ==
  LET g == LsCurrent
      gens == [lsGens EXCEPT ![g] = "stopped"]
      cmds == [c \in DOMAIN lsCmds |->
                 IF lsCmds[c].type = "stop" /\ lsCmds[c].state = "queued" /\ lsCmds[c].gen = g
                 THEN [lsCmds[c] EXCEPT !.state = "over"] ELSE lsCmds[c]] IN
  /\ lsAgent = LsNoAgent
  /\ g # 0 /\ lsGens[g] = "stopping" /\ LsQuiet(g)
  /\ LsNextOf(gens, cmds, ~lsLatch /\ (LsViewed(lsRow) \/ lsActivity) /\ LsCurrentOf(gens) = 0)
  /\ UNCHANGED <<lsTx, lsDesired, lsFaults, lsAgent>>
  /\ LsAgentUnchanged

\* maybe_recover_stale_media, in the same request.
LsRecover ==
  LET g == LsCurrent IN
  /\ lsAgent = LsNoAgent
  /\ LsViewed(lsRow) \/ lsActivity
  /\ g # 0 /\ lsGens[g] \in {"starting", "running"} /\ ~lsFresh
  /\ \A c \in DOMAIN lsCmds : lsCmds[c].type \in LsStarts => lsCmds[c].state = "over"
  /\ IF lsResets < LsMaxResets
       THEN /\ LsNewGeneration(lsGens, lsCmds, "reset_generation")
            /\ lsResets' = lsResets + 1
       ELSE /\ Len(lsCmds) < LsMaxCmds
            /\ lsGens' = [lsGens EXCEPT ![g] = "failed"]
            /\ lsCmds' = Append(lsCmds, LsCommand("stop", 0))
            /\ UNCHANGED <<lsLatch, lsAge, lsFresh, lsResets>>
  /\ UNCHANGED <<lsTx, lsDesired, lsFaults, lsAgent, lsviewers, lsBlocked, lsProd, lsPub, lsUp>>

-----------------------------------------------------------------------------
(***************************************************************************)
(* The producer and the uploader.                                          *)
(***************************************************************************)
LsMachineUnchanged == UNCHANGED <<lsviewers, lsLatch, lsBlocked, lsGens, lsAge, lsResets, lsCmds,
                                  lsTx, lsAgent, lsDesired>>

\* _stop: what the desired state does not want, or before another attempt.
LsProducerStops ==
  /\ lsProd.gen # 0
  /\ lsDesired.run => lsProd.gen # lsDesired.gen \/ ~lsProd.on
  /\ lsProd' = [gen |-> 0, on |-> FALSE]
  /\ lsPub' = [state |-> "stopped", gen |-> lsProd.gen]
  /\ UNCHANGED <<lsUp, lsFaults, lsFresh>>
  /\ LsMachineUnchanged

LsProducerStarts ==
  /\ lsDesired.run /\ lsDesired.gen # 0 /\ lsProd.gen = 0
  /\ lsProd' = [gen |-> lsDesired.gen, on |-> TRUE]
  /\ lsPub' = [state |-> "starting", gen |-> lsDesired.gen]
  /\ UNCHANGED <<lsUp, lsFaults, lsFresh>>
  /\ LsMachineUnchanged

\* _wait_ready sees a playlist and a segment.
LsProducerReady ==
  /\ lsPub.state = "starting" /\ lsProd.on
  /\ lsPub' = [lsPub EXCEPT !.state = "running"]
  /\ UNCHANGED <<lsProd, lsUp, lsFaults, lsFresh>>
  /\ LsMachineUnchanged

LsGivesUp ==
  /\ LsFault
  /\ lsProd' = [lsProd EXCEPT !.on = FALSE]
  /\ lsPub' = [state |-> "failed", gen |-> lsProd.gen]
  /\ UNCHANGED <<lsUp, lsFresh>>
  /\ LsMachineUnchanged

\* No graphical session of the user, or no playlist within 25 seconds.
LsProducerFails == lsProd.on /\ lsPub.state = "starting" /\ LsGivesUp

\* The capture helper ends: the screen cast is closed or its pipeline fails.
LsCaptureEnds == lsProd.on /\ lsPub.state = "running" /\ LsGivesUp

\* write_hls_file takes media of the current generation only; any other is
\* refused with a 409.
LsTaken(g) == g # 0 /\ g = LsCurrent /\ lsGens[g] \in {"starting", "running"}

\* A turn of the uploader.
LsUploaderTurn ==
  LET busy == lsDesired.run /\ lsDesired.gen # 0 IN
  /\ lsUp' = [busy |-> busy, gen |-> lsDesired.gen]
  /\ lsFresh' = (lsFresh \/ (busy /\ lsPub = [state |-> "running", gen |-> lsDesired.gen]
                                  /\ LsTaken(lsDesired.gen)))
  /\ UNCHANGED <<lsProd, lsPub, lsFaults>>
  /\ LsMachineUnchanged

LsCaptured == lsPub.state = "running" /\ lsDesired.run /\ lsDesired.gen = lsPub.gen /\ LsTaken(lsPub.gen)

\* MEDIA_STALE_SECONDS without an upload.
LsStale ==
  /\ lsFresh /\ ~LsCaptured
  /\ LsCurrent # 0
  /\ lsFresh' = FALSE
  /\ UNCHANGED <<lsProd, lsPub, lsUp, lsFaults>>
  /\ LsMachineUnchanged

-----------------------------------------------------------------------------
LsManual == LsManualStart \/ LsManualRestart \/ LsManualStop
LsPresence == LsHeartbeat \/ LsLeave \/ LsActivityChanges
LsCommandDone == \/ LsClaim \/ LsAsk \/ LsProducerSeen \/ LsStartedReads \/ LsStartedCommits
                 \/ LsCommitFails \/ LsStoppedReported \/ LsFinishes
LsStatus == LsReconcile \/ LsRecover
LsProducerTurn == LsProducerStops \/ LsProducerStarts \/ LsProducerReady
LsMishap == LsLifecycle \/ LsBackendRestarts \/ LsCallFails \/ LsAgentDies
            \/ LsProducerFails \/ LsCaptureEnds

LsFollows ==
  \/ LsCommandDone \/ LsStatus \/ LsProducerTurn \/ LsUploaderTurn \/ LsStale
  \/ LsSweep \/ LsTick
  \/ \E c \in DOMAIN lsCmds : LsBackoffOver(c)

\* The agent works through its commands and reports its status at least once a
\* minute; the producer and the uploader follow; time passes.
LsFairness ==
  /\ WF_lsvars(LsCommandDone) /\ WF_lsvars(LsReconcile) /\ WF_lsvars(LsRecover)
  /\ WF_lsvars(LsProducerTurn) /\ WF_lsvars(LsUploaderTurn) /\ WF_lsvars(LsStale)
  /\ WF_lsvars(\E c \in DOMAIN lsCmds : LsBackoffOver(c))
  /\ WF_lsvars(LsSweep) /\ WF_lsvars(LsTick) /\ WF_lsvars(lsBlocked /\ LsLifecycle)

-----------------------------------------------------------------------------
(***************************************************************************)
(* Properties.                                                             *)
(***************************************************************************)

\* The types; a producer captures only for a generation, and the broker never
\* wants a stream of no generation.
LsTypeOK ==
  /\ {lsWatching, lsActivity, lsLatch, lsBlocked, lsFresh} \subseteq BOOLEAN
  /\ lsTrue \in 0..LsLong /\ lsBeat \in 0..LsGone
  /\ lsRow \in [open : BOOLEAN, seen : 0..LsLong, ended : 0..LsGrace]
  /\ lsActEnded \in 0..LsGrace /\ lsAge \in 0..LsGrace
  /\ lsGens \in Seq(LsActive \cup LsFinal) /\ Len(lsGens) <= LsMaxGens
  /\ lsResets \in 0..LsMaxResets /\ lsFaults \in 0..LsMaxFaults
  /\ \A c \in DOMAIN lsCmds :
       lsCmds[c] \in [type : LsStarts \cup {"stop"}, gen : 0..Len(lsGens),
                      state : {"queued", "leased", "over"}, attempts : 0..LsMaxAttempts, later : BOOLEAN]
  /\ lsAgent.cmd \in 0..Len(lsCmds) /\ lsAgent.gen \in 0..Len(lsGens) /\ lsTx \in 0..Len(lsGens)
  /\ lsAgent.step \in {"idle", "ask", "wait", "report", "commit", "finish"}
  /\ lsDesired.run => lsDesired.gen # 0
  /\ lsProd.on => lsProd.gen # 0
  /\ {lsDesired.gen, lsProd.gen, lsPub.gen, lsUp.gen} \subseteq 0..Len(lsGens)

\* What reconcile_stopping_generation_from_agent_status is for: a generation
\* that is to end does end, so that viewers and starts are not kept out.  The
\* case "a queued start was cancelled before claim and a later stop completed"
\* is named there; the producer, too, still names the last generation it had.
StoppingEnds ==
  LET stopping == LsCurrent # 0 /\ lsGens[LsCurrent] = "stopping" IN stopping ~> ~stopping

\* A stop is carried out: when the producer has the generation that is to end,
\* a stop is in the queue and no start is left there to come after it, the
\* generation ends, in the backend too, as long as fewer calls fail than the
\* stop has attempts.  A stop that fails or whose agent dies is tried again, and
\* what the agent publishes later makes up for a report that was lost.
StopIsCarriedOut ==
  LET stopping == LsCurrent # 0 /\ lsGens[LsCurrent] = "stopping"
      Left(types) == \E c \in DOMAIN lsCmds : lsCmds[c].type \in types /\ lsCmds[c].state # "over"
  IN  stopping /\ lsProd.gen = LsCurrent /\ Left({"stop"}) /\ ~Left(LsStarts) ~> ~stopping
=============================================================================
