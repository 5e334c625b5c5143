---------------------------- MODULE SystemBroker ----------------------------
(***************************************************************************)
(* The root-owned System broker of one host: the single-threaded server    *)
(* loop (server.py), the durable command journal with its flock and the    *)
(* fixed privileged operations (system_broker.py), and the host that may   *)
(* kill the broker or reboot between any two of its steps.                 *)
(*                                                                         *)
(* A call is one connection that carries one command; the agent may        *)
(* deliver the same command again in a later call.                         *)
(***************************************************************************)
EXTENDS Naturals

CONSTANTS
  Commands,   \* command ids
  KindOf,     \* the action of each command: update, power or local
  MaxCalls,   \* bound on the calls per command
  MaxBoot,    \* bound on the boots of the host
  DiskFaults  \* whether writes of the journal and of the intent may fail

Kinds == {"update", "power", "local"}

ASSUME BrokerAssumption ==
  /\ KindOf \in [Commands -> Kinds]
  /\ MaxCalls \in Nat
  /\ MaxBoot \in Nat \ {0}
  /\ DiskFaults \in BOOLEAN

VARIABLES
  boot,         \* the kernel boot id
  inbox,        \* connections waiting in the backlog of the socket
  answer,       \* what each call was answered
  pc, cur,      \* the step of the broker and the call it serves
  lock,         \* the flock on the journal
  journal,      \* command-journal.json
  effects,      \* history: how often a command's operation took effect
  effectBoot,   \* history: the boot in which it did
  needsReboot,  \* history: the updates whose helper asked for a reboot
  requested     \* history: the boot in which an update's reboot was accepted

vars == <<boot, inbox, answer, pc, cur, lock, journal,
          effects, effectBoot, needsReboot, requested>>
history == <<effects, effectBoot, needsReboot, requested>>

Calls == Commands \X (1..MaxCalls)
NoCall == <<"none", 0>>
NoBoot == 0

JournalStates == {"absent", "started", "reboot_requested", "completed", "in_doubt"}
Entry == [state : JournalStates, boot : 0..MaxBoot]
Answers == {"none", "ok", "in_doubt", "error", "closed"}
Steps == {"accept", "prepare", "begin", "intent", "run", "mark", "announce", "cross",
          "crossing", "finish_ok", "finish_error"}

cmd == cur[1]  \* the command of the call being served

Init ==
  /\ boot = 1
  /\ inbox = {}
  /\ answer = [call \in Calls |-> "none"]
  /\ pc = "accept"
  /\ cur = NoCall
  /\ lock = "free"
  /\ journal = [d \in Commands |-> [state |-> "absent", boot |-> NoBoot]]
  /\ effects = [d \in Commands |-> 0]
  /\ effectBoot = [d \in Commands |-> NoBoot]
  /\ needsReboot = {}
  /\ requested = [d \in Commands |-> NoBoot]

-----------------------------------------------------------------------------
(* Answers and journal writes *)

Answer(what) ==
  /\ answer' = [answer EXCEPT ![cur] = what]
  /\ pc' = "accept"
  /\ cur' = NoCall

\* atomic_write_json: a fault may strike before or after the rename.
Written(entry) == journal' = [journal EXCEPT ![cmd] = entry]

WriteFails(entry) == DiskFaults /\ (Written(entry) \/ UNCHANGED journal)

-----------------------------------------------------------------------------
(* serve_forever and handle, up to the journal *)

\* The agent connects and sends its request; it may hang up afterwards.
Submit(call) ==
  /\ call \notin inbox
  /\ cur # call
  /\ answer[call] = "none"
  /\ inbox' = inbox \cup {call}
  /\ UNCHANGED <<boot, answer, pc, cur, lock, journal, history>>

Accept(call) ==
  /\ pc = "accept"
  /\ call \in inbox
  /\ inbox' = inbox \ {call}
  /\ cur' = call
  /\ pc' = "prepare"
  /\ UNCHANGED <<boot, answer, lock, journal, history>>

Prepare ==
  /\ pc = "prepare"
  /\ pc' = "begin"
  /\ UNCHANGED <<boot, inbox, answer, cur, lock, journal, history>>

\* _prepare refuses: a missing binary or helper, an invalid payload.
PrepareFails ==
  /\ pc = "prepare"
  /\ Answer("error")
  /\ UNCHANGED <<boot, inbox, lock, journal, history>>

-----------------------------------------------------------------------------
(* _journal_begin, once the flock is obtained *)

Locked == pc = "begin" /\ lock = "free"

\* A command that ended in doubt started once more.
Mut_Fresh == journal[cmd].state \in {"absent", "in_doubt"}

Fresh == journal[cmd].state = "absent"

\* The boot comparison dropped.
Mut_BoundaryCrossedSameBoot ==
  /\ journal[cmd].boot # NoBoot
  /\ \/ journal[cmd].state = "reboot_requested" /\ KindOf[cmd] = "update"
     \/ journal[cmd].state = "started" /\ KindOf[cmd] = "power"

\* Any started command taken for a power command.
Mut_BoundaryCrossedAnyAction ==
  /\ journal[cmd].boot # boot
  /\ journal[cmd].state \in {"reboot_requested", "started"}

\* A doubtful update recovered like one that waits for its reboot.
Mut_BoundaryCrossedInDoubt ==
  /\ journal[cmd].boot # NoBoot
  /\ journal[cmd].boot # boot
  /\ journal[cmd].state \in {"reboot_requested", "in_doubt"}

\* The journal proves that a disruptive command crossed its boot boundary.
BoundaryCrossed ==
  /\ journal[cmd].boot # NoBoot
  /\ journal[cmd].boot # boot
  /\ \/ journal[cmd].state = "reboot_requested" /\ KindOf[cmd] = "update"
     \/ journal[cmd].state = "started" /\ KindOf[cmd] = "power"

Replay ==
  /\ Locked
  /\ journal[cmd].state = "completed"
  /\ Answer("ok")
  /\ UNCHANGED <<boot, inbox, lock, journal, history>>

Recover ==
  /\ Locked
  /\ BoundaryCrossed
  /\ LET entry == [journal[cmd] EXCEPT !.state = "completed"] IN
       \/ Written(entry) /\ Answer("ok")
       \/ WriteFails(entry) /\ Answer("error")
  /\ UNCHANGED <<boot, inbox, lock, history>>

RefuseInDoubt ==
  /\ Locked
  /\ journal[cmd].state \notin {"absent", "completed"}
  /\ ~BoundaryCrossed
  /\ Answer("in_doubt")
  /\ UNCHANGED <<boot, inbox, lock, journal, history>>

Start ==
  /\ Locked
  /\ Fresh
  /\ LET entry == [state |-> "started",
                   boot |-> IF KindOf[cmd] = "power" THEN boot ELSE NoBoot] IN
       \/ /\ Written(entry)
          /\ lock' = "held"
          /\ pc' = IF KindOf[cmd] = "power" THEN "intent" ELSE "run"
          /\ UNCHANGED <<cur, answer>>
       \/ /\ WriteFails(entry)
          /\ Answer("error")
          /\ UNCHANGED lock
  /\ UNCHANGED <<boot, inbox, history>>

-----------------------------------------------------------------------------
(* The rest of handle *)

\* record_system_intent runs before the try: a fault keeps the flock.
RecordIntent ==
  /\ pc = "intent"
  /\ \/ pc' = "run" /\ UNCHANGED <<cur, answer, lock>>
     \/ DiskFaults /\ Answer("error") /\ lock' = "leaked"
  /\ UNCHANGED <<boot, inbox, journal, history>>

TakesEffect ==
  /\ effects' = [effects EXCEPT ![cmd] = @ + 1]
  /\ effectBoot' = [effectBoot EXCEPT ![cmd] = boot]

\* _execute returns; a power command has been enqueued, an update may ask
\* for a reboot.
Run ==
  /\ pc = "run"
  /\ TakesEffect
  /\ \/ /\ KindOf[cmd] = "update"
        /\ needsReboot' = needsReboot \cup {cmd}
        /\ pc' = "mark"
     \/ /\ pc' = "finish_ok"
        /\ UNCHANGED needsReboot
  /\ UNCHANGED <<boot, inbox, answer, cur, lock, journal, requested>>

\* _execute raises: an exit code, a timeout; the operation may have happened.
RunFails ==
  /\ pc = "run"
  /\ TakesEffect \/ UNCHANGED <<effects, effectBoot>>
  /\ pc' = "finish_error"
  /\ UNCHANGED <<boot, inbox, answer, cur, lock, journal, needsReboot, requested>>

\* _journal_mark_reboot_requested.
MarkRebootRequested ==
  /\ pc = "mark"
  /\ LET entry == [state |-> "reboot_requested", boot |-> boot] IN
       \/ Written(entry) /\ pc' = "announce"
       \/ WriteFails(entry) /\ pc' = "finish_error"
  /\ UNCHANGED <<boot, inbox, answer, cur, lock, history>>

\* record_system_intent for the reboot of an update, inside the try.
AnnounceReboot ==
  /\ pc = "announce"
  /\ \/ pc' = "cross"
     \/ DiskFaults /\ pc' = "finish_error"
  /\ UNCHANGED <<boot, inbox, answer, cur, lock, journal, history>>

\* _cross_update_reboot_boundary: systemctl reboot is refused or accepted.
CrossRefused ==
  /\ pc = "cross"
  /\ pc' = "finish_error"
  /\ UNCHANGED <<boot, inbox, answer, cur, lock, journal, history>>

CrossAccepted ==
  /\ pc = "cross"
  /\ pc' = "crossing"
  /\ requested' = [requested EXCEPT ![cmd] = boot]
  /\ UNCHANGED <<boot, inbox, answer, cur, lock, journal, effects, effectBoot, needsReboot>>

\* systemctl returns while this process is still alive.
CrossReturns ==
  /\ pc = "crossing"
  /\ pc' = "finish_error"
  /\ UNCHANGED <<boot, inbox, answer, cur, lock, journal, history>>

-----------------------------------------------------------------------------
(* _journal_finish *)

Mut_FinishOk ==  \* the flock not released
  /\ pc = "finish_ok"
  /\ Written([journal[cmd] EXCEPT !.state = "completed"])
  /\ Answer("ok")
  /\ UNCHANGED <<boot, inbox, lock, history>>

FinishOk ==
  /\ pc = "finish_ok"
  /\ LET entry == [journal[cmd] EXCEPT !.state = "completed"] IN
       \/ Written(entry) /\ Answer("ok")
       \/ WriteFails(entry) /\ Answer("error")
  /\ lock' = "free"
  /\ UNCHANGED <<boot, inbox, history>>

FinishError ==
  /\ pc = "finish_error"
  /\ LET entry == [journal[cmd] EXCEPT !.state = "in_doubt"] IN
       \/ Written(entry) /\ Answer("in_doubt")
       \/ WriteFails(entry) /\ Answer("error")
  /\ lock' = "free"
  /\ UNCHANGED <<boot, inbox, history>>

\* clear_system_intent raises inside the handler: the flock is kept.
ClearIntentFails ==
  /\ pc = "finish_error"
  /\ DiskFaults
  /\ KindOf[cmd] \in {"power", "update"}
  /\ Answer("error")
  /\ lock' = "leaked"
  /\ UNCHANGED <<boot, inbox, journal, history>>

-----------------------------------------------------------------------------
(* The host *)

Closed(calls) ==
  answer' = [call \in Calls |->
    IF call \in calls /\ answer[call] = "none" THEN "closed" ELSE answer[call]]

\* The broker dies; systemd keeps the socket and its backlog.
Crash ==
  /\ pc # "accept" \/ lock = "leaked"
  /\ Closed({cur})
  /\ pc' = "accept"
  /\ cur' = NoCall
  /\ lock' = "free"
  /\ UNCHANGED <<boot, inbox, journal, history>>

\* The host goes down and comes up again, as asked for or by itself.
HostReboot ==
  /\ boot < MaxBoot
  /\ boot' = boot + 1
  /\ Closed(inbox \cup {cur})
  /\ inbox' = {}
  /\ pc' = "accept"
  /\ cur' = NoCall
  /\ lock' = "free"
  /\ UNCHANGED <<journal, history>>

-----------------------------------------------------------------------------

Serve ==
  \/ \E call \in Calls : Accept(call)
  \/ Prepare \/ PrepareFails
  \/ Replay \/ Recover \/ RefuseInDoubt \/ Start
  \/ RecordIntent
  \/ Run \/ RunFails
  \/ MarkRebootRequested \/ AnnounceReboot
  \/ CrossRefused \/ CrossAccepted \/ CrossReturns
  \/ FinishOk \/ FinishError \/ ClearIntentFails

Next ==
  \/ \E call \in Calls : Submit(call)
  \/ Serve
  \/ Crash
  \/ HostReboot

Spec == Init /\ [][Next]_vars

\* The broker process is scheduled, and a backlog is served to the last call.
FairSpec == Spec /\ WF_vars(Serve)

-----------------------------------------------------------------------------

\* Every variable has its type, and a call is current exactly while it is served.
TypeOK ==
  /\ boot \in 1..MaxBoot
  /\ inbox \in SUBSET Calls
  /\ answer \in [Calls -> Answers]
  /\ pc \in Steps
  /\ cur \in Calls \cup {NoCall}
  /\ cur = NoCall <=> pc = "accept"
  /\ lock \in {"free", "held", "leaked"}
  /\ journal \in [Commands -> Entry]
  /\ effects \in [Commands -> Nat]
  /\ effectBoot \in [Commands -> 0..MaxBoot]
  /\ needsReboot \in SUBSET Commands
  /\ requested \in [Commands -> 0..MaxBoot]

(***************************************************************************)
(* However often a command is delivered, and wherever the broker or the    *)
(* host dies, its privileged operation takes effect at most once.          *)
(***************************************************************************)
AtMostOnce == \A d \in Commands : effects[d] <= 1

(***************************************************************************)
(* A call is answered with success only if the operation took effect, or   *)
(* it was a reboot or poweroff and the host has gone through a later boot. *)
(***************************************************************************)
SuccessIsEarned ==
  \A call \in Calls :
    answer[call] = "ok" =>
      \/ effects[call[1]] = 1
      \/ /\ KindOf[call[1]] = "power"
         /\ journal[call[1]].boot < boot

(***************************************************************************)
(* An update that asked for a reboot is never reported as a success before *)
(* the host has left the boot in which the packages were installed.        *)
(***************************************************************************)
NoPreBootSuccess ==
  \A call \in Calls :
    answer[call] = "ok" /\ call[1] \in needsReboot => effectBoot[call[1]] < boot

(***************************************************************************)
(* The inductive invariant behind these three.  EntryHolds says what each  *)
(* state of a journal entry proves about its command, in every boot;       *)
(* StepHolds what the broker knows while it works on one.                  *)
(***************************************************************************)
EntryHolds(d) ==
  /\ journal[d].boot <= boot
  /\ effects[d] <= 1
  /\ journal[d].state = "absent" => effects[d] = 0
  /\ effects[d] = 0 => d \notin needsReboot
  /\ d \in needsReboot => KindOf[d] = "update"
  /\ journal[d].state = "reboot_requested" =>
       effects[d] = 1 /\ effectBoot[d] <= journal[d].boot
  /\ journal[d].state = "completed" =>
       /\ effects[d] = 1 \/ (KindOf[d] = "power" /\ journal[d].boot < boot)
       /\ d \in needsReboot => effectBoot[d] < boot

StepHolds ==
  /\ pc \notin {"accept", "prepare", "begin"} =>
       journal[cmd].state \in {"started", "reboot_requested"}
  /\ pc \in {"intent", "run", "mark", "finish_ok"} => journal[cmd].state = "started"
  /\ pc \in {"intent", "run"} => effects[cmd] = 0
  /\ pc \in {"mark", "finish_ok"} => effects[cmd] = 1
  /\ pc = "mark" => effectBoot[cmd] = boot
  /\ pc = "finish_ok" => cmd \notin needsReboot

AnswersHold ==
  \A call \in Calls : answer[call] = "ok" => journal[call[1]].state = "completed"

Safe ==
  /\ \A d \in Commands : EntryHolds(d)
  /\ StepHolds
  /\ AnswersHold

(***************************************************************************)
(* What the journal has settled stays settled: no later delivery, fault or *)
(* boot turns a completed command into a doubtful one or back, and an      *)
(* entry never disappears.                                                 *)
(***************************************************************************)
Settles(d) ==
  /\ journal[d].state \in {"completed", "in_doubt"} => journal'[d] = journal[d]
  /\ journal'[d].state = "absent" => journal[d].state = "absent"

JournalSettles == [][\A d \in Commands : Settles(d)]_vars

(***************************************************************************)
(* An update whose reboot was accepted and that has been through the       *)
(* reboot can still be completed from the journal.  systemctl returns      *)
(* before the broker is killed and the handler overwrites the entry, so    *)
(* the code does not keep it.                                              *)
(***************************************************************************)
RebootedUpdateResumes ==
  \A d \in Commands :
    requested[d] # NoBoot /\ requested[d] < boot
      => journal[d].state \in {"reboot_requested", "completed"}

(***************************************************************************)
(* Every call that reaches the server is answered, unless a fault has left *)
(* the flock with nobody to release it, on which every later call waits.   *)
(***************************************************************************)
EveryCallAnswered ==
  \A call \in Calls : call \in inbox ~> (answer[call] # "none" \/ lock = "leaked")
=============================================================================
