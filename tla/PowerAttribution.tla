-------------------------- MODULE PowerAttribution --------------------------
(***************************************************************************)
(* Who rebooted the host?  A canonical System command announces its reboot *)
(* or shutdown in an intent file; the reporter units of systemd consume    *)
(* the intent on the way down, or else leave a marker of a local           *)
(* transition; the Status agent reports the marker after a later boot, and *)
(* the backend merges it with the latest power command                     *)
(* (power_lifecycle.py, system_broker.py, status_agent.py,                 *)
(* system_control.py, routers/clients.py).                                 *)
(*                                                                         *)
(* SystemBroker has the journal and CommandQueue the row of the command;   *)
(* here both are reduced to what the attribution reads of them.            *)
(***************************************************************************)
EXTENDS Naturals, FiniteSets

CONSTANTS
  MaxBoot,  \* bound on the boots of the host
  MaxSent   \* bound on the Status reports under way

ASSUME AttributionAssumption ==
  /\ MaxBoot \in Nat \ {0}
  /\ MaxSent \in Nat \ {0}

VARIABLES
  boot,       \* the kernel boot id
  target,     \* the transition systemd has started, if any
  intent,     \* system-command-intent.json; history: whether its broker died
  marker,     \* local-transition.json
  broker,     \* what the System broker is doing
  sent,       \* Status reports the backend has not handled yet
  lastBoot,   \* Client.last_boot_id
  event,      \* Client.last_power_event and its evidence, when it is local
  localLater, \* last_power_event_at is later than the times of the command
  command,    \* the latest power command of the client
  endedBy     \* history: what ended each boot

hostVars == <<boot, target, intent, marker, broker, endedBy>>
backendVars == <<lastBoot, event, localLater, command>>
vars == <<hostVars, sent, backendVars>>

Actions == {"reboot", "shutdown"}
Boots == 1..MaxBoot
NoBoot == 0
None == "none"

Canonical == {"power", "update"}
Up == [by |-> None, action |-> None, reported |-> FALSE]
NoIntent == [action |-> None, boot |-> NoBoot, fresh |-> FALSE, orphan |-> FALSE]
NoMarker == [action |-> None, boot |-> NoBoot]
NoEvent == [action |-> None, boot |-> NoBoot, observed |-> NoBoot]
Idle == [step |-> "idle", kind |-> None, action |-> None]
NoCommand == [status |-> None, action |-> None, requested |-> NoBoot,
              journal |-> "absent", started |-> NoBoot]

Init ==
  /\ boot = 1
  /\ target = Up
  /\ intent = NoIntent
  /\ marker = NoMarker
  /\ broker = Idle
  /\ sent = {}
  /\ lastBoot = NoBoot
  /\ event = NoEvent
  /\ localLater = FALSE
  /\ command = NoCommand
  /\ endedBy = [b \in Boots |-> Up]

-----------------------------------------------------------------------------
(* The System broker and the intent *)

\* The intent bound to the boot the backend asked for.
Mut_Announce(kind, action) ==
  /\ broker = Idle
  /\ target = Up
  /\ intent' = [action |-> action, boot |-> command.requested, fresh |-> TRUE,
                orphan |-> FALSE]
  /\ broker' = [step |-> "announced", kind |-> kind, action |-> action]
  /\ UNCHANGED <<boot, target, marker, endedBy, sent, lastBoot, event, localLater>>

\* record_system_intent, before the display transition and systemctl.
Announce(kind, action) ==
  /\ broker = Idle
  /\ target = Up
  /\ intent' = [action |-> action, boot |-> boot, fresh |-> TRUE, orphan |-> FALSE]
  /\ broker' = [step |-> "announced", kind |-> kind, action |-> action]
  /\ UNCHANGED <<boot, target, marker, endedBy, sent, lastBoot, event, localLater>>

AnnouncePower ==
  /\ command.status = "claimed"
  /\ command.journal = "absent"
  /\ Announce("power", command.action)
  /\ command' = [command EXCEPT !.journal = "started", !.started = boot]

AnnounceUpdate ==
  /\ Announce("update", "reboot")
  /\ UNCHANGED command

\* systemctl accepts.  A power command was enqueued with --no-block and is
\* done with; an update waits to be killed.
SystemctlAccepts ==
  /\ broker.step = "announced"
  /\ target = Up
  /\ target' = [by |-> broker.kind, action |-> broker.action, reported |-> FALSE]
  /\ broker' = IF broker.kind = "power" THEN Idle ELSE [broker EXCEPT !.step = "crossing"]
  /\ UNCHANGED <<boot, intent, marker, endedBy, sent, backendVars>>

\* systemctl refuses, or returns to an update that should have been killed:
\* the handler clears the intent.
BrokerFails ==
  /\ broker # Idle
  /\ broker' = Idle
  /\ intent' = NoIntent
  /\ command' = IF broker.kind = "power" THEN [command EXCEPT !.journal = "in_doubt"]
                ELSE command
  /\ UNCHANGED <<boot, target, marker, endedBy, sent, lastBoot, event, localLater>>

BrokerDies ==
  /\ broker # Idle
  /\ broker' = Idle
  /\ intent' = [intent EXCEPT !.orphan = intent # NoIntent]
  /\ UNCHANGED <<boot, target, marker, endedBy, sent, backendVars>>

\* SYSTEM_INTENT_MAX_AGE_SECONDS pass; a transition of the broker's own is
\* over sooner.
IntentAges ==
  /\ intent.fresh
  /\ broker = Idle
  /\ target.by \notin Canonical
  /\ intent' = [intent EXCEPT !.fresh = FALSE]
  /\ UNCHANGED <<boot, target, marker, broker, endedBy, sent, backendVars>>

-----------------------------------------------------------------------------
(* The host goes down *)

\* Somebody at the machine asks for it, perhaps for what the broker is just
\* about to ask for as well.
LocalRequest(action) ==
  /\ target = Up
  /\ target' = [by |-> IF broker.action = action THEN "both" ELSE "local",
                action |-> action, reported |-> FALSE]
  /\ UNCHANGED <<boot, intent, marker, broker, endedBy, sent, backendVars>>

\* The comparison of the actions dropped.
Mut_IntentMatches == intent.boot = boot /\ intent.fresh

IntentMatches ==
  /\ intent.action = target.action
  /\ intent.boot = boot
  /\ intent.fresh

\* clientflow-local-reboot-reporter, clientflow-local-shutdown-reporter: the
\* intent is consumed; a transition it does not account for is marked.
ReporterRuns ==
  /\ target # Up
  /\ ~target.reported
  /\ marker' = IF IntentMatches THEN marker ELSE [action |-> target.action, boot |-> boot]
  /\ intent' = NoIntent
  /\ target' = [target EXCEPT !.reported = TRUE]
  /\ UNCHANGED <<boot, broker, endedBy, sent, backendVars>>

NextBoot ==
  /\ boot < MaxBoot
  /\ boot' = boot + 1
  /\ target' = Up
  /\ broker' = Idle
  /\ endedBy' = [endedBy EXCEPT ![boot] = target]
  /\ UNCHANGED <<intent, marker, sent, backendVars>>

GoDown == target.reported /\ NextBoot

PowerCut == NextBoot

-----------------------------------------------------------------------------
(* Status *)

\* collect_completed_local_power_event.
LocalEvent ==
  IF marker # NoMarker /\ marker.boot # boot
    THEN [action |-> marker.action, boot |-> marker.boot, observed |-> boot]
    ELSE NoEvent

SendStatus ==
  /\ Cardinality(sent) < MaxSent
  /\ sent' = sent \cup {[boot |-> boot, event |-> LocalEvent]}
  /\ sent' # sent
  /\ UNCHANGED <<hostVars, backendVars>>

\* Only the first boot is recorded.
Mut_ApplyStatus(report) ==
  /\ sent' = sent \ {report}
  /\ lastBoot' = IF lastBoot = NoBoot THEN report.boot ELSE lastBoot
  /\ UNCHANGED <<hostVars, event, localLater, command>>

\* apply_status_power_observation; nothing orders two reports.
ApplyStatus(report) ==
  /\ sent' = sent \ {report}
  /\ lastBoot' = report.boot
  /\ IF /\ report.event # NoEvent
        /\ report.event.boot # report.boot
        /\ report.event.observed = report.boot
       THEN event' = report.event /\ localLater' = TRUE
       ELSE UNCHANGED <<event, localLater>>
  /\ UNCHANGED <<hostVars, command>>

-----------------------------------------------------------------------------
(* The power command *)

CommandActive == command.status \in {"queued", "claimed"}

\* set_system_command; the payload carries the boot that Status last gave.
Request(action) ==
  /\ ~CommandActive
  /\ lastBoot # NoBoot
  /\ command' = [status |-> "queued", action |-> action, requested |-> lastBoot,
                 journal |-> "absent", started |-> NoBoot]
  /\ localLater' = FALSE
  /\ UNCHANGED <<hostVars, sent, lastBoot, event>>

\* The times of the row that the projection reads move with its status.
CommandBecomes(status) ==
  /\ command' = [command EXCEPT !.status = status]
  /\ localLater' = FALSE
  /\ UNCHANGED <<hostVars, sent, lastBoot, event>>

Claim == command.status = "queued" /\ CommandBecomes("claimed")

\* The broker answered that systemd took the request, or a later boot let
\* it complete the command from its journal.
Complete ==
  /\ command.status = "claimed"
  /\ command.journal = "started"
  /\ \/ command.started < boot
     \/ target.by = "power" /\ target.action = command.action /\ broker = Idle
  /\ CommandBecomes("succeeded")

Fail == command.status = "claimed" /\ CommandBecomes("failed")

-----------------------------------------------------------------------------

Next ==
  \/ AnnouncePower \/ AnnounceUpdate
  \/ SystemctlAccepts \/ BrokerFails \/ BrokerDies \/ IntentAges
  \/ \E action \in Actions : LocalRequest(action)
  \/ ReporterRuns \/ GoDown \/ PowerCut
  \/ SendStatus
  \/ \E report \in sent : ApplyStatus(report)
  \/ \E action \in Actions : Request(action)
  \/ Claim \/ Complete \/ Fail

Spec == Init /\ [][Next]_vars

FairSpec ==
  /\ Spec
  /\ WF_vars(SendStatus)
  /\ WF_vars(\E report \in sent : ApplyStatus(report))

-----------------------------------------------------------------------------
(* What the backend shows: power_projection_from_command and the merge *)

ObservedNewBoot ==
  /\ command.status = "succeeded"
  /\ lastBoot # NoBoot
  /\ lastBoot # command.requested

PendingReboot ==
  /\ command.action = "reboot"
  /\ CommandActive \/ (command.status = "succeeded" /\ ~ObservedNewBoot)

ShowsLocal == event # NoEvent /\ (command = NoCommand \/ localLater)

-----------------------------------------------------------------------------

\* Every file, report and column has its type; an event's boot precedes the
\* boot it was observed in.
TypeOK ==
  /\ boot \in Boots
  /\ target \in {Up} \cup [by : {"local", "both"} \cup Canonical, action : Actions,
                        reported : BOOLEAN]
  /\ intent \in {NoIntent} \cup [action : Actions, boot : Boots, fresh : BOOLEAN, orphan : BOOLEAN]
  /\ marker \in {NoMarker} \cup [action : Actions, boot : Boots]
  /\ broker \in {Idle} \cup [step : {"announced", "crossing"},
                            kind : {"power", "update"}, action : Actions]
  /\ \A report \in sent :
       /\ report.boot \in Boots
       /\ report.event = NoEvent \/ report.event.boot < report.event.observed
  /\ lastBoot \in 0..MaxBoot
  /\ localLater \in BOOLEAN
  /\ command.status \in {None, "queued", "claimed", "succeeded", "failed"}
  /\ command = NoCommand <=> command.status = None

(***************************************************************************)
(* A marker is never left by the transition of a power command, also when  *)
(* the broker died with its intent on disk or a stale boot was asked for.  *)
(***************************************************************************)
MarkerIsLocal ==
  marker # NoMarker =>
    "power" # IF marker.boot = boot THEN target.by ELSE endedBy[marker.boot].by

LocallyReported ==
  target.by = "local" /\ ~target.reported /\ target'.reported

(***************************************************************************)
(* A local transition that gets as far as the reporters is marked, so that *)
(* it can be reported, unless the broker died over its intent.             *)
(***************************************************************************)
LocalIsMarked ==
  [][LocallyReported /\ ~intent.orphan => marker'.boot = boot]_vars

(***************************************************************************)
(* The same without the exception, as the docstring of the reporter has    *)
(* it: an intent left behind by a broker that died does not mask a later   *)
(* local transition.  The code does not keep it.                           *)
(***************************************************************************)
OrphanMasksNothing == [][LocallyReported => marker'.boot = boot]_vars

(***************************************************************************)
(* The local event on display is about a local transition into the boot    *)
(* that it names, not about one that a power command made.  The marker is  *)
(* never removed, so the code does not keep it.                            *)
(***************************************************************************)
ShownEventWasLocal == ShowsLocal => endedBy[event.observed - 1].by # "power"

(***************************************************************************)
(* A reboot command that succeeded does not stay pending once the host is  *)
(* in a later boot, whatever reports arrive late.                          *)
(***************************************************************************)
PendingRebootEnds ==
  (command.status = "succeeded" /\ boot # command.requested)
    ~> (~PendingReboot \/ CommandActive)
=============================================================================
