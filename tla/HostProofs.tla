----------------------------- MODULE HostProofs -----------------------------
(***************************************************************************)
(* Proofs about what happens at the machine: who is said to have rebooted  *)
(* it (PowerAttribution), and how often the calendar does (Calendar).      *)
(***************************************************************************)
EXTENDS PowerAttribution, Calendar, TLAPS

-----------------------------------------------------------------------------
(***************************************************************************)
(* PowerAttribution.  An intent accounts for the transition that is coming *)
(* only while the broker that announced it lives; once a power command is  *)
(* what takes the host down, the intent accounts for it until the          *)
(* reporters have run; a marker is of a transition that has begun.         *)
(***************************************************************************)
Targets == {Up} \cup [by : {"local", "both"} \cup Canonical, action : Actions, reported : BOOLEAN]
Intents == [action : Actions \cup {None}, boot : Boots \cup {NoBoot}, fresh : BOOLEAN,
            orphan : BOOLEAN]

PowerTypes ==
  /\ boot \in Boots
  /\ target \in Targets
  /\ intent \in Intents
  /\ marker \in [action : Actions \cup {None}, boot : Boots \cup {NoBoot}]
  /\ broker \in {Idle} \cup [step : {"announced", "crossing"}, kind : {"power", "update"},
                            action : Actions]
  /\ endedBy \in [Boots -> Targets]

CommandHasAction ==
  /\ command = [status |-> command.status, action |-> command.action,
                requested |-> command.requested, journal |-> command.journal,
                started |-> command.started]
  /\ CommandActive => command.action \in Actions

MarkerHasBegun ==
  /\ marker.boot <= boot
  /\ marker.boot = boot => target # Up

\* An intent of this boot is of a broker that lives.
IntentIsAccounted ==
  /\ intent.boot <= boot
  /\ broker.step = "announced" /\ target = Up =>
       intent.action = broker.action /\ intent.boot = boot /\ intent.fresh
  /\ target = Up /\ intent.boot = boot /\ ~intent.orphan =>
       broker # Idle /\ broker.action = intent.action
  /\ target.by = "power" => broker = Idle
  /\ target.by = "power" /\ ~target.reported => IntentMatches
  /\ target.by = "local" /\ ~intent.orphan /\ ~target.reported => ~IntentMatches

PowerInv ==
  PowerTypes /\ CommandHasAction /\ MarkerHasBegun /\ IntentIsAccounted /\ MarkerIsLocal

\* What a step must not do to a local transition.
MarksLocal == LocallyReported /\ ~intent.orphan => marker'.boot = boot

LEMMA BootsAreNumbers ==
  Boots \subseteq Nat \ {0} /\ NoBoot = 0 /\ NoBoot \notin Boots /\ 1 \in Boots
BY AttributionAssumption DEF Boots, NoBoot

LEMMA PowerInitHolds == Init => PowerInv
<1> SUFFICES ASSUME Init PROVE PowerInv
  OBVIOUS
<1> USE BootsAreNumbers DEF Init
<1>1. PowerTypes
  BY DEF PowerTypes, Targets, Intents, Up, NoIntent, NoMarker, Idle
<1>2. CommandHasAction
  BY DEF CommandHasAction, NoCommand, CommandActive, None
<1>3. MarkerHasBegun /\ IntentIsAccounted /\ MarkerIsLocal
  BY DEF MarkerHasBegun, IntentIsAccounted, MarkerIsLocal, Up, NoIntent, NoMarker, Idle, None
<1> QED
  BY <1>1, <1>2, <1>3 DEF PowerInv

-----------------------------------------------------------------------------
\* What only the backend's side changes.
LEMMA BackendOnly ==
  ASSUME PowerInv, UNCHANGED hostVars, CommandHasAction'
  PROVE  PowerInv' /\ MarksLocal
BY DEF PowerInv, PowerTypes, MarkerHasBegun, IntentIsAccounted, MarkerIsLocal, IntentMatches,
       hostVars, MarksLocal, LocallyReported

LEMMA AnnounceKeeps ==
  ASSUME PowerInv, NEW kind \in {"power", "update"}, NEW action \in Actions,
         Announce(kind, action), CommandHasAction'
  PROVE  PowerInv' /\ MarksLocal
<1> USE DEF PowerInv, PowerTypes
<1>1. /\ broker = Idle /\ target = Up /\ boot \in Boots
      /\ intent' = [action |-> action, boot |-> boot, fresh |-> TRUE, orphan |-> FALSE]
      /\ broker' = [step |-> "announced", kind |-> kind, action |-> action]
      /\ UNCHANGED <<boot, target, marker, endedBy>>
  BY DEF Announce
<1>2. PowerTypes'
  BY <1>1 DEF Intents
<1>3. IntentIsAccounted'
  BY <1>1, BootsAreNumbers DEF IntentIsAccounted, Up, Idle, None
<1>4. MarkerHasBegun' /\ MarkerIsLocal'
  BY <1>1 DEF MarkerHasBegun, MarkerIsLocal
<1>5. MarksLocal
  BY <1>1 DEF MarksLocal, LocallyReported, Up, None
<1> QED
  BY <1>2, <1>3, <1>4, <1>5

LEMMA AcceptKeeps == ASSUME PowerInv, SystemctlAccepts PROVE PowerInv' /\ MarksLocal
<1> USE DEF PowerInv, PowerTypes
<1>1. /\ broker.step = "announced" /\ target = Up /\ broker.kind \in {"power", "update"}
      /\ broker.action \in Actions
      /\ target' = [by |-> broker.kind, action |-> broker.action, reported |-> FALSE]
      /\ UNCHANGED <<boot, intent, marker, endedBy, command>>
  BY DEF SystemctlAccepts, Idle, backendVars
<1>2. /\ broker.kind = "power" => broker' = Idle
      /\ broker.kind = "update" => broker' = [broker EXCEPT !.step = "crossing"]
  BY <1>1 DEF SystemctlAccepts
<1>3. broker' \in {Idle} \cup [step : {"announced", "crossing"}, kind : {"power", "update"},
                              action : Actions]
  <2>1. CASE broker.kind = "power"
    BY <1>2, <2>1
  <2>2. CASE broker.kind = "update"
    <3>1. broker \in [step : {"announced", "crossing"}, kind : {"power", "update"},
                      action : Actions]
      BY <1>1 DEF Idle
    <3> QED
      BY <1>2, <2>2, <3>1
  <2> QED
    BY <1>1, <2>1, <2>2
<1>4. target' \in Targets /\ target' # Up
  BY <1>1 DEF Targets, Canonical, Up, Actions, None
<1>5. PowerTypes'
  BY <1>1, <1>3, <1>4
<1>6. IntentIsAccounted'
  BY <1>1, <1>2, <1>4 DEF IntentIsAccounted, IntentMatches
<1>7. MarkerHasBegun' /\ MarkerIsLocal'
  BY <1>1, <1>4 DEF MarkerHasBegun, MarkerIsLocal
<1>8. CommandHasAction' /\ MarksLocal
  BY <1>1 DEF CommandHasAction, CommandActive, MarksLocal, LocallyReported, Up, None
<1> QED
  BY <1>5, <1>6, <1>7, <1>8

\* The broker gives up or dies.
LEMMA BrokerEndsKeeps ==
  ASSUME PowerInv, BrokerFails \/ BrokerDies PROVE PowerInv' /\ MarksLocal
<1> USE DEF PowerInv, PowerTypes
<1>1. /\ broker # Idle /\ broker' = Idle /\ UNCHANGED <<boot, target, marker, endedBy>>
      /\ intent' = NoIntent \/ intent' = [intent EXCEPT !.orphan = intent # NoIntent]
  BY DEF BrokerFails, BrokerDies
<1>2. NoIntent \in Intents /\ NoIntent.boot = 0
  BY BootsAreNumbers DEF Intents, NoIntent
<1>3. [intent EXCEPT !.orphan = intent # NoIntent] \in Intents
  BY DEF Intents
<1>4. PowerTypes'
  BY <1>1, <1>2, <1>3
<1>5. CommandHasAction'
  BY DEF CommandHasAction, CommandActive, BrokerFails, BrokerDies, backendVars
<1>6. IntentIsAccounted'
  <2>1. CASE intent' = NoIntent
    BY <1>1, <1>2, <2>1, BootsAreNumbers DEF IntentIsAccounted, IntentMatches, Idle
  <2>2. CASE intent' = [intent EXCEPT !.orphan = intent # NoIntent]
    <3>1. /\ intent'.boot = intent.boot /\ intent'.action = intent.action
          /\ intent'.fresh = intent.fresh
          /\ ~intent'.orphan => intent.boot = 0
      BY <1>2, <2>2 DEF Intents
    <3> QED
      BY <1>1, <3>1, BootsAreNumbers DEF IntentIsAccounted, IntentMatches, Idle
  <2> QED
    BY <1>1, <2>1, <2>2
<1>7. MarkerHasBegun' /\ MarkerIsLocal' /\ MarksLocal
  BY <1>1 DEF MarkerHasBegun, MarkerIsLocal, MarksLocal, LocallyReported
<1> QED
  BY <1>4, <1>5, <1>6, <1>7

LEMMA AgesKeeps == ASSUME PowerInv, IntentAges PROVE PowerInv' /\ MarksLocal
<1> USE DEF PowerInv, PowerTypes
<1>1. /\ broker = Idle /\ target.by # "power"
      /\ UNCHANGED <<boot, target, marker, broker, endedBy, command>>
      /\ intent' = [intent EXCEPT !.fresh = FALSE]
  BY DEF IntentAges, Canonical, backendVars
<1>2. /\ intent' \in Intents /\ intent'.boot = intent.boot /\ intent'.action = intent.action
      /\ ~intent'.fresh /\ intent'.orphan = intent.orphan
  BY <1>1 DEF Intents
<1>3. PowerTypes' /\ CommandHasAction'
  BY <1>1, <1>2 DEF CommandHasAction, CommandActive
<1>4. IntentIsAccounted'
  BY <1>1, <1>2 DEF IntentIsAccounted, IntentMatches, Idle
<1>5. MarkerHasBegun' /\ MarkerIsLocal' /\ MarksLocal
  BY <1>1 DEF MarkerHasBegun, MarkerIsLocal, MarksLocal, LocallyReported
<1> QED
  BY <1>3, <1>4, <1>5

\* A request for what the broker has announced is of both.
LEMMA LocalKeeps ==
  ASSUME PowerInv, NEW action \in Actions, LocalRequest(action) PROVE PowerInv' /\ MarksLocal
<1> USE DEF PowerInv, PowerTypes
<1> DEFINE by == IF broker.action = action THEN "both" ELSE "local"
<1>1. /\ target = Up
      /\ target' = [by |-> by, action |-> action, reported |-> FALSE]
      /\ UNCHANGED <<boot, intent, marker, broker, endedBy, command>>
  BY DEF LocalRequest, backendVars
<1>2. by \in {"local", "both"} /\ (by = "local" => broker.action # action)
  OBVIOUS
<1> HIDE DEF by
<1>3. target' \in Targets /\ target' # Up
  BY <1>1, <1>2 DEF Targets, Canonical, Up, Actions, None
<1>4. PowerTypes' /\ CommandHasAction'
  BY <1>1, <1>3 DEF CommandHasAction, CommandActive
<1>5. IntentIsAccounted'
  BY <1>1, <1>2, <1>3 DEF IntentIsAccounted, IntentMatches
<1>6. MarkerHasBegun' /\ MarkerIsLocal' /\ MarksLocal
  BY <1>1, <1>2, <1>3
  DEF MarkerHasBegun, MarkerIsLocal, MarksLocal, LocallyReported, Up, None
<1> QED
  BY <1>4, <1>5, <1>6

\* The reporters consume the intent, or mark what it does not account for.
LEMMA ReporterKeeps == ASSUME PowerInv, ReporterRuns PROVE PowerInv' /\ MarksLocal
<1> USE DEF PowerInv, PowerTypes
<1>1. /\ target # Up /\ ~target.reported
      /\ intent' = NoIntent /\ target' = [target EXCEPT !.reported = TRUE]
      /\ UNCHANGED <<boot, broker, endedBy, command>>
      /\ IntentMatches => marker' = marker
      /\ ~IntentMatches => marker' = [action |-> target.action, boot |-> boot]
  BY DEF ReporterRuns, backendVars
<1>2. /\ target' \in Targets /\ target' # Up
      /\ target'.by = target.by /\ target'.reported /\ target.action \in Actions
  BY <1>1 DEF Targets, Canonical, Up, None, Actions
<1>3. NoIntent \in Intents /\ NoIntent.boot = 0
  BY BootsAreNumbers DEF Intents, NoIntent
<1>4. PowerTypes' /\ CommandHasAction'
  BY <1>1, <1>2, <1>3 DEF CommandHasAction, CommandActive
<1>5. IntentIsAccounted'
  BY <1>1, <1>2, <1>3, BootsAreNumbers DEF IntentIsAccounted
<1>6. MarkerHasBegun'
  BY <1>1, <1>2, BootsAreNumbers DEF MarkerHasBegun
<1>7. target.by = "power" => IntentMatches
  BY <1>1 DEF IntentIsAccounted
<1>8. MarkerIsLocal'
  BY <1>1, <1>2, <1>7 DEF MarkerIsLocal, NoMarker
<1>9. MarksLocal
  BY <1>1 DEF MarksLocal, LocallyReported, IntentIsAccounted
<1> QED
  BY <1>4, <1>5, <1>6, <1>8, <1>9

LEMMA NextBootKeeps == ASSUME PowerInv, NextBoot PROVE PowerInv' /\ MarksLocal
<1> USE DEF PowerInv, PowerTypes
<1>1. /\ boot' = boot + 1 /\ boot \in Nat /\ boot' \in Boots
      /\ target' = Up /\ broker' = Idle /\ endedBy' = [endedBy EXCEPT ![boot] = target]
      /\ UNCHANGED <<intent, marker, command>>
  BY BootsAreNumbers, AttributionAssumption DEF NextBoot, Boots, backendVars
<1>2. /\ marker.boot \in Nat /\ intent.boot \in Nat
      /\ marker.boot < boot' /\ intent.boot < boot'
  <2>1. marker.boot \in Boots \cup {NoBoot} /\ intent.boot \in Boots \cup {NoBoot}
    BY DEF Intents
  <2>2. \A b \in Boots \cup {NoBoot} : b \in Nat
    <3> HIDE DEF PowerInv, PowerTypes
    <3> QED
      BY BootsAreNumbers
  <2>3. marker.boot <= boot /\ intent.boot <= boot
    BY DEF MarkerHasBegun, IntentIsAccounted
  <2>4. boot' = boot + 1 /\ boot \in Nat
    BY <1>1
  <2> HIDE DEF PowerInv, PowerTypes
  <2>5. marker.boot \in Nat /\ intent.boot \in Nat
    BY <2>1, <2>2
  <2> QED
    BY <2>3, <2>4, <2>5
<1>3. PowerTypes' /\ CommandHasAction'
  BY <1>1 DEF Targets, CommandHasAction, CommandActive
<1>4. IntentIsAccounted' /\ MarkerHasBegun' /\ MarksLocal
  BY <1>1, <1>2 DEF IntentIsAccounted, MarkerHasBegun, MarksLocal, LocallyReported, Up, Idle, None
<1>5. MarkerIsLocal'
  <2> SUFFICES ASSUME marker # NoMarker PROVE endedBy'[marker.boot].by # "power"
    BY <1>1, <1>2 DEF MarkerIsLocal
  <2>1. CASE marker.boot = boot
    BY <1>1, <2>1 DEF MarkerIsLocal
  <2>2. CASE marker.boot # boot
    BY <1>1, <2>2 DEF MarkerIsLocal
  <2> QED
    BY <2>1, <2>2
<1> QED
  BY <1>3, <1>4, <1>5

LEMMA PowerStepKeeps == ASSUME PowerInv, [Next]_vars PROVE PowerInv' /\ MarksLocal
<1>1. ASSUME UNCHANGED hostVars, CommandHasAction' PROVE PowerInv' /\ MarksLocal
  BY <1>1, BackendOnly
<1>2. ASSUME UNCHANGED command PROVE CommandHasAction'
  BY <1>2 DEF PowerInv, CommandHasAction, CommandActive
<1>3. CASE AnnouncePower
  <2>1. command.action \in Actions /\ Announce("power", command.action)
    BY <1>3 DEF AnnouncePower, PowerInv, CommandHasAction, CommandActive
  <2>2. CommandHasAction'
    BY <1>3, <2>1 DEF AnnouncePower, PowerInv, CommandHasAction, CommandActive
  <2> QED
    BY <2>1, <2>2, AnnounceKeeps
<1>4. CASE AnnounceUpdate
  <2>1. Announce("update", "reboot") /\ UNCHANGED command /\ "reboot" \in Actions
    BY <1>4 DEF AnnounceUpdate, Actions
  <2> QED
    BY <1>2, <2>1, AnnounceKeeps
<1>5. CASE SendStatus
  BY <1>1, <1>2, <1>5 DEF SendStatus, backendVars
<1>6. ASSUME NEW report \in sent, ApplyStatus(report) PROVE PowerInv' /\ MarksLocal
  BY <1>1, <1>2, <1>6 DEF ApplyStatus
<1>7. ASSUME NEW action \in Actions, Request(action) PROVE PowerInv' /\ MarksLocal
  <2>1. CommandHasAction' /\ UNCHANGED hostVars
    BY <1>7 DEF Request, CommandHasAction, CommandActive
  <2> QED
    BY <1>1, <2>1
<1>8. ASSUME NEW status, CommandBecomes(status), CommandActive PROVE PowerInv' /\ MarksLocal
  <2>1. CommandHasAction' /\ UNCHANGED hostVars
    BY <1>8 DEF CommandBecomes, PowerInv, CommandHasAction, CommandActive
  <2> QED
    BY <1>1, <2>1
<1>9. CASE Claim \/ Complete \/ Fail
  BY <1>8, <1>9 DEF Claim, Complete, Fail, CommandActive
<1>10. CASE UNCHANGED vars
  BY <1>1, <1>2, <1>10 DEF vars, backendVars
<1> QED
  BY <1>3, <1>4, <1>5, <1>6, <1>7, <1>9, <1>10, AcceptKeeps, BrokerEndsKeeps, AgesKeeps,
     LocalKeeps, ReporterKeeps, NextBootKeeps DEF Next, GoDown, PowerCut

LEMMA PowerInvHolds == Spec => []PowerInv
BY PowerInitHolds, PowerStepKeeps, PTL DEF Spec

(***************************************************************************)
(* A marker of a local transition is never left by a power command's, for  *)
(* any number of boots and any order of requests, deaths, power cuts and   *)
(* late reports.                                                           *)
(***************************************************************************)
THEOREM MarkersAreLocal == Spec => []MarkerIsLocal
<1>1. PowerInv => MarkerIsLocal
  BY DEF PowerInv
<1> QED
  BY <1>1, PowerInvHolds, PTL

(***************************************************************************)
(* A local transition the reporters see is marked, unless the broker died  *)
(* over its intent.                                                        *)
(***************************************************************************)
THEOREM LocalTransitionsAreMarked == Spec => LocalIsMarked
<1>1. PowerInv /\ [Next]_vars => MarksLocal
  BY PowerStepKeeps
<1>2. PowerInv /\ [Next]_vars => [LocallyReported /\ ~intent.orphan => marker'.boot = boot]_vars
  BY <1>1 DEF MarksLocal
<1> QED
  BY <1>2, PowerInvHolds, PTL DEF Spec, LocalIsMarked

-----------------------------------------------------------------------------
(***************************************************************************)
(* Calendar.  The day of a request is saved before the broker is asked, so *)
(* a day with a request asked for is saved, or over; while the agent is    *)
(* about to ask, nothing has been asked for on that day.                   *)
(***************************************************************************)
Scheds ==
  [last : {"none", "on", "off"}, day : Nat, boot : Nat,
   error : {"", "reboot_request_failed", "reboot_not_observed"}, ready : Nat]
Places == {"grace", "idle", "wake", "ask", "light", "start", "off", "dark", "save"}
Agents == [at : Places, want : {"on", "off"}, then : {"idle", "save"}, enforced : BOOLEAN]

CaTypes ==
  /\ caNow \in Nat \ {0}
  /\ caSched \in Scheds
  /\ caAgent \in Agents
  /\ caBoot \in [id : Nat, day : Nat]
  /\ caReboot \in [pending : BOOLEAN, asked : [Days -> Nat]]

AskedIsSaved ==
  \A d \in Days : caReboot.asked[d] > 0 =>
    d < Today \/ (d = Today /\ caSched.day = Today /\ ~CaAt("ask"))

AskingIsSpare == CaAt("ask") => caSched.day = Today /\ caBoot.day # Today

CaInv == CaTypes /\ AskedIsSaved /\ AskingIsSpare /\ RebootsAreSpare

LEMMA DayMoves ==
  ASSUME NEW t \in Nat \ {0} PROVE Day(t) \in Nat /\ Day(t) <= Day(t + 1)
BY DEF Day

LEMMA CaInitHolds == CaInit => CaInv
<1> SUFFICES ASSUME CaInit PROVE CaInv
  OBVIOUS
<1>1. /\ caNow = 1
      /\ caAgent = [at |-> "grace", want |-> "off", then |-> "idle", enforced |-> FALSE]
      /\ caBoot = [id |-> 1, day |-> 0]
      /\ caReboot = [pending |-> FALSE, asked |-> [d \in Days |-> 0]]
  BY DEF CaInit
<1>2. PICK last \in {"none", "on", "off"} :
        caSched = [last |-> last, day |-> 0, boot |-> 0, error |-> "", ready |-> 0]
  BY DEF CaInit, Never
<1>3. caSched \in Scheds
  BY <1>2 DEF Scheds
<1>4. CaTypes
  BY <1>1, <1>3 DEF CaTypes, Agents, Places
<1>5. AskedIsSaved /\ AskingIsSpare /\ RebootsAreSpare
  BY <1>1 DEF AskedIsSaved, AskingIsSpare, RebootsAreSpare, CaAt
<1> QED
  BY <1>4, <1>5 DEF CaInv

\* A step that asks for nothing.
LEMMA ElsewhereKeeps ==
  ASSUME CaInv, UNCHANGED <<caNow, caBoot>>, caSched' \in Scheds, caAgent' \in Agents,
         caSched'.day = caSched.day,
         UNCHANGED caReboot \/ caReboot' = [caReboot EXCEPT !.pending = FALSE],
         caAgent'.at = "ask" => caAgent.at = "ask"
  PROVE  CaInv'
<1>1. Today' = Today
  BY DEF Today
<1>2. /\ caReboot' \in [pending : BOOLEAN, asked : [Days -> Nat]]
      /\ caReboot'.asked = caReboot.asked /\ (caReboot'.pending => caReboot.pending)
  BY DEF CaInv, CaTypes
<1> QED
  BY <1>1, <1>2 DEF CaInv, CaTypes, AskedIsSaved, AskingIsSpare, RebootsAreSpare, CaAt

LEMMA AgentGoes ==
  ASSUME CaInv, NEW s \in Places, Goes(s)
  PROVE  caAgent' \in Agents /\ caAgent'.at = s
BY DEF CaInv, CaTypes, Goes, Agents

\* Nothing but where the agent is.
LEMMA GoesElsewhere ==
  ASSUME CaInv, NEW s \in Places \ {"ask"}, Goes(s), UNCHANGED <<caNow, caBoot, caSched, caReboot>>
  PROVE  CaInv'
<1>1. caAgent' \in Agents /\ caAgent'.at = s
  BY AgentGoes
<1> QED
  BY <1>1, ElsewhereKeeps DEF CaInv, CaTypes

\* Nothing that the agent or the machine has.
LEMMA NothingOfTheAgent ==
  ASSUME CaInv, UNCHANGED <<caNow, caBoot, caSched, caReboot, caAgent>> PROVE CaInv'
BY ElsewhereKeeps DEF CaInv, CaTypes

-----------------------------------------------------------------------------
LEMMA EvaluateKeeps == ASSUME CaInv, Evaluate PROVE CaInv'
<1> DEFINE d == Desired(caPlan, caNow)
<1>1. d \in {"on", "off"} /\ Work(d) \in {"off", "save", "wake", "idle"}
  BY Zenon DEF Desired, Work
<1>2. caAgent \in Agents
  BY DEF CaInv, CaTypes
<1>3. caAgent' = caAgent
      \/ caAgent' = [at |-> Work(d), want |-> d, then |-> "save",
                     enforced |-> caAgent.enforced \/ Work(d) = "idle"]
  BY DEF Evaluate
<1> DEFINE e == caAgent.enforced \/ Work(d) = "idle"
<1>a. e \in BOOLEAN
  BY Zenon
<1> HIDE DEF d, e
<1>b. CASE caAgent' = caAgent
  BY <1>2, <1>b, ElsewhereKeeps DEF Evaluate, CaInv, CaTypes
<1>c. CASE caAgent' = [at |-> Work(d), want |-> d, then |-> "save", enforced |-> e]
  <2>1. caAgent' \in Agents /\ caAgent'.at # "ask"
    BY <1>1, <1>a, <1>c DEF Agents, Places
  <2> QED
    BY <2>1, ElsewhereKeeps DEF Evaluate, CaInv, CaTypes
<1> QED
  BY <1>3, <1>b, <1>c DEF e

\* The request is saved; nothing has been asked for today.
LEMMA WakeKeeps == ASSUME CaInv, Wake PROVE CaInv'
<1>1. CASE RebootRequired
  <2>1. /\ caSched' = [caSched EXCEPT !.day = Today, !.boot = caBoot.id, !.error = ""]
        /\ Goes("ask") /\ UNCHANGED <<caNow, caBoot, caReboot>>
    BY <1>1 DEF Wake, CaRest
  <2>2. caAgent' \in Agents /\ caAgent'.at = "ask"
    BY <2>1, AgentGoes DEF Places
  <2>3. Today \in Nat /\ caBoot.id \in Nat
    BY DayMoves DEF CaInv, CaTypes, Today
  <2>4. caSched' \in Scheds /\ caSched'.day = Today
    BY <2>1, <2>3 DEF CaInv, CaTypes, Scheds
  <2>5. Today' = Today
    BY <2>1 DEF Today
  <2>6. caBoot.day # Today /\ caSched.day # Today
    BY <1>1 DEF RebootRequired
  <2>7. AskedIsSaved'
    BY <2>1, <2>5, <2>6 DEF AskedIsSaved, CaInv
  <2> QED
    BY <2>1, <2>2, <2>4, <2>5, <2>6, <2>7
    DEF CaInv, CaTypes, AskingIsSpare, RebootsAreSpare
<1>2. CASE ~RebootRequired
  BY <1>2, GoesElsewhere DEF Wake, CaRest, Places
<1> QED
  BY <1>1, <1>2

\* The broker is asked, or may have been, for the first time today.
LEMMA AskKeeps ==
  ASSUME CaInv, CaAt("ask"), BrokerAccepts, UNCHANGED <<caNow, caBoot>>, caSched' \in Scheds,
         caSched'.day = caSched.day, caAgent' \in Agents, caAgent'.at # "ask"
  PROVE  CaInv'
<1>1. caReboot.asked \in [Days -> Nat] /\ Today \in Nat
  BY DayMoves DEF CaInv, CaTypes, Today
<1>2. \A d \in Days : d = Today => caReboot.asked[d] = 0
  BY <1>1 DEF CaInv, AskedIsSaved, CaTypes
<1> DEFINE asked == [caReboot.asked EXCEPT ![Today] = @ + 1]
<1>3. /\ asked \in [Days -> Nat]
      /\ \A d \in Days : d # Today => asked[d] = caReboot.asked[d]
      /\ \A d \in Days : d = Today => asked[d] = 1
  <2>1. CASE Today \in Days
    <3>1. caReboot.asked[Today] + 1 = 1
      BY <1>2, <2>1
    <3>2. asked = [caReboot.asked EXCEPT ![Today] = 1]
      BY <3>1
    <3> QED
      BY <1>1, <2>1, <3>2
  <2>2. CASE Today \notin Days
    <3>1. asked = caReboot.asked
      BY <1>1, <2>2
    <3> QED
      BY <1>1, <2>2, <3>1
  <2> QED
    BY <2>1, <2>2
<1>4. caReboot' = [pending |-> TRUE, asked |-> asked]
  BY DEF BrokerAccepts
<1> HIDE DEF asked
<1>5. Today' = Today
  BY DEF Today
<1>6. caSched.day = Today /\ caBoot.day # Today
  BY DEF CaInv, AskingIsSpare
<1>7. CaTypes'
  BY <1>3, <1>4 DEF CaInv, CaTypes
<1>8. AskedIsSaved' /\ AskingIsSpare'
  BY <1>3, <1>4, <1>5, <1>6 DEF CaInv, AskedIsSaved, AskingIsSpare, CaAt
<1>9. RebootsAreSpare'
  BY <1>3, <1>4, <1>5, <1>6 DEF CaInv, RebootsAreSpare
<1> QED
  BY <1>7, <1>8, <1>9 DEF CaInv

LEMMA AskRebootKeeps == ASSUME CaInv, AskReboot PROVE CaInv'
<1>1. caAgent' \in Agents /\ caAgent'.at = "save"
  BY AgentGoes DEF AskReboot, Places
<1> QED
  BY <1>1, AskKeeps DEF AskReboot, CaRest, CaInv, CaTypes

\* An error is saved, and the screen is lit.
LEMMA LightsUp ==
  ASSUME CaInv, NEW e \in {"reboot_request_failed", "reboot_not_observed"},
         caSched' = [caSched EXCEPT !.error = e],
         caAgent' = [caAgent EXCEPT !.at = "light", !.then = "idle"]
  PROVE  /\ caSched' \in Scheds /\ caSched'.day = caSched.day
         /\ caAgent' \in Agents /\ caAgent'.at = "light"
<1>1. caSched' \in Scheds /\ caSched'.day = caSched.day
  BY DEF CaInv, CaTypes, Scheds
<1>2. caAgent' \in Agents /\ caAgent'.at = "light"
  BY DEF CaInv, CaTypes, Agents, Places
<1> QED
  BY <1>1, <1>2

LEMMA AskFailsKeeps == ASSUME CaInv, AskFails PROVE CaInv'
<1>1. /\ caSched' \in Scheds /\ caSched'.day = caSched.day
      /\ caAgent' \in Agents /\ caAgent'.at = "light"
  BY LightsUp DEF AskFails
<1>2. UNCHANGED <<caNow, caBoot>> /\ CaAt("ask") /\ (BrokerAccepts \/ UNCHANGED caReboot)
  BY DEF AskFails, CaRest
<1> QED
  BY <1>1, <1>2, AskKeeps, ElsewhereKeeps

LEMMA SaveKeeps == ASSUME CaInv, SaveTransition PROVE CaInv'
<1>1. /\ caSched \in Scheds /\ caAgent \in Agents /\ caBoot.id \in Nat
      /\ caAgent.want \in {"none", "on", "off"}
  BY DEF CaInv, CaTypes, Agents
<1>2. PICK r \in Nat : caSched' = [caSched EXCEPT !.last = caAgent.want, !.ready = r]
  <2>1. caSched.ready \in Nat
    BY <1>1 DEF Scheds
  <2> QED
    BY <1>1, <2>1 DEF SaveTransition
<1>3. caSched' \in Scheds /\ caSched'.day = caSched.day
  BY <1>1, <1>2 DEF Scheds
<1>4. caAgent' \in Agents /\ caAgent'.at = "idle"
  BY <1>1 DEF SaveTransition, Agents, Places
<1> QED
  BY <1>3, <1>4, ElsewhereKeeps DEF SaveTransition, CaRest

\* A request of this day is over when the machine boots on it.
LEMMA BootsKeeps == ASSUME CaInv, CaBoots PROVE CaInv'
<1>1. /\ caBoot' = [id |-> caBoot.id + 1, day |-> Today]
      /\ caAgent' = [caAgent EXCEPT !.at = "grace", !.enforced = FALSE]
      /\ caReboot' = [caReboot EXCEPT !.pending = FALSE]
      /\ UNCHANGED <<caNow, caSched>>
  BY DEF CaBoots
<1>2. Today \in Nat /\ Today' = Today
  BY <1>1, DayMoves DEF CaInv, CaTypes, Today
<1>3. /\ caReboot' \in [pending : BOOLEAN, asked : [Days -> Nat]]
      /\ caReboot'.asked = caReboot.asked /\ ~caReboot'.pending
  BY <1>1 DEF CaInv, CaTypes
<1>4. caAgent' \in Agents /\ caAgent'.at = "grace"
  BY <1>1 DEF CaInv, CaTypes, Agents, Places
<1>5. CaTypes'
  BY <1>1, <1>2, <1>3, <1>4 DEF CaInv, CaTypes
<1> QED
  BY <1>1, <1>2, <1>3, <1>4, <1>5
  DEF CaInv, AskedIsSaved, AskingIsSpare, RebootsAreSpare, CaAt

\* No hour passes over a reboot under way or one that is about to be asked for.
LEMMA HourKeeps == ASSUME CaInv, HourPasses PROVE CaInv'
<1>1. /\ caNow' = caNow + 1 /\ caNow \in Nat \ {0} /\ ~caReboot.pending /\ caAgent.at # "ask"
      /\ UNCHANGED <<caSched, caAgent, caBoot, caReboot>>
  BY DEF HourPasses, CaInv, CaTypes
<1>2. Today \in Nat /\ Today' \in Nat /\ Today <= Today'
  BY <1>1, DayMoves DEF Today
<1>3. CaTypes'
  BY <1>1 DEF CaInv, CaTypes
<1>4. AskedIsSaved'
  BY <1>1, <1>2, <1>3 DEF CaInv, CaTypes, AskedIsSaved, CaAt, Days
<1> QED
  BY <1>1, <1>3, <1>4 DEF CaInv, AskingIsSpare, RebootsAreSpare, CaAt

LEMMA CaStepKeeps == ASSUME CaInv, [CaNext]_cavars PROVE CaInv'
<1> USE DEF CaRest, Places
<1>1. ASSUME UNCHANGED <<caNow, caBoot, caSched, caReboot, caAgent>> PROVE CaInv'
  BY <1>1, NothingOfTheAgent
<1>2. CASE MaintainSeasons \/ CalendarIsWritten
  BY <1>1, <1>2 DEF MaintainSeasons, CalendarIsWritten, SaveMarkedDays, UpdateSeasonTimes,
                    ApplySeasonTimes, ReplaceCalendars, ChangeOrganization, Writes
<1>3. CASE FetchPlan
  BY <1>1, <1>3 DEF FetchPlan
<1>4. CASE GraceIsOver
  BY <1>4, GoesElsewhere DEF GraceIsOver
<1>5. CASE PowerOn \/ StopBrowser \/ PowerOff
  BY <1>5, GoesElsewhere DEF PowerOn, StopBrowser, PowerOff
<1>6. CASE StartBrowser
  <2>1. caAgent.then \in Places \ {"ask"}
    BY DEF CaInv, CaTypes, Agents
  <2> QED
    BY <1>6, <2>1, GoesElsewhere DEF StartBrowser
<1>7. CASE CallFails
  BY <1>7, GoesElsewhere DEF CallFails
<1>8. CASE RecoverScreen
  <2>1. /\ caSched' \in Scheds /\ caSched'.day = caSched.day
        /\ caAgent' \in Agents /\ caAgent'.at = "light"
    BY <1>8, LightsUp DEF RecoverScreen
  <2> QED
    BY <1>8, <2>1, ElsewhereKeeps DEF RecoverScreen
<1>9. CASE CalendarAgentDies
  <2>1. caAgent' \in Agents /\ caAgent'.at = "grace"
    BY <1>9 DEF CalendarAgentDies, CaInv, CaTypes, Agents
  <2> QED
    BY <1>9, <2>1, ElsewhereKeeps DEF CalendarAgentDies, CaInv, CaTypes
<1>10. CASE SetDisplayPower \/ CommandBrowser \/ PowerCommandFails
  BY <1>1, <1>10 DEF SetDisplayPower, CommandBrowser, PowerCommandFails, ByHand
<1>11. CASE GuiStarts \/ BrowserStarts \/ BrowserExits \/ GuiExits \/ RuntimeRestarts
  BY <1>1, <1>11 DEF GuiStarts, BrowserStarts, BrowserExits, GuiExits, RuntimeRestarts, RuntimeDoes
<1>12. CASE RebootIsDropped
  BY <1>12, ElsewhereKeeps DEF RebootIsDropped, CaInv, CaTypes
<1>13. CASE MachineReboots \/ PowerReturns
  BY <1>13, BootsKeeps DEF MachineReboots, PowerReturns
<1>14. CASE UNCHANGED cavars
  BY <1>1, <1>14 DEF cavars
<1> QED
  BY <1>2, <1>3, <1>4, <1>5, <1>6, <1>7, <1>8, <1>9, <1>10, <1>11, <1>12, <1>13, <1>14,
     EvaluateKeeps, WakeKeeps, AskRebootKeeps, AskFailsKeeps, SaveKeeps, HourKeeps
  DEF CaNext, CalendarWorks

LEMMA CaInvHolds == CaSpec => []CaInv
BY CaInitHolds, CaStepKeeps, PTL DEF CaSpec

(***************************************************************************)
(* The calendar asks for at most one reboot on a day and for none on a day *)
(* with a boot, however long the season is and however often requests go   *)
(* unanswered, the agent dies and the power fails.                         *)
(***************************************************************************)
THEOREM CalendarRebootsOnce == CaSpec => []RebootsAreSpare
<1>1. CaInv => RebootsAreSpare
  BY DEF CaInv
<1> QED
  BY <1>1, CaInvHolds, PTL
=============================================================================
