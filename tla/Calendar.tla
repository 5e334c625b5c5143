------------------------------ MODULE Calendar ------------------------------
(***************************************************************************)
(* A client's calendar and what it does to the screen: the backend's       *)
(* handlers that write it (calendar.py, organizations.py,                  *)
(* season_service.py), the agent that follows it (calendar_agent.py,       *)
(* display_local_control.py), the broker that reboots for it and the       *)
(* display runtime that keeps the browser running (display_runtime.py).    *)
(*                                                                         *)
(* A day has three hours: morning, open and evening.  One weekday's        *)
(* standard stands for the week's.  The agent works for seconds: an hour   *)
(* may pass between its decision and its first step, and none while a      *)
(* reboot is under way.                                                    *)
(***************************************************************************)
EXTENDS Naturals

CONSTANTS
  CaMaxDays,    \* the days of the season
  CaMaxChanges, \* bound on what people do: to the calendar, to the screen
  CaMaxFaults   \* bound on failures, deaths and a browser that ends

VARIABLES
  caNow,      \* the hour
  caCal,      \* the organization's standard, the client's calendar, and the one before it
  caPlan,     \* the calendar the agent has
  caSched,    \* scheduler-state.json
  caAgent,    \* what the agent is doing
  caScreen,   \* the screen, the browser and the local GUI
  caOverride, \* the hour of a manual command, of this boot
  caBoot,     \* the boot and its day
  caReboot,   \* a reboot under way; ghost: those asked for on each day
  caChanges,
  caFaults

cavars == <<caNow, caCal, caPlan, caSched, caAgent, caScreen, caOverride, caBoot, caReboot,
            caChanges, caFaults>>

Days == 1 .. CaMaxDays
Day(t) == (t - 1) \div 3 + 1
Hour(t) == (t - 1) % 3
Today == Day(caNow)
Entries == {"on", "off"}
Missing == [d \in Days |-> "missing"]
Never == 0

CaInit ==
  /\ caNow = 1
  /\ \E std \in Entries : caCal = [std |-> std, days |-> Missing, before |-> Missing]
  /\ caPlan = Missing
  /\ \E last \in {"none", "on", "off"} :
       caSched = [last |-> last, day |-> Never, boot |-> Never, error |-> "", ready |-> Never]
  /\ caAgent = [at |-> "grace", want |-> "off", then |-> "idle", enforced |-> FALSE]
  /\ caScreen = [power |-> "on", browser |-> "wanted", gui |-> FALSE]
  /\ caOverride = Never
  /\ caBoot = [id |-> 1, day |-> 0]
  /\ caReboot = [pending |-> FALSE, asked |-> [d \in Days |-> 0]]
  /\ caChanges = 0
  /\ caFaults = 0

\* _desired_state
Desired(plan, t) == IF plan[Day(t)] = "on" /\ Hour(t) = 1 THEN "on" ELSE "off"

\* _calendar_boundary_since
BoundarySince(plan, since, t) ==
  \E b \in since + 1 .. t : plan[Day(b)] = "on" /\ Hour(b) # 0

CaFails == caFaults < CaMaxFaults /\ caFaults' = caFaults + 1
CaChanges == caChanges < CaMaxChanges /\ caChanges' = caChanges + 1

-----------------------------------------------------------------------------
(***************************************************************************)
(* The backend's calendar.                                                 *)
(***************************************************************************)
Writes(std, days) ==
  /\ caCal' = [std |-> std, days |-> days, before |-> caCal.days]
  /\ UNCHANGED <<caNow, caPlan, caSched, caAgent, caScreen, caOverride, caBoot, caReboot, caFaults>>

Built(std) == [d \in Days |-> std]
Completed(days, std) == [d \in Days |-> IF days[d] = "missing" THEN std ELSE days[d]]

\* A day that differs from the old standard was set by hand and is left alone.
NewStandard(days, old, new) == [d \in Days |-> IF days[d] = old THEN new ELSE days[d]]

\* maintain_current_and_next_seasons
MaintainSeasons ==
  /\ Completed(caCal.days, caCal.std) # caCal.days
  /\ Writes(caCal.std, Completed(caCal.days, caCal.std))
  /\ UNCHANGED caChanges

SaveMarkedDays ==
  /\ CaChanges
  /\ \E days \in [Days -> Entries] : Writes(caCal.std, days)

UpdateSeasonTimes == CaChanges /\ \E new \in Entries : Writes(new, caCal.days)

\* No row is locked: what was saved since the calendar was read is lost.
ApplySeasonTimes ==
  /\ CaChanges
  /\ \E new \in Entries, seen \in {caCal.days, caCal.before} :
       Writes(new, NewStandard(Completed(seen, caCal.std), caCal.std, new))

ReplaceCalendars == CaChanges /\ \E new \in Entries : Writes(new, Built(new))

ChangeOrganization ==
  /\ CaChanges
  /\ \E new \in Entries, preserve \in BOOLEAN, apply \in BOOLEAN :
       Writes(new, IF ~apply THEN caCal.days
                   ELSE IF caCal.days = Missing \/ ~preserve THEN Built(new)
                   ELSE NewStandard(caCal.days, caCal.std, new))

CalendarIsWritten ==
  SaveMarkedDays \/ UpdateSeasonTimes \/ ApplySeasonTimes \/ ReplaceCalendars \/ ChangeOrganization

-----------------------------------------------------------------------------
(***************************************************************************)
(* The agent.                                                              *)
(***************************************************************************)
CaAt(s) == caAgent.at = s
Goes(s) == caAgent' = [caAgent EXCEPT !.at = s]
CaRest == UNCHANGED <<caNow, caCal, caOverride, caBoot, caChanges>>

GraceIsOver ==
  /\ CaAt("grace") /\ caPlan # Missing
  /\ Goes("idle")
  /\ CaRest /\ UNCHANGED <<caPlan, caSched, caScreen, caReboot, caFaults>>

\* A calendar with days missing is not delivered; one that is known is not sent again.
FetchPlan ==
  /\ caAgent.at \in {"grace", "idle"}
  /\ \A d \in Days : caCal.days[d] # "missing"
  /\ caPlan # caCal.days
  /\ caPlan' = caCal.days
  /\ CaRest /\ UNCHANGED <<caSched, caAgent, caScreen, caReboot, caFaults>>

\* A manual command counts until the next boundary.
Held == caOverride # Never /\ ~BoundarySince(caPlan, caOverride, caNow)

\* _needs_post_reboot_reconciliation
NeedsReconciliation ==
  /\ caSched.last = "on" /\ caSched.day = Today
  /\ caSched.boot \notin {Never, caBoot.id} /\ caSched.ready # caBoot.id

\* What an iteration sets out to do.
Work(d) ==
  IF ~caAgent.enforced /\ d = "off" /\ caSched.last = "off" THEN "off"
  ELSE IF caSched.last = "none" THEN (IF d = "off" THEN "off" ELSE "save")
  ELSE IF ~caAgent.enforced /\ d = "on" /\ NeedsReconciliation THEN "wake"
  ELSE IF d # caSched.last THEN (IF d = "off" THEN "off" ELSE "wake")
  ELSE "idle"

Evaluate ==
  LET d == Desired(caPlan, caNow) IN
  /\ CaAt("idle")
  /\ caOverride' = IF Held THEN caOverride ELSE Never
  /\ caAgent' = IF Held THEN caAgent
                ELSE [at |-> Work(d), want |-> d, then |-> "save",
                      enforced |-> caAgent.enforced \/ Work(d) = "idle"]
  /\ UNCHANGED <<caNow, caCal, caBoot, caChanges, caPlan, caSched, caScreen, caReboot, caFaults>>

\* _calendar_reboot_required
RebootRequired == caBoot.day # Today /\ caSched.day # Today

\* The request is saved before the broker is asked.
Mut_Wake ==
  /\ CaAt("wake")
  /\ Goes(IF RebootRequired THEN "ask" ELSE "light")
  /\ CaRest /\ UNCHANGED <<caSched, caPlan, caScreen, caReboot, caFaults>>

Wake ==
  /\ CaAt("wake")
  /\ IF RebootRequired
     THEN /\ caSched' = [caSched EXCEPT !.day = Today, !.boot = caBoot.id, !.error = ""]
          /\ Goes("ask")
     ELSE Goes("light") /\ UNCHANGED caSched
  /\ CaRest /\ UNCHANGED <<caPlan, caScreen, caReboot, caFaults>>

BrokerAccepts == caReboot' = [pending |-> TRUE, asked |-> [caReboot.asked EXCEPT ![Today] = @ + 1]]

AskReboot ==
  /\ CaAt("ask")
  /\ BrokerAccepts
  /\ Goes("save")
  /\ CaRest /\ UNCHANGED <<caPlan, caSched, caScreen, caFaults>>

\* Without an answer the reboot may come all the same; the screen is lit.
AskFails ==
  /\ CaAt("ask")
  /\ CaFails
  /\ BrokerAccepts \/ UNCHANGED caReboot
  /\ caSched' = [caSched EXCEPT !.error = "reboot_request_failed"]
  /\ caAgent' = [caAgent EXCEPT !.at = "light", !.then = "idle"]
  /\ CaRest /\ UNCHANGED <<caPlan, caScreen>>

\* From here to StartBrowser, and from StopBrowser to PowerOff, the agent has the lock.
PowerOn ==
  /\ CaAt("light")
  /\ caScreen' = [caScreen EXCEPT !.power = "on"]
  /\ Goes("start")
  /\ CaRest /\ UNCHANGED <<caPlan, caSched, caReboot, caFaults>>

StartBrowser ==
  /\ CaAt("start")
  /\ caScreen' = [caScreen EXCEPT !.browser = "running"]
  /\ Goes(caAgent.then)
  /\ CaRest /\ UNCHANGED <<caPlan, caSched, caReboot, caFaults>>

StopBrowser ==
  /\ CaAt("off")
  /\ caScreen' = [caScreen EXCEPT !.browser = "stopped"]
  /\ Goes("dark")
  /\ CaRest /\ UNCHANGED <<caPlan, caSched, caReboot, caFaults>>

PowerOff ==
  /\ CaAt("dark")
  /\ caScreen' = [caScreen EXCEPT !.power = "off"]
  /\ Goes("save")
  /\ CaRest /\ UNCHANGED <<caPlan, caSched, caReboot, caFaults>>

\* A call that raised: the next iteration tries again.
Mut_CallFails ==
  /\ caAgent.at \in {"light", "start", "off", "dark"}
  /\ CaFails
  /\ \/ UNCHANGED caScreen
     \/ CaAt("start") /\ caScreen' = [caScreen EXCEPT !.browser = "wanted"]
  /\ Goes(caAgent.then)
  /\ CaRest /\ UNCHANGED <<caPlan, caSched, caReboot>>

CallFails ==
  /\ caAgent.at \in {"light", "start", "off", "dark"}
  /\ CaFails
  /\ \/ UNCHANGED caScreen
     \/ CaAt("start") /\ caScreen' = [caScreen EXCEPT !.browser = "wanted"]
  /\ Goes("idle")
  /\ CaRest /\ UNCHANGED <<caPlan, caSched, caReboot>>

SaveTransition ==
  /\ CaAt("save")
  /\ caSched' = [caSched EXCEPT !.last = caAgent.want,
                                !.ready = IF caAgent.want = "on" /\ @ # caBoot.id /\ NeedsReconciliation
                                          THEN caBoot.id ELSE @]
  /\ caAgent' = [caAgent EXCEPT !.at = "idle", !.enforced = TRUE]
  /\ CaRest /\ UNCHANGED <<caPlan, caScreen, caReboot, caFaults>>

\* The reboot has not been seen for two minutes: once, the screen is lit.
RecoverScreen ==
  /\ CaAt("idle") /\ caPlan # Missing
  /\ Desired(caPlan, caNow) = "on" /\ ~Held /\ Work("on") = "idle"
  /\ caSched.day = Today /\ caSched.boot = caBoot.id
  /\ caSched.error # "reboot_not_observed"
  /\ caSched' = [caSched EXCEPT !.error = "reboot_not_observed"]
  /\ caAgent' = [caAgent EXCEPT !.at = "light", !.then = "idle"]
  /\ CaRest /\ UNCHANGED <<caPlan, caScreen, caReboot, caFaults>>

CalendarAgentDies ==
  /\ ~CaAt("grace")
  /\ CaFails
  /\ caAgent' = [caAgent EXCEPT !.at = "grace", !.enforced = FALSE]
  /\ CaRest /\ UNCHANGED <<caPlan, caSched, caScreen, caReboot>>

-----------------------------------------------------------------------------
(***************************************************************************)
(* Commands of people, the runtime, the machine and time.                  *)
(***************************************************************************)
CaLocked == caAgent.at \in {"start", "dark"}
ByHand(screen) ==
  /\ ~CaLocked
  /\ CaChanges
  /\ caScreen' = screen
  /\ UNCHANGED <<caNow, caCal, caPlan, caSched, caAgent, caBoot, caReboot>>

SetDisplayPower ==
  /\ \/ ByHand([caScreen EXCEPT !.power = "on"])
     \/ ByHand([caScreen EXCEPT !.power = "off", !.browser = "stopped"])
  /\ caOverride' = caNow
  /\ UNCHANGED caFaults

CommandBrowser ==
  /\ \E b \in {"running", "stopped"} : ByHand([caScreen EXCEPT !.browser = b])
  /\ caOverride' = caNow
  /\ UNCHANGED caFaults

\* The override is recorded last.
PowerCommandFails ==
  /\ ByHand([caScreen EXCEPT !.browser = "stopped"])
  /\ CaFails
  /\ UNCHANGED caOverride

RuntimeDoes(screen) ==
  /\ caScreen' = screen
  /\ CaRest /\ UNCHANGED <<caPlan, caSched, caAgent, caReboot>>

GuiStarts ==
  /\ ~caScreen.gui
  /\ RuntimeDoes([caScreen EXCEPT !.gui = TRUE]) /\ UNCHANGED caFaults

BrowserStarts ==
  /\ caScreen.gui /\ caScreen.browser = "wanted"
  /\ RuntimeDoes([caScreen EXCEPT !.browser = "running"]) /\ UNCHANGED caFaults

\* A browser that is closed stays closed; one that crashes is started again.
BrowserExits ==
  /\ caScreen.browser = "running"
  /\ \E b \in {"closed", "wanted"} : RuntimeDoes([caScreen EXCEPT !.browser = b])
  /\ CaFails

GuiExits == caScreen.gui /\ RuntimeDoes([caScreen EXCEPT !.gui = FALSE]) /\ CaFails

RuntimeRestarts == RuntimeDoes([caScreen EXCEPT !.gui = FALSE, !.browser = "wanted"]) /\ CaFails

CaBoots ==
  /\ caBoot' = [id |-> caBoot.id + 1, day |-> Today]
  /\ caScreen' = [power |-> "on", browser |-> "wanted", gui |-> FALSE]
  /\ caAgent' = [caAgent EXCEPT !.at = "grace", !.enforced = FALSE]
  /\ caOverride' = Never
  /\ caReboot' = [caReboot EXCEPT !.pending = FALSE]
  /\ UNCHANGED <<caNow, caCal, caPlan, caSched, caChanges>>

MachineReboots == caReboot.pending /\ CaBoots /\ UNCHANGED caFaults
PowerReturns == CaBoots /\ CaFails

\* systemd gives the job up after it was accepted.
RebootIsDropped ==
  /\ caReboot.pending
  /\ CaFails
  /\ caReboot' = [caReboot EXCEPT !.pending = FALSE]
  /\ CaRest /\ UNCHANGED <<caPlan, caSched, caAgent, caScreen>>

HourPasses ==
  /\ caNow < 3 * CaMaxDays
  /\ \/ caAgent.at \in {"grace", "idle"}
     \/ caAgent.at \in {"off", "wake"} /\ caAgent.want = Desired(caPlan, caNow)
  /\ ~caReboot.pending
  /\ caNow' = caNow + 1
  /\ UNCHANGED <<caCal, caPlan, caSched, caAgent, caScreen, caOverride, caBoot, caReboot, caChanges, caFaults>>

-----------------------------------------------------------------------------
CalendarWorks ==
  \/ GraceIsOver \/ Evaluate \/ Wake \/ AskReboot \/ PowerOn \/ StartBrowser
  \/ StopBrowser \/ PowerOff \/ SaveTransition

CaNext ==
  \/ MaintainSeasons \/ CalendarIsWritten \/ FetchPlan \/ CalendarWorks \/ RecoverScreen
  \/ AskFails \/ CallFails \/ CalendarAgentDies
  \/ SetDisplayPower \/ CommandBrowser \/ PowerCommandFails
  \/ GuiStarts \/ BrowserStarts \/ BrowserExits \/ GuiExits \/ RuntimeRestarts
  \/ MachineReboots \/ PowerReturns \/ RebootIsDropped \/ HourPasses

CaSpec == CaInit /\ [][CaNext]_cavars

-----------------------------------------------------------------------------
(***************************************************************************)
(* The calendar asks for at most one reboot on a day, and for none on a    *)
(* day with a boot, also when a request is not answered, the machine does  *)
(* not reboot or the agent dies with the request on its way                *)
(* (_calendar_reboot_required).                                            *)
(***************************************************************************)
RebootsAreSpare ==
  /\ \A d \in Days : caReboot.asked[d] <= 1
  /\ caReboot.pending => caBoot.day # Today

Carried(d) ==
  IF d = "on" THEN caScreen.power = "on" /\ caScreen.browser \in {"running", "closed"}
              ELSE caScreen.power = "off"

\* The calendar in force asks for something else than was last carried out.
Due(d) ==
  /\ Desired(caCal.days, caNow) = d
  /\ caOverride = Never /\ ~CaAt("save")
  /\ caSched.last \in {"on", "off"}
  /\ caSched.last # d \/ (d = "off" /\ ~caAgent.enforced)

(***************************************************************************)
(* What the calendar asks for is carried out within its hour, whatever     *)
(* fails once, dies or reboots meanwhile, unless somebody takes over by    *)
(* hand or the calendar is changed (main of calendar_agent.py).            *)
(***************************************************************************)
ScheduleIsCarriedOut ==
  \A d \in {"on", "off"} :
    Due(d) ~> (Carried(d) \/ caOverride # Never \/ Desired(caCal.days, caNow) # d)
=============================================================================
