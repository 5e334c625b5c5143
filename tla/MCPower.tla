------------------------------- MODULE MCPower -------------------------------
(***************************************************************************)
(* The host's power and the screen's, one at a time.  Two boots and two    *)
(* reports are needed for a report of the first boot to arrive late; two   *)
(* days for a reboot to be due again, and an hour on either side.          *)
(***************************************************************************)
EXTENDS PowerAttribution, Calendar

VARIABLE focus

\* The screen is lit by standard, until that is changed.  Nothing is due of a
\* calendar that is not looked at.
MCInit ==
  /\ Init /\ CaInit /\ caCal.std = "on"
  /\ focus \in {"power", "calendar"}
  /\ focus = "power" => caSched.last = "none"

Powers(A) == focus = "power" /\ A /\ UNCHANGED <<cavars, focus>>
Schedules(A) == focus = "calendar" /\ A /\ UNCHANGED <<vars, focus>>

MCNext == Powers(Next) \/ Schedules(CaNext)

all == <<vars, cavars, focus>>

MCFairSpec ==
  /\ MCInit /\ [][MCNext]_all
  /\ WF_all(Powers(SendStatus))
  /\ WF_all(Powers(\E report \in sent : ApplyStatus(report)))
  /\ WF_all(Schedules(MaintainSeasons)) /\ WF_all(Schedules(FetchPlan))
  /\ WF_all(Schedules(CalendarWorks)) /\ WF_all(Schedules(RecoverScreen))
  /\ WF_all(Schedules(GuiStarts)) /\ WF_all(Schedules(BrowserStarts))
  /\ WF_all(Schedules(MachineReboots))
=============================================================================
