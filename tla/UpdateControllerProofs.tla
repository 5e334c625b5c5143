----------------------- MODULE UpdateControllerProofs -----------------------
(***************************************************************************)
(* The safety of the update plane, for any set of releases and deployments *)
(* and any order of requests, reports, crashes, failing steps and losses   *)
(* of power.                                                               *)
(*                                                                         *)
(* First the release transaction by itself; then the update plane as a     *)
(* whole (updater, controller, operator, backend), of which every step is  *)
(* one of the transaction or leaves it alone; then the updater and its     *)
(* backend; and last the outcomes that the controller reports.             *)
(*                                                                         *)
(* Where LateFaults is assumed to be FALSE, a step that fails after boot   *)
(* has been enabled is left out: it is rolled back with boot still open    *)
(* and with a copy of the state that says the release is active.           *)
(***************************************************************************)
EXTENDS UpdateController, WellFoundedInduction, TLAPS

EarlyGo == {"disable", "quiesce", "remove", "define", "switch", "start", "health", "enable"}
Active == EarlyGo \cup LateSteps \cup RollbackSteps \cup {"r_quiesce", "r_commit"}
RTSteps == Active \cup {"idle", "publish"}

Endings == {"automatic_rollback_completed", "automatic_rollback_failed"}
Entry == [event : Endings, rel : Releases]
Saved == [highest : Nat, active : Maybe, previous : Maybe, staged : Maybe,
          intent : Intents \cup {None}, installed : SUBSET Releases,
          healthy : SUBSET Releases, history : Seq(Entry)]
Held == [link : Maybe, defs : Maybe, running : Maybe, enabled : BOOLEAN, timer : BOOLEAN,
         reporters : BOOLEAN, handoff : {"none", "activating", "committed"}]

\* RTTypeOK with the domains of the records.  The process never works on
\* anything else than what is saved.
Types ==
  /\ disk \subseteq Releases
  /\ state \in Saved
  /\ mem = state
  /\ host \in Held
  /\ op \in [step : RTSteps, rel : Maybe, prev : Maybe, by : Callers]
  /\ op.step = "publish" => op.rel \in Releases

\* An activation in progress is the one that the intent on disk names.
IntentIsOn ==
  op.step \in Active =>
    /\ op.rel \in Releases
    /\ state.active = op.prev
    /\ state.intent = [rel |-> op.rel, prev |-> op.prev]

\* The active link is one of the two releases of the intent.
LinkIsNamed ==
  IF state.intent = None
    THEN host.link = state.active
    ELSE /\ state.intent.prev = state.active
         /\ host.link \in {state.active, state.intent.rel}

\* How far the host is at each step.
HostIsAt ==
  /\ op.step \in {"switch", "start", "health", "enable"} => host.defs = op.rel
  /\ op.step \in {"start", "health", "enable", "open", "commit"} => host.link = op.rel
  /\ op.step \in {"r_define", "r_switch", "r_start", "r_health", "r_enable"} => op.prev # None
  /\ op.step \in {"r_switch", "r_start", "r_health", "r_enable"} => host.defs = op.prev
  /\ op.step \in {"r_start", "r_health", "r_enable", "r_commit"} => host.link = op.prev
  /\ op.step \in {"r_remove", "p_define", "p_disable"} /\ op.prev = None => host.link = None
  /\ op.step \in {"p_unlink", "p_define", "p_disable"} => op.prev = None
  /\ op.step = "enable" => op.rel \in state.healthy
  /\ op.step = "r_enable" => op.prev \in state.healthy

\* Boot is open only outside of the steps that change what is booted.
OpenOutside ==
  host.enabled => op.step \in {"idle", "publish", "disable", "open", "commit", "r_commit"}

IInv ==
  /\ Types
  /\ IntentIsOn
  /\ LinkIsNamed
  /\ HostIsAt
  /\ OpenOutside
  /\ BootFailClosed

-----------------------------------------------------------------------------
\* Entries and records leave alone what the invariant goes by.
SameActivation(s, t) == t.active = s.active /\ t.intent = s.intent

LEMMA NoneIsNoIntent == None \notin Intents
BY ReleaseAssumption DEF Intents, Maybe

LEMMA ToldTypes ==
  ASSUME NEW s \in Saved, NEW r \in Releases, NEW e \in Endings
  PROVE  /\ Told(s, e, r) \in Saved
         /\ SameActivation(s, Told(s, e, r))
         /\ Told(s, e, r).healthy = s.healthy
<1>1. Append(s.history, [event |-> e, rel |-> r]) \in Seq(Entry)
  BY DEF Saved, Entry
<1>2. \A h \in Seq(Entry) :
        LET t == [s EXCEPT !.history = h] IN
        t \in Saved /\ SameActivation(s, t) /\ t.healthy = s.healthy
  BY DEF Saved, SameActivation
<1> QED
  BY <1>1, <1>2 DEF Told

LEMMA SavedTypes ==
  ASSUME NEW s \in Saved, NEW r \in Releases
  PROVE  /\ Healthy(s, r) \in Saved
         /\ SameActivation(s, Healthy(s, r))
         /\ Healthy(s, r).healthy = s.healthy \cup {r}
         /\ Recorded(s, r) \in Saved
         /\ SameActivation(s, Recorded(s, r))
         /\ Recorded(s, r).healthy = s.healthy
BY ReleaseAssumption DEF Healthy, Recorded, Saved, Maybe, SameActivation

LEMMA InitHolds == RTInit => IInv
BY ReleaseAssumption
   DEF RTInit, IInv, Types, IntentIsOn, LinkIsNamed, HostIsAt, OpenOutside, BootFailClosed,
       InitialState, InitialHost, Idle, Saved, Held, Maybe, RTSteps, Active, EarlyGo, LateSteps,
       RollbackSteps, Callers

\* Steps that leave the state and the host alone, and end the transaction or
\* begin the publication of a release.
LEMMA NothingHappens ==
  ASSUME IInv, UNCHANGED <<state, host>>, mem' = state, disk' \subseteq Releases,
         op' \in [step : {"idle", "publish"}, rel : Maybe, prev : Maybe, by : Callers],
         op'.step = "publish" => op'.rel \in Releases
  PROVE  IInv'
BY DEF IInv, Types, IntentIsOn, LinkIsNamed, HostIsAt, OpenOutside, BootFailClosed,
       RTSteps, Active, EarlyGo, LateSteps, RollbackSteps, Maybe, Held, Saved

LEMMA RequestedStep == IInv /\ Requested => IInv'
<1> SUFFICES ASSUME IInv, Requested PROVE IInv'
  OBVIOUS
<1> USE DEF IInv, Types, Maybe
<1>a. ASSUME NEW r \in Releases, Save([state EXCEPT !.staged = r]) \/ Save(Recorded(state, r)),
             op = Idle, UNCHANGED <<disk, op, host>>
      PROVE  IInv'
  <2>1. /\ state' \in Saved /\ mem' = state'
        /\ state'.active = state.active /\ state'.intent = state.intent
        /\ state'.healthy = state.healthy
    <3> DEFINE s == [state EXCEPT !.staged = r]
    <3>1. s \in Saved /\ s.active = state.active /\ s.intent = state.intent /\ s.healthy = state.healthy
      BY DEF Saved
    <3>2. CASE Save(s)
      BY <3>1, <3>2 DEF Save
    <3>3. CASE Save(Recorded(state, r))
      BY <3>3, SavedTypes DEF Save, SameActivation
    <3> QED
      BY <1>a, <3>2, <3>3
  <2> QED
    BY <1>a, <2>1 DEF Idle, IntentIsOn, LinkIsNamed, HostIsAt, OpenOutside, BootFailClosed,
                      Active, EarlyGo, LateSteps, RollbackSteps
<1>b. ASSUME NEW r \in Releases, NEW by \in Callers, NEW approved \in BOOLEAN,
             Activate(r, by, approved)
      PROVE  IInv'
  <2>1. CASE ActivationResume(r, by, approved)
    <3>1. /\ state.intent = [rel |-> r, prev |-> state.active]
          /\ state.active \in Maybe
      BY <2>1, ReleaseAssumption DEF ActivationResume, Saved, Intents
    <3>2. op' = [step |-> "disable", rel |-> r, prev |-> state.active, by |-> by]
      BY <2>1 DEF ActivationResume, Start
    <3> QED
      BY <2>1, <3>1, <3>2
         DEF ActivationResume, Activatable, Idle, RTSteps, IntentIsOn, LinkIsNamed, HostIsAt,
             OpenOutside, BootFailClosed, Active, EarlyGo, LateSteps, RollbackSteps
  <2>2. CASE ActivationIntent(r, by, approved)
    <3>1. /\ state' = [state EXCEPT !.intent = [rel |-> r, prev |-> host.link]]
          /\ mem' = state' /\ state.active = host.link /\ host.link \in Maybe
          /\ op = Idle /\ UNCHANGED <<disk, host>>
          /\ op' = [step |-> "disable", rel |-> r, prev |-> host.link, by |-> by]
      BY <2>2 DEF ActivationIntent, Activatable, Start, Save, Held
    <3>2. /\ state' \in Saved
          /\ state'.intent = [rel |-> r, prev |-> host.link] /\ state'.intent # None
          /\ state'.active = state.active /\ state'.healthy = state.healthy
      BY <3>1, NoneIsNoIntent DEF Saved, Intents
    <3> QED
      BY <3>1, <3>2, SMTT(30)
         DEF Idle, RTSteps, IntentIsOn, LinkIsNamed, HostIsAt,
             OpenOutside, BootFailClosed, Active, EarlyGo, LateSteps, RollbackSteps
  <2> QED
    BY <1>b, <2>1, <2>2 DEF Activate
<1>1. ASSUME NEW r \in Releases, StageIdempotent(r) \/ StageRecovered(r) PROVE IInv'
  BY <1>1, <1>a DEF StageIdempotent, StageRecovered, MayStage
<1>2. ASSUME NEW r \in Releases, InstallStagedDefinitions(r) PROVE IInv'
  BY <1>2 DEF InstallStagedDefinitions, Idle, Held, IntentIsOn, LinkIsNamed, HostIsAt, OpenOutside,
              BootFailClosed, Active, EarlyGo, LateSteps, RollbackSteps
<1>3. ASSUME NEW r \in Releases, InstallStableUpdaterHost(r) PROVE IInv'
  BY <1>3 DEF InstallStableUpdaterHost, Idle, Held, IntentIsOn, LinkIsNamed, HostIsAt, OpenOutside,
              BootFailClosed, Active, EarlyGo, LateSteps, RollbackSteps
<1>4. ASSUME NEW r \in Releases, ManualRollback(r) PROVE IInv'
  BY <1>4, <1>b DEF ManualRollback, Callers
<1>5. ASSUME NEW r \in Releases, NEW by \in Callers, PublishRelease(r, by) PROVE IInv'
  BY <1>5, NothingHappens DEF PublishRelease
<1> QED
  BY <1>1, <1>2, <1>3, <1>4, <1>5, <1>b DEF Requested

LEMMA ForwardStep == IInv /\ Forward => IInv'
<1> SUFFICES ASSUME IInv, Forward PROVE IInv'
  OBVIOUS
<1> USE DEF IInv, Types, Maybe, Step, RTSteps, Active, EarlyGo, LateSteps, RollbackSteps,
            IntentIsOn, LinkIsNamed, HostIsAt, OpenOutside, BootFailClosed, Held
<1>1. CASE DisableTarget
  BY <1>1 DEF DisableTarget
<1>2. CASE QuiesceRuntime
  BY <1>2 DEF QuiesceRuntime
<1>3. CASE RemoveManagedUnits
  BY <1>3 DEF RemoveManagedUnits
<1>4. CASE ApplyDefinitions
  BY <1>4 DEF ApplyDefinitions
<1>5. CASE SwitchActive
  <2>1. state.intent # None
    BY <1>5, NoneIsNoIntent DEF SwitchActive, Intents
  <2> QED
    BY <1>5, <2>1 DEF SwitchActive
<1>6. CASE StartTarget
  BY <1>6 DEF StartTarget
<1>7. CASE HealthCheck
  <2>1. /\ state' \in Saved /\ mem' = state'
        /\ state'.active = state.active /\ state'.intent = state.intent
        /\ state'.healthy = state.healthy \cup {op.rel}
    BY <1>7, SavedTypes DEF HealthCheck, Save, SameActivation
  <2> QED
    BY <1>7, <2>1 DEF HealthCheck
<1>8. CASE EnableTarget
  BY <1>8, ReleaseAssumption, ZenonT(60) DEF EnableTarget
<1>9. CASE OpenUpdatePlane
  BY <1>9 DEF OpenUpdatePlane
<1>10. CASE CommitActivation
  <2>1. /\ state' \in Saved /\ mem' = state'
        /\ state'.active = op.rel /\ state'.intent = None
        /\ state'.healthy = state.healthy
    BY <1>10 DEF CommitActivation, Save, Activated, Saved
  <2> QED
    BY <1>10, <2>1 DEF CommitActivation, Idle, Callers
<1>11. CASE StageCommit
  <2>1. /\ state' \in Saved /\ mem' = state'
        /\ state'.active = state.active /\ state'.intent = state.intent
        /\ state'.healthy = state.healthy
    BY <1>11, SavedTypes DEF StageCommit, Save, SameActivation
  <2> QED
    BY <1>11, <2>1 DEF StageCommit, Idle, Callers
<1> QED
  BY <1>1, <1>2, <1>3, <1>4, <1>5, <1>6, <1>7, <1>8, <1>9, <1>10, <1>11 DEF Forward

LEMMA BackwardStep == IInv /\ Backward => IInv'
<1> SUFFICES ASSUME IInv, Backward PROVE IInv'
  OBVIOUS
<1> USE DEF IInv, Types, Maybe, Step, RTSteps, Active, EarlyGo, LateSteps, RollbackSteps,
            IntentIsOn, LinkIsNamed, HostIsAt, OpenOutside, BootFailClosed, Held
<1>1. CASE RollbackQuiesce
  BY <1>1, ZenonT(60) DEF RollbackQuiesce
<1>2. CASE RollbackRemoveUnits
  BY <1>2 DEF RollbackRemoveUnits
<1>3. CASE RollbackDefinitions
  BY <1>3 DEF RollbackDefinitions
<1>4. CASE RollbackSwitch
  <2>1. state.intent # None
    BY <1>4, NoneIsNoIntent DEF RollbackSwitch, Intents
  <2> QED
    BY <1>4, <2>1 DEF RollbackSwitch
<1>5. CASE RollbackStart
  BY <1>5 DEF RollbackStart
<1>6. CASE RollbackHealth
  <2>1. /\ state' \in Saved /\ mem' = state'
        /\ state'.active = state.active /\ state'.intent = state.intent
        /\ state'.healthy = state.healthy \cup {op.prev}
    BY <1>6, SavedTypes DEF RollbackHealth, Save, SameActivation
  <2> QED
    BY <1>6, <2>1 DEF RollbackHealth
<1>7. CASE RollbackEnable
  BY <1>7, ReleaseAssumption DEF RollbackEnable
<1>8. CASE PendingUnlink
  <2>1. state.intent # None
    BY <1>8, NoneIsNoIntent DEF PendingUnlink, Intents
  <2> QED
    BY <1>8, <2>1 DEF PendingUnlink
<1>9. CASE PendingDefinitions
  BY <1>9 DEF PendingDefinitions
<1>10. CASE PendingDisable
  BY <1>10 DEF PendingDisable
<1>11. CASE RollbackCommit
  <2> DEFINE over == [mem EXCEPT !.active = op.prev, !.previous = None, !.intent = None]
  <2>1. /\ over \in Saved
        /\ over.active = op.prev /\ over.intent = None /\ over.healthy = state.healthy
    BY DEF Saved
  <2> HIDE DEF over
  <2>2. /\ state' \in Saved /\ mem' = state'
        /\ state'.active = op.prev /\ state'.intent = None
        /\ state'.healthy = state.healthy
    <3> DEFINE e == "automatic_rollback_completed"
    <3>1. e \in Endings /\ op.rel \in Releases
      BY <1>11 DEF RollbackCommit, Endings
    <3>2. state' = Told(over, e, op.rel) /\ mem' = state'
      BY <1>11 DEF RollbackCommit, Save, over
    <3>3. /\ Told(over, e, op.rel) \in Saved
          /\ SameActivation(over, Told(over, e, op.rel))
          /\ Told(over, e, op.rel).healthy = state.healthy
      BY <3>1, <2>1, ToldTypes
    <3> QED
      BY <3>2, <3>3, <2>1 DEF SameActivation
  <2> QED
    BY <1>11, <2>2 DEF RollbackCommit, Idle, Callers
<1> QED
  BY <1>1, <1>2, <1>3, <1>4, <1>5, <1>6, <1>7, <1>8, <1>9, <1>10, <1>11 DEF Backward

\* Without late faults: none strikes between the opening of boot and the end.
LEMMA FaultStep == ~LateFaults /\ IInv /\ Faults => IInv'
<1> SUFFICES ASSUME ~LateFaults, IInv, Faults PROVE IInv'
  OBVIOUS
<1> USE DEF IInv, Types, Maybe, RTSteps, Active, EarlyGo, LateSteps, RollbackSteps,
            IntentIsOn, LinkIsNamed, HostIsAt, OpenOutside, BootFailClosed, Held
<1>1. CASE ActivationFails
  BY <1>1 DEF ActivationFails, EarlySteps
<1>2. CASE GiveUp
  BY <1>2, NothingHappens DEF GiveUp, Idle, Callers
<1>3. CASE RollbackFails
  <2>1. /\ state' \in Saved /\ mem' = state'
        /\ state'.active = state.active /\ state'.intent = state.intent
        /\ state'.healthy = state.healthy
    <3> DEFINE e == "automatic_rollback_failed"
    <3>1. e \in Endings /\ op.rel \in Releases
      BY <1>3 DEF RollbackFails, Endings
    <3>2. state' = Told(state, e, op.rel) /\ mem' = state'
      BY <1>3 DEF RollbackFails, Save
    <3>3. /\ Told(state, e, op.rel) \in Saved
          /\ SameActivation(state, Told(state, e, op.rel))
          /\ Told(state, e, op.rel).healthy = state.healthy
      BY <3>1, ToldTypes
    <3> QED
      BY <3>2, <3>3 DEF SameActivation
  <2> QED
    BY <1>3, <2>1 DEF RollbackFails, Idle, Callers
<1> QED
  BY <1>1, <1>2, <1>3 DEF Faults

LEMMA Interrupted == IInv /\ (Crash \/ Reboot) => IInv'
<1> SUFFICES ASSUME IInv, Crash \/ Reboot PROVE IInv'
  OBVIOUS
<1>1. CASE Crash
  BY <1>1, NothingHappens DEF Crash, Idle, Callers, Maybe, IInv, Types
<1>2. CASE Reboot
  BY <1>2 DEF Reboot, Idle, Callers, Maybe, IInv, Types, IntentIsOn, LinkIsNamed, HostIsAt,
              OpenOutside, BootFailClosed, RTSteps, Active, EarlyGo, LateSteps, RollbackSteps, Held
<1> QED
  BY <1>1, <1>2

LEMMA Unchanged == IInv /\ UNCHANGED rtvars => IInv'
BY DEF rtvars, IInv, Types, IntentIsOn, LinkIsNamed, HostIsAt, OpenOutside, BootFailClosed

(***************************************************************************)
(* The invariant that carries both theorems below.                         *)
(***************************************************************************)
THEOREM TransactionInvariant == ASSUME ~LateFaults PROVE RTSpec => []IInv
<1>1. IInv /\ [RTNext]_rtvars => IInv'
  BY RequestedStep, ForwardStep, BackwardStep, FaultStep, Interrupted, Unchanged DEF RTNext
<1> QED
  BY InitHolds, <1>1, PTL DEF RTSpec

(***************************************************************************)
(* Boot is fail-closed, whenever power is lost: what starts is one release *)
(* whose health check was saved (_activate_release).                       *)
(***************************************************************************)
THEOREM BootStaysClosed == ASSUME ~LateFaults PROVE RTSpec => []BootFailClosed
<1>1. IInv => BootFailClosed
  BY DEF IInv
<1> QED
  BY <1>1, TransactionInvariant, PTL

(***************************************************************************)
(* Wherever a transaction was cut off, the intent on disk says how to go   *)
(* on (activate_release).                                                  *)
(***************************************************************************)
THEOREM CrashIsResumable == ASSUME ~LateFaults PROVE RTSpec => []Resumable
<1>1. IInv => Resumable
  BY DEF IInv, LinkIsNamed, Resumable
<1> QED
  BY <1>1, TransactionInvariant, PTL

-----------------------------------------------------------------------------
(***************************************************************************)
(* The update plane implements the release transaction.                    *)
(***************************************************************************)
\* A run that has begun is about a deployment that exists.
RunKnown ==
  /\ crun = [step |-> crun.step, dep |-> crun.dep, seen |-> crun.seen]
  /\ crun.step # "idle" => crun.dep \in Deps

LEMMA RunInit == Init => RunKnown
BY DEF Init, RunKnown, NoCRun

LEMMA RunEnds == crun' = NoCRun => RunKnown'
BY DEF RunKnown, NoCRun

LEMMA RunGoesOn ==
  ASSUME RunKnown, crun.step # "idle", NEW s, crun' = [crun EXCEPT !.step = s]
  PROVE  RunKnown'
BY DEF RunKnown

LEMMA RunSeesMore ==
  ASSUME RunKnown, crun.step # "idle", NEW s, NEW b,
         crun' = [crun EXCEPT !.step = s, !.seen = b]
  PROVE  RunKnown'
BY DEF RunKnown

LEMMA RunStays == RunKnown /\ UNCHANGED crun => RunKnown'
BY DEF RunKnown

LEMMA RunStepKnown == RunKnown /\ RunStep => RunKnown'
<1> SUFFICES ASSUME RunKnown, RunStep PROVE RunKnown'
  OBVIOUS
<1>1. CASE SecureIngest
  BY <1>1, RunEnds, RunGoesOn DEF SecureIngest, EndRun, CGoto
<1>2. CASE StageVerified
  BY <1>2, RunEnds, RunGoesOn DEF StageVerified, EndRun, CGoto
<1>3. CASE MarkStaged
  BY <1>3, RunEnds, RunGoesOn DEF MarkStaged, EndRun, CGoto
<1>4. CASE ReportStaged
  BY <1>4, RunEnds, RunSeesMore DEF ReportStaged
<1>5. CASE AuthorizeActivation
  BY <1>5, RunEnds, RunSeesMore DEF AuthorizeActivation, EndRun
<1>6. CASE Reconcile
  <2>1. crun.step # "idle" /\ (crun' = NoCRun \/ \E s : crun' = [crun EXCEPT !.step = s])
    BY <1>6, Zenon DEF Reconcile, EndRun, CGoto
  <2> QED
    BY <2>1, RunEnds, RunGoesOn
<1>7. CASE MarkOutcome
  BY <1>7, RunEnds, RunGoesOn DEF MarkOutcome, CGoto
<1>8. CASE ReportOutcome
  BY <1>8, RunEnds, RunStays DEF ReportOutcome
<1> QED
  BY <1>1, <1>2, <1>3, <1>4, <1>5, <1>6, <1>7, <1>8 DEF RunStep

LEMMA RunNext == RunKnown /\ [Next]_vars => RunKnown'
<1> SUFFICES ASSUME RunKnown, [Next]_vars PROVE RunKnown'
  OBVIOUS
<1>1. CASE UNCHANGED vars
  BY <1>1, RunStays DEF vars, cvars
<1>2. CASE Fault
  BY <1>2, RunEnds, RunStays
     DEF Fault, TransactionFault, OperatorRollback, Kill, PowerLoss, LostAnswer, Carried, cvars
<1>3. CASE Controller
  <2>1. CASE PollInactive
    BY <2>1, RunStays DEF PollInactive
  <2>2. ASSUME NEW d \in Deps, Poll(d) PROVE RunKnown'
    BY <2>2 DEF Poll, NoCRun, RunKnown
  <2> QED
    BY <1>3, <2>1, <2>2, RunStepKnown DEF Controller
<1>4. CASE Transact \/ Install
  BY <1>4, RunStays DEF Transact, Install, Carried, cvars
<1>5. CASE UNCHANGED cvars
  BY <1>5, RunStays DEF cvars
<1> QED
  BY <1>1, <1>2, <1>3, <1>4, <1>5 DEF Next

-----------------------------------------------------------------------------
LEMMA RunStepIsLocal == RunKnown /\ RunStep => [RTNext]_rtvars
<1> SUFFICES ASSUME RunKnown, RunStep PROVE RTNext \/ UNCHANGED rtvars
  BY DEF RTNext
<1>1. crun.step # "idle" => Rel \in Releases
  BY ControllerAssumption DEF RunKnown, Rel
<1>2. CASE StageVerified
  <2>1. Rel \in Releases
    BY <1>1, <1>2 DEF StageVerified
  <2>2. \/ UNCHANGED rtvars
        \/ StageIdempotent(Rel) \/ StageRecovered(Rel) \/ PublishRelease(Rel, "controller")
    BY <1>2 DEF StageVerified
  <2> QED
    BY <2>1, <2>2 DEF RTNext, Requested, Callers
<1>3. CASE Reconcile
  <2>1. Rel \in Releases
    BY <1>1, <1>3 DEF Reconcile
  <2>2. UNCHANGED rtvars \/ Activate(Rel, "controller", FALSE)
    BY <1>3, Zenon DEF Reconcile, Local
  <2> QED
    BY <2>1, <2>2 DEF RTNext, Requested, Callers
<1> QED
  BY <1>2, <1>3
     DEF RunStep, SecureIngest, MarkStaged, ReportStaged, AuthorizeActivation, MarkOutcome,
         ReportOutcome, Local

LEMMA InstallIsLocal == Install => RTNext
<1> SUFFICES ASSUME Install PROVE RTNext
  OBVIOUS
<1>1. First \in Releases
  BY ControllerAssumption
<1> QED
  BY <1>1 DEF Install, RTNext, Requested, Callers

LEMMA FaultIsLocal == Fault => [RTNext]_rtvars
BY DEF Fault, TransactionFault, OperatorRollback, Kill, PowerLoss, LostAnswer, Local,
       RTNext, Requested

LEMMA NextIsLocal == RunKnown /\ [Next]_vars => [RTNext]_rtvars
<1> SUFFICES ASSUME RunKnown, [Next]_vars PROVE [RTNext]_rtvars
  OBVIOUS
<1>1. CASE UNCHANGED vars
  BY <1>1 DEF vars
<1>2. CASE Controller
  BY <1>2, RunStepIsLocal DEF Controller, PollInactive, Poll
<1>3. CASE Transact
  BY <1>3 DEF Transact, RTNext
<1> QED
  BY <1>1, <1>2, <1>3, InstallIsLocal, FaultIsLocal DEF Next

(***************************************************************************)
(* The update plane implements the release transaction: the controller     *)
(* calls stage_bundle and activate_release only as anyone may call them,   *)
(* and touches nothing of theirs itself (update_controller.py).            *)
(***************************************************************************)
THEOREM ControllerImplementsTransaction == Spec => RTSpec
<1>1. Init => RTInit
  BY DEF Init
<1> QED
  BY <1>1, RunInit, RunNext, NextIsLocal, PTL DEF Spec, RTSpec

(***************************************************************************)
(* Boot is fail-closed under the controller: power can be lost at any step *)
(* of an update, and what boots is a release that was found healthy.       *)
(***************************************************************************)
THEOREM UpdateKeepsBootClosed == ASSUME ~LateFaults PROVE Spec => []BootFailClosed
BY ControllerImplementsTransaction, BootStaysClosed, PTL

(***************************************************************************)
(* Whatever cuts an update off, the intent on disk says how to go on.      *)
(***************************************************************************)
THEOREM UpdateIsResumable == ASSUME ~LateFaults PROVE Spec => []Resumable
BY ControllerImplementsTransaction, CrashIsResumable, PTL

-----------------------------------------------------------------------------
(***************************************************************************)
(* Who moves a deployment.                                                 *)
(***************************************************************************)
UpdaterEvents == {"download_started", "bundle_verified"}
ControllerEvents ==
  {"staged", "activation_started", "health_check_started", "succeeded",
   "rollback_started", "rolled_back", "recovery_failed"}

\* The states that wait for the updater, and those behind the gate.
Downloads == {"authorized", "downloading"}
GatedStates == {"activating", "health_check", "rolling_back"}

BackendTypes ==
  /\ backend \in [Deps -> States \cup {"absent"}]
  /\ trail = [d \in Deps |-> trail[d]]

\* An event of the controller, for a deployment it has heard of.
Moved(d, e) ==
  /\ backend[d] \in From[e]
  /\ backend' = [backend EXCEPT ![d] = To[e]]
  /\ UNCHANGED trail

LEMMA EventMoves ==
  /\ From["download_started"] = {"authorized"} /\ To["download_started"] = "downloading"
  /\ From["bundle_verified"] = {"downloading"} /\ To["bundle_verified"] = "verified"
  /\ \A e \in ControllerEvents :
       /\ From[e] \subseteq ActiveStates \ Downloads
       /\ To[e] \in States \ {"authorized", "downloading", "verified"}
BY DEF From, To, ControllerEvents, Downloads, States, ActiveStates, CancellableStates,
       TerminalStates

LEMMA StatesAreStates ==
  /\ "absent" \notin States
  /\ ActiveStates \subseteq States
  /\ {"authorized", "downloading", "verified", "staged"} \subseteq ActiveStates
  /\ "cancelled" \in States \ ActiveStates
BY DEF States, ActiveStates, CancellableStates, TerminalStates

LEMMA NextReportIsAnEvent == NextReport # "none" => NextReport \in ControllerEvents
BY DEF NextReport, ControllerEvents

LEMMA RunReports ==
  ASSUME RunKnown, RunStep \/ LostAnswer
  PROVE  \/ UNCHANGED <<backend, trail>>
         \/ \E d \in Deps, e \in ControllerEvents : Moved(d, e)
<1>1. CASE ReportStaged
  BY <1>1 DEF ReportStaged, Reports, Moved, Remote, RunKnown, ControllerEvents
<1>2. CASE AuthorizeActivation
  BY <1>2 DEF AuthorizeActivation, Reports, Moved, Remote, RunKnown, ControllerEvents
<1>3. CASE ReportOutcome
  <2>1. crun.dep \in Deps
    BY <1>3 DEF ReportOutcome, RunKnown
  <2> QED
    BY <1>3, <2>1, NextReportIsAnEvent DEF ReportOutcome, Reports, Moved, Remote
<1>4. CASE LostAnswer
  <2>1. crun.dep \in Deps
    BY <1>4 DEF LostAnswer, RunKnown
  <2> QED
    BY <1>4, <2>1, NextReportIsAnEvent DEF LostAnswer, Reports, Moved, ControllerEvents
<1>5. CASE SecureIngest \/ StageVerified \/ MarkStaged \/ Reconcile \/ MarkOutcome
  BY <1>5 DEF SecureIngest, StageVerified, MarkStaged, Reconcile, MarkOutcome, Remote
<1> QED
  BY <1>1, <1>2, <1>3, <1>4, <1>5 DEF RunStep

\* What a step of the update plane is for the updater and its backend.
LEMMA UpdaterMoves ==
  ASSUME RunKnown, [Next]_vars
  PROVE  \/ UNCHANGED <<backend, trail, uvars>>
         \/ (\E d \in Deps, e \in ControllerEvents : Moved(d, e)) /\ UNCHANGED uvars
         \/ (\E d \in Deps : CreateDeployment(d) \/ CancelDeployment(d)) /\ UNCHANGED uvars
         \/ UpdStep \/ UpdReport(FALSE)
         \/ urun' = NoRun /\ UNCHANGED <<backend, trail, upd, files, nextId>>
<1>1. CASE UNCHANGED vars
  BY <1>1 DEF vars
<1>2. CASE Fault
  BY <1>2, RunReports
     DEF Fault, TransactionFault, OperatorRollback, Kill, PowerLoss, LostAnswer, UpdCrash, Carried
<1>3. CASE Controller /\ UNCHANGED uvars
  BY <1>3, RunReports DEF Controller, PollInactive, Poll, Remote
<1>4. CASE (Transact \/ Install) /\ UNCHANGED uvars
  BY <1>4 DEF Transact, Install, Carried
<1>5. CASE Backend /\ UNCHANGED uvars
  BY <1>5 DEF Backend
<1>6. CASE UpdStep
  BY <1>6
<1> QED
  BY <1>1, <1>2, <1>3, <1>4, <1>5, <1>6 DEF Next

-----------------------------------------------------------------------------
(***************************************************************************)
(* The updater's invariant.  A run works on the deployment that state.json *)
(* is bound to, and every deployment past its authorization is that one.   *)
(***************************************************************************)
Fetching == {"look", "fetch", "download", "verified"}
Seen == States \cup {"absent"}

UpdaterTypes ==
  /\ BackendTypes
  /\ upd \in [dep : Deps \cup {NoDep}, artifact : Deps \cup {NoDep},
              pending : [event : UpdaterEvents, id : Nat] \cup {NoEvent}]
  /\ files \subseteq Deps
  /\ nextId \in Nat
  /\ urun \in [step : {"idle", "report"} \cup Fetching, dep : Deps \cup {NoDep}, seen : Seen]

\* One deployment at a time, and the updater is bound to it as soon as it
\* has reported anything for it.
BoundToActive ==
  /\ \A d, e \in Deps : IsActive(d) /\ IsActive(e) => d = e
  /\ \A d \in Deps : IsActive(d) /\ backend[d] # "authorized" => upd.dep = d
  /\ upd.pending # NoEvent => upd.dep \in Deps /\ backend[upd.dep] # "absent"

\* A run in progress: what it saw is so until the deployment is cancelled.
RunIsCurrent ==
  /\ urun.step # "idle" =>
       urun.dep \in Deps /\ upd.dep = urun.dep /\ backend[urun.dep] # "absent"
  /\ urun.step = "report" => upd.pending # NoEvent
  /\ urun.step \in Fetching => upd.pending = NoEvent
  /\ urun.step \in Fetching /\ urun.seen \in Downloads /\ IsActive(urun.dep)
       => backend[urun.dep] = urun.seen

\* Before the backend hears that a bundle is verified, it is.
VerifiedBefore ==
  upd.pending.event = "bundle_verified" \/ urun.step = "verified"
    => upd.dep \in files /\ upd.artifact = upd.dep

UpdaterHolds ==
  /\ UpdaterTypes
  /\ BoundToActive
  /\ RunIsCurrent
  /\ VerifiedBefore
  /\ VerifiedArtifactIsThere
  /\ PendingIsDeliverable

LEMMA UpdaterInit == Init => UpdaterHolds
BY DEF Init, UpdInit, UpdaterHolds, UpdaterTypes, BackendTypes, BoundToActive, RunIsCurrent,
       VerifiedBefore, VerifiedArtifactIsThere, PendingIsDeliverable, Unbound, NoRun, NoEvent,
       Seen, Fetching, IsActive, ActiveStates, CancellableStates

LEMMA ControllerMovesUpdater ==
  ASSUME UpdaterHolds, NEW d \in Deps, NEW e \in ControllerEvents, Moved(d, e), UNCHANGED uvars
  PROVE  UpdaterHolds'
<1> USE DEF UpdaterHolds, UpdaterTypes, BackendTypes, uvars, Moved
<1>1. /\ backend[d] \in ActiveStates \ Downloads
      /\ backend'[d] \in States \ {"authorized", "downloading", "verified"}
      /\ \A x \in Deps : x # d => backend'[x] = backend[x]
      /\ backend' \in [Deps -> Seen]
  BY EventMoves DEF Seen
<1>2. UpdaterTypes' /\ VerifiedBefore' /\ VerifiedArtifactIsThere'
  BY <1>1 DEF VerifiedBefore, VerifiedArtifactIsThere, Seen
<1>3. BoundToActive'
  BY <1>1, StatesAreStates DEF BoundToActive, IsActive, Downloads
<1>4. RunIsCurrent'
  BY <1>1, StatesAreStates DEF RunIsCurrent, IsActive, Downloads
<1>5. PendingIsDeliverable'
  BY <1>1, StatesAreStates, EventMoves
     DEF PendingIsDeliverable, BoundToActive, Accepts, IsActive, Downloads, UpdaterEvents
<1> QED
  BY <1>2, <1>3, <1>4, <1>5

LEMMA BackendMovesUpdater ==
  ASSUME UpdaterHolds, NEW d \in Deps, CreateDeployment(d) \/ CancelDeployment(d),
         UNCHANGED uvars
  PROVE  UpdaterHolds'
<1> USE DEF UpdaterHolds, UpdaterTypes, BackendTypes, uvars
<1>1. /\ \/ Inactive /\ backend[d] = "absent" /\ backend'[d] = "authorized"
         \/ backend[d] \in ActiveStates /\ backend'[d] = "cancelled"
      /\ \A x \in Deps : x # d => backend'[x] = backend[x]
      /\ backend' \in [Deps -> Seen]
      /\ UNCHANGED trail
  BY StatesAreStates DEF CreateDeployment, CancelDeployment, ActiveStates, Seen
<1>2. UpdaterTypes' /\ VerifiedBefore' /\ VerifiedArtifactIsThere'
  BY <1>1 DEF VerifiedBefore, VerifiedArtifactIsThere, Seen
<1>3. BoundToActive'
  BY <1>1, StatesAreStates DEF BoundToActive, IsActive, Inactive
<1>4. RunIsCurrent'
  <2>1. urun.step # "idle" => urun.dep \in Deps /\ backend[urun.dep] # "absent"
    BY DEF RunIsCurrent
  <2>2. urun.step # "idle" => backend'[urun.dep] # "absent"
    BY <1>1, <2>1
  <2>3. \A x \in Deps : IsActive(x)' /\ backend[x] # "absent" => backend'[x] = backend[x]
    BY <1>1, StatesAreStates DEF IsActive
  <2>4. urun.step # "idle" /\ IsActive(urun.dep)' =>
           IsActive(urun.dep) /\ backend'[urun.dep] = backend[urun.dep]
    BY <2>1, <2>3 DEF IsActive
  <2> QED
    BY <2>1, <2>2, <2>4 DEF RunIsCurrent, IsActive, Fetching
<1>5. PendingIsDeliverable'
  BY <1>1, StatesAreStates, EventMoves
     DEF PendingIsDeliverable, BoundToActive, Accepts, IsActive, Inactive
<1> QED
  BY <1>2, <1>3, <1>4, <1>5

LEMMA RunEndsUpdater ==
  ASSUME UpdaterHolds, urun' = NoRun, UNCHANGED <<backend, trail, upd, files, nextId>>
  PROVE  UpdaterHolds'
BY DEF UpdaterHolds, UpdaterTypes, BackendTypes, BoundToActive, RunIsCurrent, VerifiedBefore,
       VerifiedArtifactIsThere, PendingIsDeliverable, NoRun, Fetching, Seen, IsActive, Accepts

\* state.json is cleared when nothing is active any more.
LEMMA ClearedUpdater ==
  ASSUME UpdaterHolds, Inactive, upd' = Unbound, files' \subseteq files,
         urun' = NoRun, UNCHANGED <<backend, trail, nextId>>
  PROVE  UpdaterHolds'
BY StatesAreStates
   DEF UpdaterHolds, UpdaterTypes, BackendTypes, BoundToActive, RunIsCurrent, VerifiedBefore,
       VerifiedArtifactIsThere, PendingIsDeliverable, NoRun, Fetching, Seen, IsActive, Inactive,
       Unbound, NoEvent

LEMMA BindUpdater ==
  ASSUME UpdaterHolds, NEW d \in Deps, BindDeployment(d)
  PROVE  UpdaterHolds'
<1> USE DEF UpdaterHolds, UpdaterTypes, BackendTypes
<1>1. /\ urun = NoRun /\ backend[d] \in ActiveStates
      /\ UNCHANGED <<backend, trail, nextId>>
      /\ upd' \in [dep : Deps \cup {NoDep}, artifact : Deps \cup {NoDep},
                   pending : [event : UpdaterEvents, id : Nat] \cup {NoEvent}]
      /\ upd'.dep = d
      /\ urun' = [step |-> IF upd'.pending # NoEvent THEN "report" ELSE "look",
                   dep |-> d, seen |-> backend[d]]
      /\ \/ upd.dep = d /\ upd' = upd /\ files' = files
         \/ upd.dep # d /\ upd'.pending = NoEvent /\ files' \subseteq files
  BY DEF BindDeployment, IsActive, Unbound, RemoveArtifactFile
<1>2. upd.dep # d => backend[d] = "authorized"
  BY <1>1 DEF BoundToActive, IsActive
<1>3. UpdaterTypes'
  BY <1>1 DEF Fetching, Seen
<1>4. BoundToActive'
  BY <1>1, <1>2, StatesAreStates DEF BoundToActive, IsActive
<1>5. RunIsCurrent'
  BY <1>1, <1>2, StatesAreStates DEF RunIsCurrent, IsActive, Fetching
<1>6. VerifiedBefore' /\ VerifiedArtifactIsThere'
  BY <1>1, <1>2 DEF VerifiedBefore, VerifiedArtifactIsThere, NoEvent, NoRun
<1>7. PendingIsDeliverable'
  BY <1>1, <1>2 DEF PendingIsDeliverable, Accepts, IsActive
<1> QED
  BY <1>3, <1>4, <1>5, <1>6, <1>7

LEMMA EnsureUpdater ==
  ASSUME UpdaterHolds, NEW e \in UpdaterEvents, EnsurePending(e),
         urun.step \in Fetching, IsActive(urun.dep) => backend[urun.dep] \in From[e],
         e = "bundle_verified" => urun.step = "verified",
         UNCHANGED <<backend, trail, files>>
  PROVE  UpdaterHolds'
<1> USE DEF UpdaterHolds, UpdaterTypes, BackendTypes
<1>1. /\ upd' = [upd EXCEPT !.pending = [event |-> e, id |-> nextId]]
      /\ urun' = [urun EXCEPT !.step = "report"]
      /\ nextId' = nextId + 1
      /\ urun.dep \in Deps /\ upd.dep = urun.dep /\ backend[urun.dep] # "absent"
  BY DEF EnsurePending, RunIsCurrent, Fetching
<1>2. upd'.pending # NoEvent
  BY <1>1 DEF NoEvent, UpdaterEvents
<1>3. UpdaterTypes'
  BY <1>1
<1>4. BoundToActive'
  BY <1>1 DEF BoundToActive, IsActive
<1>5. RunIsCurrent'
  BY <1>1, <1>2 DEF RunIsCurrent, Fetching
<1>6. VerifiedBefore' /\ VerifiedArtifactIsThere'
  BY <1>1 DEF VerifiedBefore, VerifiedArtifactIsThere
<1>7. PendingIsDeliverable'
  BY <1>1 DEF PendingIsDeliverable, Accepts, IsActive
<1> QED
  BY <1>3, <1>4, <1>5, <1>6, <1>7

\* A delivered event moves the bound deployment, or is one it has already.
LEMMA ReportMoves ==
  ASSUME UpdaterHolds, NEW delivered \in BOOLEAN, UpdReport(delivered)
  PROVE  LET d == urun.dep
             p == upd.pending IN
         /\ d \in Deps /\ upd.dep = d /\ p # NoEvent
         /\ p \in [event : UpdaterEvents, id : Nat]
         /\ backend[d] # "absent"
         /\ \A x \in Deps : x # d => backend'[x] = backend[x] /\ trail'[x] = trail[x]
         /\ p \in trail'[d]
         /\ \/ backend'[d] = backend[d]
            \/ /\ p.event = "download_started"
               /\ backend[d] = "authorized" /\ backend'[d] = "downloading"
            \/ /\ p.event = "bundle_verified"
               /\ backend[d] = "downloading" /\ backend'[d] = "verified"
         /\ backend' \in [Deps -> Seen]
         /\ trail' = [x \in Deps |-> trail'[x]]
<1> USE DEF UpdaterHolds, UpdaterTypes, BackendTypes
<1> DEFINE d == urun.dep
           p == upd.pending
<1>1. /\ urun.step = "report" /\ d \in Deps /\ upd.dep = d /\ p # NoEvent
      /\ p \in [event : UpdaterEvents, id : Nat]
      /\ backend[d] # "absent"
      /\ p = [event |-> p.event, id |-> p.id]
  BY DEF UpdReport, RunIsCurrent
<1>2. /\ \A x \in Deps : x # d => backend'[x] = backend[x] /\ trail'[x] = trail[x]
      /\ p \in trail'[d]
      /\ \/ backend'[d] = backend[d]
         \/ /\ p.event = "download_started"
            /\ backend[d] = "authorized" /\ backend'[d] = "downloading"
         \/ /\ p.event = "bundle_verified"
            /\ backend[d] = "downloading" /\ backend'[d] = "verified"
      /\ backend' \in [Deps -> Seen]
      /\ trail' = [x \in Deps |-> trail'[x]]
  <2>1. CASE p \in trail[d]
    BY <1>1, <2>1 DEF UpdReport, RecordEvent, Seen
  <2>2. CASE p \notin trail[d]
    <3>1. /\ backend[d] \in From[p.event]
          /\ backend' = [backend EXCEPT ![d] = To[p.event]]
          /\ trail' = [trail EXCEPT ![d] = @ \cup {p}]
      BY <1>1, <2>2 DEF UpdReport, RecordEvent, Accepts
    <3>2. p \in trail'[d] /\ \A x \in Deps : x # d => trail'[x] = trail[x]
      BY <1>1, <3>1
    <3>3. trail' = [x \in Deps |-> trail'[x]]
      BY <3>1
    <3>4. \/ /\ p.event = "download_started"
             /\ backend[d] = "authorized" /\ To[p.event] = "downloading"
          \/ /\ p.event = "bundle_verified"
             /\ backend[d] = "downloading" /\ To[p.event] = "verified"
      BY <1>1, <3>1, EventMoves DEF UpdaterEvents
    <3>5. To[p.event] \in Seen
      BY <3>4, StatesAreStates DEF Seen
    <3> QED
      BY <1>1, <3>1, <3>2, <3>3, <3>4, <3>5 DEF Seen
  <2> QED
    BY <2>1, <2>2
<1> QED
  BY <1>1, <1>2

LEMMA ReportUpdater ==
  ASSUME UpdaterHolds, NEW delivered \in BOOLEAN, UpdReport(delivered)
  PROVE  UpdaterHolds'
<1> USE DEF UpdaterHolds, UpdaterTypes, BackendTypes
<1> DEFINE d == urun.dep
           p == upd.pending
<1>1. /\ d \in Deps /\ upd.dep = d /\ p # NoEvent
      /\ p \in [event : UpdaterEvents, id : Nat]
      /\ p = [event |-> p.event, id |-> p.id]
      /\ backend[d] # "absent"
  BY ReportMoves
<1>2. /\ \A x \in Deps : x # d => backend'[x] = backend[x] /\ trail'[x] = trail[x]
      /\ p \in trail'[d]
      /\ \/ backend'[d] = backend[d]
         \/ /\ p.event = "download_started"
            /\ backend[d] = "authorized" /\ backend'[d] = "downloading"
         \/ /\ p.event = "bundle_verified"
            /\ backend[d] = "downloading" /\ backend'[d] = "verified"
      /\ backend' \in [Deps -> Seen]
      /\ trail' = [x \in Deps |-> trail'[x]]
  BY ReportMoves
<1>3. /\ UNCHANGED <<files, nextId>>
      /\ IF delivered
           THEN /\ upd' = [upd EXCEPT !.pending = NoEvent]
                /\ urun' = [urun EXCEPT !.step = "look", !.seen = backend'[d]]
           ELSE UNCHANGED upd /\ urun' = NoRun
  BY DEF UpdReport
<1>4. \/ /\ upd'.pending = NoEvent /\ upd'.artifact = upd.artifact
         /\ urun' = [step |-> "look", dep |-> d, seen |-> backend'[d]]
      \/ upd' = upd /\ urun' = NoRun
  BY <1>3
<1>5. upd'.dep = d /\ upd'.artifact = upd.artifact /\ upd'.pending \in {p, NoEvent}
  BY <1>1, <1>3
<1> HIDE DEF d, p
<1>6. UpdaterTypes'
  <2>1. upd' \in [dep : Deps \cup {NoDep}, artifact : Deps \cup {NoDep},
                  pending : [event : UpdaterEvents, id : Nat] \cup {NoEvent}]
    BY <1>3
  <2>2. urun' \in [step : {"idle", "report"} \cup Fetching, dep : Deps \cup {NoDep}, seen : Seen]
    BY <1>1, <1>2, <1>4 DEF NoRun, Fetching, Seen
  <2> QED
    BY <1>2, <1>3, <2>1, <2>2 DEF Seen
<1>7. BoundToActive'
  BY <1>1, <1>2, <1>5, StatesAreStates DEF BoundToActive, IsActive, p, d
<1>8. RunIsCurrent'
  BY <1>1, <1>2, <1>4, <1>5, StatesAreStates DEF RunIsCurrent, IsActive, Fetching, NoRun
<1>9. VerifiedBefore' /\ VerifiedArtifactIsThere'
  <2>1. p.event = "bundle_verified" => d \in files /\ upd.artifact = d
    BY <1>1 DEF VerifiedBefore, p
  <2>2. urun'.step # "verified" /\ NoEvent.event # "bundle_verified" /\ files' = files
    BY <1>3, <1>4 DEF NoRun, NoEvent
  <2>3. VerifiedBefore'
    BY <1>5, <2>1, <2>2 DEF VerifiedBefore
  <2>4. VerifiedArtifactIsThere'
    BY <1>1, <1>2, <1>5, <2>1, <2>2 DEF VerifiedArtifactIsThere
  <2> QED
    BY <2>3, <2>4
<1>10. PendingIsDeliverable'
  BY <1>1, <1>2, <1>5 DEF PendingIsDeliverable, Accepts
<1> QED
  BY <1>6, <1>7, <1>8, <1>9, <1>10

LEMMA UpdaterSteps == UpdaterHolds /\ UpdStep => UpdaterHolds'
<1> SUFFICES ASSUME UpdaterHolds, UpdStep PROVE UpdaterHolds'
  OBVIOUS
<1>1. CASE UpdIdle
  BY <1>1, ClearedUpdater DEF UpdIdle, RemoveArtifactFile
<1>2. ASSUME NEW d \in Deps, BindDeployment(d) PROVE UpdaterHolds'
  BY <1>2, BindUpdater
<1>3. CASE UpdLook
  <2>1. CASE urun.seen = "authorized"
    BY <1>3, <2>1, EnsureUpdater, EventMoves
       DEF UpdLook, UpdaterHolds, RunIsCurrent, Fetching, UpdaterEvents, Downloads
  <2>2. ASSUME urun.seen \in {"downloading", "verified", "staged"},
               urun' = [urun EXCEPT !.step = "fetch"]
        PROVE  UpdaterHolds'
    BY <1>3, <2>2
       DEF UpdLook, UpdaterHolds, UpdaterTypes, BackendTypes, BoundToActive, RunIsCurrent,
           VerifiedBefore, VerifiedArtifactIsThere, PendingIsDeliverable, Fetching, IsActive,
           Accepts
  <2>3. CASE urun' = NoRun /\ UNCHANGED <<upd, nextId>>
    BY <1>3, <2>3, RunEndsUpdater DEF UpdLook
  <2> QED
    BY <1>3, <2>1, <2>2, <2>3 DEF UpdLook
<1>4. CASE UpdReport(TRUE)
  BY <1>4, ReportUpdater
<1>5. CASE UpdConflict
  BY <1>5, RunEndsUpdater, ClearedUpdater DEF UpdConflict, RemoveArtifactFile
<1>6. CASE VerifyLocalArtifact
  BY <1>6
     DEF VerifyLocalArtifact, UpdaterHolds, UpdaterTypes, BackendTypes, BoundToActive,
         RunIsCurrent, VerifiedBefore, VerifiedArtifactIsThere, PendingIsDeliverable, Fetching,
         IsActive, Accepts, NoEvent
<1>7. CASE PublishArtifact
  BY <1>7
     DEF PublishArtifact, UpdaterHolds, UpdaterTypes, BackendTypes, BoundToActive,
         RunIsCurrent, VerifiedBefore, VerifiedArtifactIsThere, PendingIsDeliverable, Fetching,
         IsActive, Accepts, NoEvent
<1>8. CASE BundleVerified
  <2>1. CASE urun.seen = "downloading"
    BY <1>8, <2>1, EnsureUpdater, EventMoves
       DEF BundleVerified, UpdaterHolds, RunIsCurrent, Fetching, UpdaterEvents, Downloads
  <2>2. CASE urun.seen # "downloading"
    BY <1>8, <2>2, RunEndsUpdater DEF BundleVerified
  <2> QED
    BY <2>1, <2>2
<1> QED
  BY <1>1, <1>2, <1>3, <1>4, <1>5, <1>6, <1>7, <1>8 DEF UpdStep

LEMMA UpdaterNext == RunKnown /\ UpdaterHolds /\ [Next]_vars => UpdaterHolds'
<1> SUFFICES ASSUME RunKnown, UpdaterHolds, [Next]_vars PROVE UpdaterHolds'
  OBVIOUS
<1>1. CASE UNCHANGED <<backend, trail, uvars>>
  BY <1>1 DEF uvars, UpdaterHolds, UpdaterTypes, BackendTypes, BoundToActive, RunIsCurrent,
              VerifiedBefore, VerifiedArtifactIsThere, PendingIsDeliverable, IsActive, Accepts
<1> QED
  BY <1>1, UpdaterMoves, ControllerMovesUpdater, BackendMovesUpdater, UpdaterSteps,
     ReportUpdater, RunEndsUpdater

LEMMA UpdaterAlways == Spec => []UpdaterHolds
BY RunInit, UpdaterInit, RunNext, UpdaterNext, PTL DEF Spec

(***************************************************************************)
(* The artifact that the backend was told is verified is there for the     *)
(* controller (run_once, commit_download, clear_inactive).                 *)
(***************************************************************************)
THEOREM VerifiedBundleIsThere == Spec => []VerifiedArtifactIsThere
<1>1. UpdaterHolds => VerifiedArtifactIsThere
  BY DEF UpdaterHolds
<1> QED
  BY <1>1, UpdaterAlways, PTL

(***************************************************************************)
(* A pending event can always be delivered: no crash and no lost answer    *)
(* leaves the updater with a report that the backend refuses for good      *)
(* (ensure_pending_event, report_updater_event).                           *)
(***************************************************************************)
THEOREM RetriesAreAccepted == Spec => []PendingIsDeliverable
<1>1. UpdaterHolds => PendingIsDeliverable
  BY DEF UpdaterHolds
<1> QED
  BY <1>1, UpdaterAlways, PTL

-----------------------------------------------------------------------------
(***************************************************************************)
(* How a step moves what outcomes are read from: the release that is       *)
(* active and the history.  Only the end of a transaction does, and it is  *)
(* noted for every deployment that it can be about.                        *)
(***************************************************************************)
Outcomes == {"activation_succeeded", "rolled_back", "recovery_failed"}
PastGate == GatedStates \cup TerminalStates

Kept == state'.active = state.active /\ state'.history = state.history

Ends(e) == Append(state.history, [event |-> e, rel |-> op.rel])

LEMMA KeepsOutcome ==
  ASSUME NEW s \in Saved, NEW r
  PROVE  /\ [s EXCEPT !.staged = r].active = s.active
         /\ [s EXCEPT !.staged = r].history = s.history
         /\ [s EXCEPT !.intent = r].active = s.active
         /\ [s EXCEPT !.intent = r].history = s.history
         /\ Recorded(s, r).active = s.active /\ Recorded(s, r).history = s.history
         /\ Healthy(s, r).active = s.active /\ Healthy(s, r).history = s.history
BY DEF Saved, Recorded, Healthy

LEMMA CallKeeps ==
  ASSUME IInv, NEW r, NEW by, NEW approved,
         \/ StageIdempotent(r) \/ StageRecovered(r) \/ PublishRelease(r, by)
         \/ Activate(r, by, approved)
  PROVE  Kept
<1> USE DEF IInv, Types
<1>1. CASE StageIdempotent(r)
  <2>1. state' = [state EXCEPT !.staged = r]
    BY <1>1 DEF StageIdempotent, Save
  <2> QED
    BY <2>1, KeepsOutcome DEF Kept
<1>2. CASE StageRecovered(r)
  <2>1. state' = Recorded(state, r)
    BY <1>2 DEF StageRecovered, Save
  <2> QED
    BY <2>1, KeepsOutcome DEF Kept
<1>3. CASE ActivationIntent(r, by, approved)
  <2> DEFINE i == [rel |-> r, prev |-> host.link]
  <2>1. state' = [state EXCEPT !.intent = i]
    BY <1>3 DEF ActivationIntent, Save
  <2> HIDE DEF i
  <2> QED
    BY <2>1, KeepsOutcome DEF Kept
<1>4. CASE UNCHANGED state
  BY <1>4 DEF Kept
<1> QED
  BY <1>1, <1>2, <1>3, <1>4 DEF PublishRelease, Activate, ActivationResume

LEMMA RequestKeeps == IInv /\ Requested => Kept
<1>1. ASSUME NEW r \in Releases, InstallStagedDefinitions(r) \/ InstallStableUpdaterHost(r)
      PROVE  Kept
  BY <1>1 DEF InstallStagedDefinitions, InstallStableUpdaterHost, Kept
<1> QED
  BY <1>1, CallKeeps DEF Requested, ManualRollback

LEMMA ForwardKeeps ==
  ASSUME IInv, Forward
  PROVE  \/ Kept /\ op.step # "commit" /\ op.step # "r_commit"
         \/ /\ op.step = "commit" /\ op.rel \in Releases
            /\ state'.active = op.rel /\ state'.history = state.history
<1> USE DEF IInv, Types
<1>1. CASE HealthCheck
  BY <1>1, KeepsOutcome DEF HealthCheck, Step, Save, Kept
<1>2. CASE StageCommit
  BY <1>2, KeepsOutcome DEF StageCommit, Save, Kept
<1>3. CASE CommitActivation
  BY <1>3 DEF CommitActivation, Activated, Save, Saved, IntentIsOn, Active, LateSteps
<1> QED
  BY <1>1, <1>2, <1>3
     DEF Forward, DisableTarget, QuiesceRuntime, RemoveManagedUnits, ApplyDefinitions,
         SwitchActive, StartTarget, EnableTarget, OpenUpdatePlane, Step, Kept

LEMMA RollbackEnds ==
  ASSUME IInv, RollbackCommit
  PROVE  /\ op.rel \in Releases /\ state'.active = state.active
         /\ state'.history = Ends("automatic_rollback_completed")
<1>1. /\ op.rel \in Releases /\ state.active = op.prev /\ mem = state /\ state \in Saved
      /\ state' = Told([mem EXCEPT !.active = op.prev, !.previous = None, !.intent = None],
                       "automatic_rollback_completed", op.rel)
  BY DEF IInv, Types, IntentIsOn, Active, RollbackCommit, Save
<1> QED
  BY <1>1 DEF Told, Ends, Saved

LEMMA RollbackGivesUp ==
  ASSUME IInv, RollbackFails
  PROVE  /\ op.rel \in Releases /\ state'.active = state.active
         /\ state'.history = Ends("automatic_rollback_failed")
<1>1. /\ op.rel \in Releases /\ mem = state /\ state \in Saved
      /\ state' = Told(mem, "automatic_rollback_failed", op.rel)
  BY DEF IInv, Types, IntentIsOn, Active, RollbackFails, Save
<1> QED
  BY <1>1 DEF Told, Ends, Saved

LEMMA BackwardKeeps ==
  ASSUME IInv, Backward
  PROVE  \/ Kept /\ op.step # "commit" /\ op.step # "r_commit"
         \/ op.step = "r_commit" /\ RollbackCommit
<1>1. CASE RollbackHealth
  BY <1>1, KeepsOutcome DEF RollbackHealth, Step, Save, Kept, IInv, Types
<1>2. CASE RollbackCommit
  BY <1>2 DEF RollbackCommit
<1> QED
  BY <1>1, <1>2
     DEF Backward, RollbackQuiesce, RollbackRemoveUnits, RollbackDefinitions, RollbackSwitch,
         RollbackStart, RollbackEnable, PendingUnlink, PendingDefinitions, PendingDisable,
         Step, Kept

LEMMA FaultKeeps ==
  ASSUME IInv, Faults
  PROVE  \/ Kept /\ op.step \notin RollbackSteps
         \/ op.step \in RollbackSteps /\ RollbackFails
BY DEF Faults, ActivationFails, GiveUp, RollbackFails, EarlySteps, LateSteps, RollbackSteps, Kept

\* The end of a transaction: committed, rolled back, or not even that.
Committed ==
  /\ op.rel \in Releases
  /\ state'.active = op.rel /\ state'.history = state.history
  /\ results' = Resulted("activation_succeeded")
RolledBack ==
  /\ op.rel \in Releases
  /\ state'.active = state.active
  /\ \/ /\ state'.history = Ends("automatic_rollback_completed")
        /\ results' = Resulted("rolled_back")
     \/ /\ state'.history = Ends("automatic_rollback_failed")
        /\ results' = Resulted("recovery_failed")

\* Steps of the backend and of the updater: none of them concerns a
\* deployment that is behind the gate, or takes one there.
Outside ==
  \A d \in Deps :
    \/ backend'[d] = backend[d]
    \/ /\ backend[d] \notin PastGate
       /\ backend'[d] \notin GatedStates \cup {"succeeded", "rolled_back", "recovery_failed"}

\* A step of the controller itself, or a report of it whose answer is lost.
ControllerMoves == Controller \/ LostAnswer

LEMMA OutsideMoves ==
  ASSUME UpdaterHolds,
         \/ UpdStep \/ UpdReport(FALSE)
         \/ \E d \in Deps : CreateDeployment(d) \/ CancelDeployment(d)
  PROVE  Outside
<1> USE DEF Outside, PastGate, GatedStates, TerminalStates
<1>1. ASSUME NEW delivered \in BOOLEAN, UpdReport(delivered) PROVE Outside
  BY <1>1, ReportMoves
<1>2. ASSUME NEW d \in Deps, CreateDeployment(d) \/ CancelDeployment(d) PROVE Outside
  BY <1>2
     DEF CreateDeployment, CancelDeployment, CancellableStates, UpdaterHolds, UpdaterTypes,
         BackendTypes
<1>3. CASE UNCHANGED backend
  BY <1>3
<1> QED
  BY <1>1, <1>2, <1>3
     DEF UpdStep, UpdIdle, BindDeployment, UpdLook, UpdConflict, VerifyLocalArtifact,
         PublishArtifact, BundleVerified

\* What a step of the update plane is for the outcomes.
LEMMA OutcomeMoves ==
  ASSUME UpdaterHolds, IInv, [Next]_vars
  PROVE  \/ (Committed \/ RolledBack) /\ UNCHANGED <<backend, ctl, crun>>
         \/ Kept /\ UNCHANGED <<results, ctl>> /\ crun' \in {crun, NoCRun} /\ Outside
         \/ ControllerMoves /\ UNCHANGED results /\ Kept
<1>1. CASE UNCHANGED vars
  BY <1>1 DEF vars, rtvars, cvars, Kept, Outside
<1>2. CASE Transact
  <2>1. CASE Forward
    BY <1>2, <2>1, ForwardKeeps DEF Transact, Carried, Committed, Outside
  <2>2. CASE Backward
    BY <1>2, <2>2, BackwardKeeps, RollbackEnds
       DEF Transact, Carried, RolledBack, Outside
  <2> QED
    BY <1>2, <2>1, <2>2 DEF Transact
<1>3. CASE TransactionFault
  BY <1>3, FaultKeeps, RollbackGivesUp DEF TransactionFault, Carried, RolledBack, Outside
<1>4. CASE OperatorRollback \/ Install
  <2>1. Requested
    BY <1>4, ControllerAssumption DEF OperatorRollback, Install, Requested, Callers
  <2> QED
    BY <1>4, <2>1, RequestKeeps DEF OperatorRollback, Install, cvars, Outside
<1>5. CASE Kill \/ PowerLoss
  BY <1>5 DEF Kill, PowerLoss, Crash, Reboot, rtvars, Kept, Outside
<1>6. CASE (UpdReport(FALSE) \/ UpdCrash) /\ UNCHANGED <<rtvars, cvars>>
  BY <1>6, OutsideMoves DEF UpdCrash, rtvars, cvars, Kept, Outside
<1>7. CASE LostAnswer
  BY <1>7 DEF LostAnswer, Local, rtvars, Kept, ControllerMoves
<1>8. CASE Controller
  <2>1. UNCHANGED results
    BY <1>8, Zenon
       DEF Controller, PollInactive, Poll, RunStep, SecureIngest, StageVerified, MarkStaged,
           ReportStaged, AuthorizeActivation, Reconcile, MarkOutcome, ReportOutcome, Local
  <2>2. CASE UNCHANGED rtvars
    BY <1>8, <2>1, <2>2 DEF rtvars, Kept, ControllerMoves
  <2>3. CASE StageVerified
    BY <1>8, <2>1, <2>3, <2>2, CallKeeps DEF StageVerified, ControllerMoves
  <2>4. CASE Reconcile
    <3>1. UNCHANGED rtvars \/ Activate(Rel, "controller", FALSE)
      BY <2>4, Zenon DEF Reconcile, Local
    <3> QED
      BY <1>8, <2>1, <2>2, <3>1, CallKeeps DEF ControllerMoves
  <2> QED
    BY <1>8, <2>2, <2>3, <2>4
       DEF Controller, PollInactive, Poll, RunStep, SecureIngest, MarkStaged,
           ReportStaged, AuthorizeActivation, MarkOutcome, ReportOutcome, Local
<1>9. CASE Backend /\ UNCHANGED <<rtvars, uvars, cvars>>
  BY <1>9, OutsideMoves DEF Backend, rtvars, cvars, Kept
<1>10. CASE UpdStep /\ UNCHANGED <<rtvars, cvars>>
  BY <1>10, OutsideMoves DEF rtvars, cvars, Kept
<1> QED
  BY <1>1, <1>2, <1>3, <1>4, <1>5, <1>6, <1>7, <1>8, <1>9, <1>10 DEF Next, Fault

-----------------------------------------------------------------------------
(***************************************************************************)
(* The controller's invariant.  What is proved of a phase holds of any     *)
(* record c that the controller may write: what it knows of an outcome it  *)
(* has from entries after its anchor, or from the active release, and both *)
(* have come about since the gate of its deployment.                       *)
(***************************************************************************)
Phases == FinishedPhases \cup {"observed", "staged", "activation_authorized"}

OutcomeOf(e) == IF e = "automatic_rollback_completed" THEN "rolled_back" ELSE "recovery_failed"

StateFiles == [dep : Deps \cup {NoDep}, phase : Phases, anchor : Nat]

ControllerTypes ==
  /\ ctl \in StateFiles
  /\ results \in [Deps -> SUBSET Outcomes]

PhaseIsBacked(c) ==
  /\ c.phase # "idle" => c.dep \in Deps
  /\ c.phase \in Outcomes \cup {"activation_authorized"} => backend[c.dep] \in PastGate
  /\ c.phase = "activation_authorized" /\ backend[c.dep] \in GatedStates =>
       \A i \in DOMAIN state.history :
         i > c.anchor /\ state.history[i].rel = Target[c.dep]
           => OutcomeOf(state.history[i].event) \in results[c.dep]
  /\ c.phase \in Outcomes /\ backend[c.dep] \in GatedStates => c.phase \in results[c.dep]

RunIsBound ==
  /\ crun.step # "idle" => ctl.dep = crun.dep
  /\ crun.step = "activating" => ctl.phase = "activation_authorized"
  /\ crun.step = "report" => ctl.phase \in Outcomes
  /\ crun.step = "reconcile" => backend[crun.dep] \in PastGate

\* Between its gate and its end a deployment finds its release active only
\* because an activation since has made it so.
ActiveIsOwn ==
  \A d \in Deps :
    backend[d] \in GatedStates /\ state.active = Target[d]
      => "activation_succeeded" \in results[d]

ControllerHolds ==
  /\ ControllerTypes
  /\ PhaseIsBacked(ctl)
  /\ RunIsBound
  /\ ActiveIsOwn
  /\ OutcomeIsOwn

Holds == RunKnown /\ IInv /\ UpdaterHolds /\ ControllerHolds

LEMMA StateFileWrites ==
  ASSUME NEW c \in StateFiles, NEW p \in Phases, NEW n \in Nat
  PROVE  /\ [c EXCEPT !.phase = p] = [dep |-> c.dep, phase |-> p, anchor |-> c.anchor]
         /\ [c EXCEPT !.phase = p, !.anchor = n] = [dep |-> c.dep, phase |-> p, anchor |-> n]
         /\ [dep |-> c.dep, phase |-> p, anchor |-> n] \in StateFiles
<1> DEFINE one == [c EXCEPT !.phase = p]
           both == [c EXCEPT !.phase = p, !.anchor = n]
<1>1. /\ one \in StateFiles
      /\ one.dep = c.dep /\ one.phase = p /\ one.anchor = c.anchor
      /\ both \in StateFiles
      /\ both.dep = c.dep /\ both.phase = p /\ both.anchor = n
  BY DEF StateFiles
<1>2. [dep |-> c.dep, phase |-> p, anchor |-> n] \in StateFiles
  BY DEF StateFiles
<1>3. \A r \in StateFiles : r = [dep |-> r.dep, phase |-> r.phase, anchor |-> r.anchor]
  BY DEF StateFiles
<1> HIDE DEF one, both
<1>4. one = [dep |-> c.dep, phase |-> p, anchor |-> c.anchor]
  BY <1>1, <1>3
<1>5. both = [dep |-> c.dep, phase |-> p, anchor |-> n]
  BY <1>1, <1>3
<1> QED
  BY <1>2, <1>4, <1>5 DEF one, both

LEMMA ControllerInit == Init => ControllerHolds
BY DEF Init, UpdInit, ControllerHolds, ControllerTypes, PhaseIsBacked, RunIsBound, ActiveIsOwn,
       OutcomeIsOwn, StateFiles, Empty, NoCRun, Phases, FinishedPhases, Outcomes, GatedStates

LEMMA PastGateIsPast ==
  /\ GatedStates = ActiveStates \ CancellableStates
  /\ {"succeeded", "rolled_back", "recovery_failed"} \subseteq PastGate \ GatedStates
  /\ {"rolling_back"} \subseteq GatedStates
  /\ PastGate \cap ({"absent"} \cup CancellableStates) = {}
BY DEF PastGate, GatedStates, TerminalStates, ActiveStates, CancellableStates

\* An outcome is noted for every deployment behind the gate of its release.
LEMMA ResultsGrow ==
  ASSUME ControllerTypes, NEW o \in Outcomes, results' = Resulted(o)
  PROVE  /\ results' \in [Deps -> SUBSET Outcomes]
         /\ \A d \in Deps : results[d] \subseteq results'[d]
         /\ \A d \in Deps : backend[d] \in GatedStates /\ Target[d] = op.rel => o \in results'[d]
BY PastGateIsPast DEF ControllerTypes, Resulted

LEMMA TransactionKeepsController ==
  ASSUME Holds, Committed \/ RolledBack, UNCHANGED <<backend, ctl, crun>>
  PROVE  ControllerHolds'
<1> USE DEF Holds, ControllerHolds, ControllerTypes
<1>1. /\ results' \in [Deps -> SUBSET Outcomes]
      /\ \A d \in Deps : results[d] \subseteq results'[d]
  BY ResultsGrow DEF Committed, RolledBack, Outcomes
<1>2. state.history \in Seq(Entry)
  BY DEF IInv, Types, Saved
<1> DEFINE EntriesNoted ==
      \A d \in Deps : backend[d] \in GatedStates =>
        \A i \in DOMAIN state'.history :
          \/ i \in DOMAIN state.history /\ state'.history[i] = state.history[i]
          \/ state'.history[i].rel = Target[d] =>
               OutcomeOf(state'.history[i].event) \in results'[d]
<1>3. EntriesNoted
  <2>1. CASE Committed
    BY <2>1 DEF Committed
  <2>2. ASSUME NEW e \in Endings, op.rel \in Releases, state'.history = Ends(e),
               results' = Resulted(OutcomeOf(e))
        PROVE  EntriesNoted
    <3>1. OutcomeOf(e) \in Outcomes
      BY DEF OutcomeOf, Outcomes
    <3>2. \A i \in DOMAIN state'.history :
            \/ i \in DOMAIN state.history /\ state'.history[i] = state.history[i]
            \/ state'.history[i] = [event |-> e, rel |-> op.rel]
      BY <1>2, <2>2 DEF Ends, Entry
    <3>3. \A d \in Deps : backend[d] \in GatedStates /\ Target[d] = op.rel
            => OutcomeOf(e) \in results'[d]
      BY <2>2, <3>1, ResultsGrow
    <3>4. \A d \in Deps, i \in DOMAIN state'.history :
            /\ backend[d] \in GatedStates /\ state'.history[i].rel = Target[d]
            /\ state'.history[i] = [event |-> e, rel |-> op.rel]
            => OutcomeOf(state'.history[i].event) \in results'[d]
      BY <3>3
    <3> QED
      BY <3>2, <3>4
  <2> QED
    BY <2>1, <2>2 DEF RolledBack, OutcomeOf, Endings
<1>4. PhaseIsBacked(ctl)'
  <2>1. /\ ctl.phase # "idle" => ctl.dep \in Deps
        /\ ctl.phase \in Outcomes \cup {"activation_authorized"} => backend[ctl.dep] \in PastGate
    BY DEF PhaseIsBacked
  <2>2. ASSUME ctl.phase = "activation_authorized", backend[ctl.dep] \in GatedStates,
               NEW i \in DOMAIN state'.history, i > ctl.anchor,
               state'.history[i].rel = Target[ctl.dep]
        PROVE  OutcomeOf(state'.history[i].event) \in results'[ctl.dep]
    <3>1. CASE i \in DOMAIN state.history /\ state'.history[i] = state.history[i]
      BY <1>1, <2>1, <2>2, <3>1 DEF PhaseIsBacked
    <3> QED
      BY <1>3, <2>1, <2>2, <3>1
  <2>3. ctl.phase \in Outcomes /\ backend[ctl.dep] \in GatedStates
          => ctl.phase \in results'[ctl.dep]
    BY <1>1, <2>1 DEF PhaseIsBacked, Outcomes
  <2> QED
    BY <2>1, <2>2, <2>3 DEF PhaseIsBacked
<1>5. RunIsBound'
  BY DEF RunIsBound
<1>6. ActiveIsOwn'
  <2>1. CASE Committed
    BY <2>1, ResultsGrow DEF Committed, ActiveIsOwn, Outcomes
  <2>2. CASE RolledBack
    BY <1>1, <2>2 DEF RolledBack, ActiveIsOwn
  <2> QED
    BY <2>1, <2>2
<1>7. OutcomeIsOwn'
  BY <1>1 DEF OutcomeIsOwn
<1> QED
  BY <1>1, <1>4, <1>5, <1>6, <1>7

LEMMA OutsideKeepsController ==
  ASSUME Holds, Kept, UNCHANGED <<results, ctl>>, crun' \in {crun, NoCRun}, Outside
  PROVE  ControllerHolds'
<1> USE DEF Holds, ControllerHolds, ControllerTypes
<1>1. \A d \in Deps :
        /\ backend[d] \in PastGate => backend'[d] = backend[d]
        /\ backend'[d] \in GatedStates => backend'[d] = backend[d]
        /\ backend'[d] \in {"succeeded", "rolled_back", "recovery_failed", "rolling_back"}
             => backend'[d] = backend[d]
  BY PastGateIsPast DEF Outside
<1>2. PhaseIsBacked(ctl)'
  BY <1>1 DEF PhaseIsBacked, Kept, Outcomes
<1>3. RunIsBound'
  BY <1>1 DEF RunIsBound, RunKnown, NoCRun
<1>4. ActiveIsOwn'
  BY <1>1 DEF ActiveIsOwn, Kept
<1>5. OutcomeIsOwn'
  BY <1>1 DEF OutcomeIsOwn
<1> QED
  BY <1>2, <1>3, <1>4, <1>5

-----------------------------------------------------------------------------
\* A nonempty set of positions has a last one.
LEMMA Greatest ==
  ASSUME NEW n \in Nat, NEW S \in SUBSET (0..n), S # {}
  PROVE  \E m \in S : \A k \in S : k <= m
<1> DEFINE R == OpToRel(<, Nat)
           T == {n - k : k \in S}
<1>1. \A k \in S : k \in Nat /\ n - k \in Nat
  OBVIOUS
<1>2. \A a, b \in Nat : b < a => <<b, a>> \in R
  BY DEF OpToRel
<1>3. T \subseteq Nat
  <2>1. ASSUME NEW x \in T PROVE x \in Nat
    BY <1>1
  <2> QED
    BY <2>1
<1> HIDE DEF R
<1>4. PICK x \in T : \A y \in T : ~ (<<y, x>> \in R)
  <2>1. IsWellFoundedOn(R, Nat)
    BY NatLessThanWellFounded DEF R
  <2>2. T # {}
    OBVIOUS
  <2> QED
    BY <1>3, <2>1, <2>2, WFMin
<1>5. PICK m \in S : x = n - m
  OBVIOUS
<1>6. \A k \in S : ~(n - k < x)
  BY <1>1, <1>2, <1>3, <1>4
<1> QED
  BY <1>1, <1>5, <1>6

\* The outcome that the controller finds for an authorized activation is one
\* of its deployment.
LEMMA OutcomeHappened ==
  ASSUME Holds, NEW c, PhaseIsBacked(c), c.phase = "activation_authorized",
         backend[c.dep] \in GatedStates, NEW o, o = LocalOutcome(Target[c.dep], c.anchor),
         o # "none"
  PROVE  o \in results[c.dep]
<1> USE DEF Holds, ControllerHolds, ControllerTypes
<1> DEFINE r == Target[c.dep]
           telling == {i \in After(c.anchor) : state.history[i].rel = r}
<1>1. c.dep \in Deps /\ state.history \in Seq(Entry)
  BY DEF PhaseIsBacked, IInv, Types, Saved
<1>2. CASE state.active = r /\ host.link = r
  BY <1>1, <1>2 DEF LocalOutcome, ActiveIsOwn
<1>3. CASE ~(state.active = r /\ host.link = r)
  <2>1. telling # {}
    BY <1>3 DEF LocalOutcome
  <2>2. telling \subseteq 0..Len(state.history) /\ Len(state.history) \in Nat
    BY <1>1 DEF After
  <2> DEFINE last == CHOOSE i \in telling : \A j \in telling : j <= i
  <2>3. \E m \in telling : \A k \in telling : k <= m
    BY <2>1, <2>2, Greatest
  <2>4. last \in telling
    BY <2>3
  <2>5. o = OutcomeOf(state.history[last].event)
    BY <1>3, <2>1 DEF LocalOutcome, OutcomeOf
  <2> HIDE DEF last
  <2>6. OutcomeOf(state.history[last].event) \in results[c.dep]
    BY <2>4 DEF PhaseIsBacked, After
  <2> QED
    BY <2>5, <2>6
<1> QED
  BY <1>2, <1>3

LEMMA OutcomeTypes ==
  ASSUME NEW r, NEW a
  PROVE  LocalOutcome(r, a) \in Outcomes \cup {"none"}
BY DEF LocalOutcome, Outcomes

-----------------------------------------------------------------------------
\* What the controller's steps have in common: nothing that ended in between.
LEMMA ControllerStep ==
  ASSUME Holds, Kept, UNCHANGED results,
         ctl' \in StateFiles,
         PhaseIsBacked(ctl'), RunIsBound', UNCHANGED backend
  PROVE  ControllerHolds'
BY DEF Holds, ControllerHolds, ControllerTypes, PhaseIsBacked, ActiveIsOwn, OutcomeIsOwn, Kept

\* The run ends with the controller's state as it was.
LEMMA RunOver ==
  ASSUME Holds, Kept, UNCHANGED <<results, ctl, backend>>, crun' = NoCRun
  PROVE  ControllerHolds'
BY ControllerStep DEF Holds, ControllerHolds, ControllerTypes, RunIsBound, NoCRun

LEMMA PollKeeps ==
  ASSUME Holds, Kept, UNCHANGED results, NEW d \in Deps, Poll(d)
  PROVE  ControllerHolds'
<1> USE DEF Holds, ControllerHolds, ControllerTypes
<1>1. /\ ctl' \in StateFiles
      /\ ctl'.dep = d
      /\ ctl' = ctl \/ ctl'.phase = "observed"
  <2>1. CASE ctl.dep = d
    BY <2>1 DEF Poll, Bind
  <2>2. CASE ctl.dep # d
    <3>1. ctl' = [dep |-> d, phase |-> "observed", anchor |-> 0]
      BY <2>2 DEF Poll, Bind, Empty
    <3> QED
      BY <3>1 DEF Phases, StateFiles
  <2> QED
    BY <2>1, <2>2
<1>2. PhaseIsBacked(ctl')
  BY <1>1 DEF PhaseIsBacked, Outcomes
<1>3. /\ crun'.step # "idle" => crun'.dep = d
      /\ crun'.step \notin {"activating", "report"}
      /\ crun'.step = "reconcile" => backend[d] \in GatedStates
      /\ UNCHANGED backend
  BY DEF Poll, FirstStep, NoCRun, GatedStates, Remote
<1>4. RunIsBound'
  BY <1>1, <1>3 DEF RunIsBound, PastGate
<1> QED
  BY <1>1, <1>2, <1>3, <1>4, ControllerStep

LEMMA EarlyStepKeeps ==
  ASSUME Holds, Kept, UNCHANGED results,
         PollInactive \/ SecureIngest \/ StageVerified \/ MarkStaged
  PROVE  ControllerHolds'
<1> USE DEF Holds, ControllerHolds, ControllerTypes
<1>1. CASE PollInactive
  <2>1. PhaseIsBacked(ctl') /\ RunIsBound' /\ UNCHANGED backend
    BY <1>1 DEF PollInactive, Empty, PhaseIsBacked, RunIsBound, NoCRun, Outcomes, Remote
  <2>2. ctl' \in StateFiles
    BY <1>1 DEF PollInactive, Empty, Phases, FinishedPhases, StateFiles
  <2> QED
    BY <2>1, <2>2, ControllerStep
<1>2. CASE crun' = NoCRun /\ UNCHANGED <<ctl, backend>>
  BY <1>2, RunOver
<1>3. ASSUME NEW s \in {"stage", "staging", "report_staged"},
             crun' = [crun EXCEPT !.step = s], crun.step # "idle",
             ctl' = ctl \/ ctl' = [ctl EXCEPT !.phase = "staged", !.anchor = 0],
             UNCHANGED backend
      PROVE  ControllerHolds'
  <2>1. crun'.step = s /\ crun'.dep = crun.dep /\ crun.dep \in Deps
    BY <1>3 DEF RunKnown
  <2>2. ctl' = ctl \/ ctl' = [dep |-> crun.dep, phase |-> "staged", anchor |-> 0]
    <3>1. "staged" \in Phases /\ ctl.dep = crun.dep
      BY <1>3 DEF Phases, RunIsBound
    <3> QED
      BY <1>3, <3>1, StateFileWrites
  <2>3. PhaseIsBacked(ctl')
    BY <2>1, <2>2 DEF PhaseIsBacked, Outcomes
  <2>4. RunIsBound'
    BY <1>3, <2>1, <2>2 DEF RunIsBound
  <2>5. ctl' \in StateFiles
    BY <2>1, <2>2 DEF StateFiles, Phases
  <2> QED
    BY <1>3, <2>3, <2>4, <2>5, ControllerStep
<1> QED
  BY <1>1, <1>2, <1>3
     DEF SecureIngest, StageVerified, MarkStaged, EndRun, CGoto, Remote

\* A report moves one deployment by one event; what is left to show is that
\* the event tells the truth.
LEMMA ReportKeeps ==
  ASSUME Holds, Kept, UNCHANGED results, NEW d \in Deps, NEW e \in ControllerEvents,
         Moved(d, e), ctl.dep = d, ctl' = ctl,
         e # "activation_started",
         e \in {"health_check_started", "succeeded"} => ctl.phase = "activation_succeeded",
         e \in {"rollback_started", "rolled_back"} => ctl.phase = "rolled_back",
         e = "recovery_failed" => ctl.phase = "recovery_failed",
         \/ crun' \in {crun, NoCRun}
         \/ (e = "staged" /\ crun'.dep = d /\ crun'.step = "authorize")
  PROVE  ControllerHolds'
<1> USE DEF Holds, ControllerHolds, ControllerTypes
<1>1. /\ backend[d] \in From[e] /\ backend'[d] = To[e]
      /\ \A x \in Deps : x # d => backend'[x] = backend[x]
  BY DEF Moved, UpdaterHolds, UpdaterTypes, BackendTypes
<1>2. \/ e = "staged" /\ backend[d] = "verified" /\ backend'[d] = "staged"
      \/ /\ e # "staged" /\ backend[d] \in GatedStates /\ backend'[d] \in PastGate
         /\ ctl.phase \in Outcomes /\ ctl.phase \in results[d]
         /\ backend'[d] \in {"health_check", "succeeded"} => ctl.phase = "activation_succeeded"
         /\ backend'[d] \in {"rolling_back", "rolled_back"} => ctl.phase = "rolled_back"
         /\ backend'[d] = "recovery_failed" => ctl.phase = "recovery_failed"
  <2>1. \/ e = "staged" /\ From[e] = {"verified"} /\ To[e] = "staged"
        \/ e = "health_check_started" /\ From[e] = {"activating"} /\ To[e] = "health_check"
        \/ e = "succeeded" /\ From[e] = {"health_check"} /\ To[e] = "succeeded"
        \/ /\ e = "rollback_started"
           /\ From[e] = {"activating", "health_check"} /\ To[e] = "rolling_back"
        \/ e = "rolled_back" /\ From[e] = {"rolling_back"} /\ To[e] = "rolled_back"
        \/ e = "recovery_failed" /\ From[e] = GatedStates /\ To[e] = "recovery_failed"
    BY DEF From, To, ControllerEvents, GatedStates
  <2>2. e # "staged" => ctl.phase \in Outcomes
    BY DEF ControllerEvents, Outcomes
  <2>3. ctl.phase \in Outcomes /\ backend[d] \in GatedStates => ctl.phase \in results[d]
    BY DEF PhaseIsBacked
  <2> QED
    BY <1>1, <2>1, <2>2, <2>3 DEF GatedStates, PastGate, TerminalStates
<1>3. backend[d] \notin {"succeeded", "rolled_back", "recovery_failed"}
  BY <1>2 DEF GatedStates
<1>4. PhaseIsBacked(ctl)'
  <2>1. CASE e = "staged"
    <3>1. ctl.phase \notin Outcomes \cup {"activation_authorized"}
      BY <1>2, <2>1, PastGateIsPast DEF PhaseIsBacked, CancellableStates
    <3> QED
      BY <3>1 DEF PhaseIsBacked, Outcomes
  <2>2. CASE e # "staged"
    BY <1>1, <1>2, <2>2 DEF PhaseIsBacked, Kept, Outcomes
  <2> QED
    BY <2>1, <2>2
<1>5. RunIsBound'
  <2>1. \A x \in Deps : backend[x] \in PastGate => backend'[x] \in PastGate
    BY <1>1, <1>2, PastGateIsPast DEF CancellableStates
  <2>2. CASE crun' = crun
    BY <2>1, <2>2 DEF RunIsBound, RunKnown
  <2>3. CASE crun' = NoCRun
    BY <2>3 DEF RunIsBound, NoCRun
  <2>4. CASE crun'.dep = d /\ crun'.step = "authorize"
    BY <2>4 DEF RunIsBound
  <2> QED
    BY <2>2, <2>3, <2>4
<1>6. ActiveIsOwn'
  BY <1>1, <1>2 DEF ActiveIsOwn, Kept, GatedStates
<1>7. OutcomeIsOwn'
  BY <1>1, <1>2 DEF OutcomeIsOwn, GatedStates
<1> QED
  BY <1>4, <1>5, <1>6, <1>7

LEMMA ReportStepKeeps ==
  ASSUME Holds, Kept, UNCHANGED results,
         ReportStaged \/ ReportOutcome \/ (LostAnswer /\ crun.step # "authorize")
  PROVE  ControllerHolds'
<1>1. crun.step # "idle" => crun.dep \in Deps /\ ctl.dep = crun.dep
  BY DEF Holds, RunKnown, ControllerHolds, RunIsBound
<1>2. /\ NextReport \in {"health_check_started", "succeeded"}
           => ctl.phase = "activation_succeeded"
      /\ NextReport \in {"rollback_started", "rolled_back"} => ctl.phase = "rolled_back"
      /\ NextReport = "recovery_failed" => ctl.phase = "recovery_failed"
      /\ NextReport \notin {"activation_started", "staged"}
  BY DEF NextReport
<1>3. CASE UNCHANGED backend /\ UNCHANGED ctl
  <2>1. PhaseIsBacked(ctl') /\ ctl' \in StateFiles
    BY <1>3 DEF Holds, ControllerHolds, ControllerTypes
  <2>2. CASE crun' \in {crun, NoCRun}
    BY <1>3, <2>1, <2>2, ControllerStep DEF Holds, ControllerHolds, RunIsBound, NoCRun
  <2>3. CASE ReportStaged /\ crun' \notin {crun, NoCRun}
    <3>1. /\ crun'.dep = crun.dep /\ crun'.step = FirstStep(backend[crun.dep])
          /\ crun.step # "idle"
      BY <1>3, <2>3 DEF ReportStaged, Holds, RunKnown
    <3>2. RunIsBound'
      BY <1>1, <1>3, <3>1 DEF RunIsBound, FirstStep, PastGate, GatedStates
    <3> QED
      BY <1>3, <2>1, <3>2, ControllerStep
  <2> QED
    BY <2>2, <2>3 DEF ReportOutcome, LostAnswer
<1>4. CASE ReportStaged /\ Moved(crun.dep, "staged")
  <2>1. (crun'.dep = crun.dep /\ crun'.step = "authorize") \/ crun' = NoCRun
    <3>1. backend'[crun.dep] = "staged" /\ crun.step # "idle"
      BY <1>1, <1>4 DEF ReportStaged, Moved, To, Holds, UpdaterHolds, UpdaterTypes, BackendTypes
    <3> QED
      BY <1>4, <3>1 DEF ReportStaged, FirstStep, Holds, RunKnown
  <2> QED
    BY <1>1, <1>4, <2>1, ReportKeeps DEF ReportStaged, ControllerEvents
<1>5. CASE LostAnswer /\ crun.step = "report_staged" /\ Moved(crun.dep, "staged")
  BY <1>1, <1>5, ReportKeeps DEF LostAnswer, ControllerEvents
<1>6. CASE /\ ReportOutcome \/ LostAnswer
           /\ crun.step = "report" /\ NextReport # "none" /\ Moved(crun.dep, NextReport)
  <2>1. crun' \in {crun, NoCRun} /\ ctl' = ctl
    BY <1>6 DEF ReportOutcome, LostAnswer
  <2> QED
    BY <1>1, <1>2, <1>6, <2>1, NextReportIsAnEvent, ReportKeeps
<1> QED
  BY <1>3, <1>4, <1>5, <1>6 DEF ReportStaged, ReportOutcome, LostAnswer, Reports, Moved, Remote

\* The gate: nothing that came before it counts, neither the entries up to
\* the anchor nor the release that is active.
LEMMA GateKeeps ==
  ASSUME Holds, Kept, UNCHANGED results, LocalStaged(Rel),
         crun.step = "authorize", Moved(crun.dep, "activation_started"),
         \/ ctl' = ctl /\ crun' = NoCRun
         \/ ctl' = Authorized /\ crun'.dep = crun.dep /\ crun'.step = "reconcile"
  PROVE  ControllerHolds'
<1> USE DEF Holds, ControllerHolds, ControllerTypes
<1> DEFINE d == crun.dep
<1>1. /\ d \in Deps /\ ctl.dep = d
      /\ backend[d] = "staged" /\ backend'[d] = "activating"
      /\ \A x \in Deps : x # d => backend'[x] = backend[x]
  BY DEF Moved, From, To, UpdaterHolds, UpdaterTypes, BackendTypes, RunKnown, RunIsBound
<1>2. state.active # Target[d] /\ state.history \in Seq(Entry)
  BY DEF LocalStaged, Rel, IInv, Types, Saved
<1>3. \/ ctl' = ctl
      \/ ctl' = [dep |-> d, phase |-> "activation_authorized", anchor |-> Len(state.history)]
  <2>1. "activation_authorized" \in Phases /\ Len(state.history) \in Nat
    BY <1>2 DEF Phases
  <2> QED
    BY <1>1, <2>1, StateFileWrites DEF Authorized
<1> HIDE DEF d
<1>4. ctl' \in StateFiles
  BY <1>1, <1>2, <1>3 DEF StateFiles, Phases
<1>5. PhaseIsBacked(ctl)'
  <2>1. CASE ctl' = ctl
    <3>1. ctl.phase \notin Outcomes \cup {"activation_authorized"}
      BY <1>1, PastGateIsPast DEF PhaseIsBacked, CancellableStates
    <3> QED
      BY <2>1, <3>1 DEF PhaseIsBacked, Outcomes
  <2>2. CASE ctl' = [dep |-> d, phase |-> "activation_authorized", anchor |-> Len(state.history)]
    <3>1. \A i \in DOMAIN state'.history : ~(i > Len(state.history))
      BY <1>2 DEF Kept
    <3>2. "activation_authorized" \notin Outcomes
      BY DEF Outcomes
    <3> QED
      BY <1>1, <2>2, <3>1, <3>2 DEF PhaseIsBacked, PastGate, GatedStates
  <2> QED
    BY <1>3, <2>1, <2>2
<1>6. RunIsBound'
  BY <1>1, <1>3 DEF RunIsBound, NoCRun, PastGate, GatedStates, d
<1>7. ActiveIsOwn'
  BY <1>1, <1>2 DEF ActiveIsOwn, Kept
<1>8. OutcomeIsOwn'
  BY <1>1 DEF OutcomeIsOwn
<1> QED
  BY <1>4, <1>5, <1>6, <1>7, <1>8

LEMMA AuthorizeKeeps ==
  ASSUME Holds, Kept, UNCHANGED results, AuthorizeActivation \/ LostAnswer,
         crun.step = "authorize"
  PROVE  ControllerHolds'
<1>1. CASE AuthorizeActivation /\ LocalStaged(Rel) /\ backend[crun.dep] = "staged"
  <2>1. crun'.dep = crun.dep /\ crun'.step = "reconcile"
    BY <1>1 DEF AuthorizeActivation, Holds, RunKnown
  <2> QED
    BY <1>1, <2>1, GateKeeps DEF AuthorizeActivation, Reports, Moved
<1>2. CASE AuthorizeActivation /\ ~(LocalStaged(Rel) /\ backend[crun.dep] = "staged")
  BY <1>2, RunOver DEF AuthorizeActivation, EndRun, Remote
<1>3. CASE LostAnswer
  BY <1>3, GateKeeps DEF LostAnswer, Reports, Moved
<1> QED
  BY <1>1, <1>2, <1>3

\* Committed activation-start or not: the noted state says no more than is so.
LEMMA NotedIsBacked ==
  ASSUME Holds, crun.step = "reconcile"
  PROVE  Noted \in StateFiles /\ Noted.dep = crun.dep /\ PhaseIsBacked(Noted)
<1> USE DEF Holds, ControllerHolds, ControllerTypes
<1>1. crun.dep \in Deps /\ ctl.dep = crun.dep /\ backend[crun.dep] \in PastGate
  BY DEF RunKnown, RunIsBound
<1>2. CASE Noted = ctl
  BY <1>1, <1>2
<1>3. CASE Noted = Authorized
  <2>1. state.history \in Seq(Entry)
    BY DEF IInv, Types, Saved
  <2>2. "activation_authorized" \in Phases /\ Len(state.history) \in Nat
    BY <2>1 DEF Phases
  <2>3. /\ Noted = [dep |-> crun.dep, phase |-> "activation_authorized",
                    anchor |-> Len(state.history)]
        /\ Noted \in StateFiles
    <3>1. Noted = [ctl EXCEPT !.phase = "activation_authorized", !.anchor = Len(state.history)]
      BY <1>3 DEF Authorized
    <3> DEFINE w == [dep |-> ctl.dep, phase |-> "activation_authorized",
                     anchor |-> Len(state.history)]
    <3>2. w \in StateFiles
      BY <2>2, StateFileWrites
    <3>3. Noted = w
      BY <2>2, <3>1, StateFileWrites
    <3> QED
      BY <1>1, <3>2, <3>3
  <2>4. \A i \in DOMAIN state.history : ~(i > Len(state.history))
    BY <2>1
  <2>5. "activation_authorized" \notin Outcomes
    BY DEF Outcomes
  <2> QED
    BY <1>1, <2>3, <2>4, <2>5 DEF PhaseIsBacked
<1> QED
  BY <1>2, <1>3 DEF Noted

\* An outcome that is found is written down, and the run goes on to report it.
LEMMA FoundKeeps ==
  ASSUME Holds, Kept, UNCHANGED results, UNCHANGED backend, crun.step # "idle",
         NEW c \in StateFiles, c.dep = crun.dep, PhaseIsBacked(c),
         c.phase = "activation_authorized",
         NEW o, o = LocalOutcome(Target[c.dep], c.anchor), o # "none",
         ctl' = [c EXCEPT !.phase = o], crun' = [crun EXCEPT !.step = "report"]
  PROVE  ControllerHolds'
<1>1. o \in Outcomes /\ o \in Phases
  BY OutcomeTypes DEF Outcomes, Phases, FinishedPhases
<1>2. ctl' = [dep |-> crun.dep, phase |-> o, anchor |-> c.anchor] /\ ctl' \in StateFiles
  <2>1. c.anchor \in Nat
    BY DEF StateFiles
  <2>2. ctl' = [dep |-> c.dep, phase |-> o, anchor |-> c.anchor]
    BY <1>1, <2>1, StateFileWrites
  <2>3. [dep |-> c.dep, phase |-> o, anchor |-> c.anchor] \in StateFiles
    BY <1>1, <2>1, StateFileWrites
  <2> QED
    BY <2>2, <2>3
<1>3. PhaseIsBacked(ctl')
  <2>1. backend[c.dep] \in GatedStates => o \in results[c.dep]
    BY OutcomeHappened
  <2>2. c.dep \in Deps /\ backend[c.dep] \in PastGate /\ o # "activation_authorized"
    BY <1>1 DEF PhaseIsBacked, Outcomes
  <2> QED
    BY <1>2, <2>1, <2>2 DEF PhaseIsBacked
<1>4. RunIsBound'
  BY <1>1, <1>2 DEF RunIsBound, Holds, RunKnown
<1> QED
  BY <1>2, <1>3, <1>4, ControllerStep

LEMMA ReconcileKeeps ==
  ASSUME Holds, Kept, UNCHANGED results, Reconcile
  PROVE  ControllerHolds'
<1> DEFINE o == LocalOutcome(Rel, Noted.anchor)
           authorized == Noted.phase = "activation_authorized"
<1>1. /\ crun.step = "reconcile" /\ UNCHANGED backend
      /\ \/ /\ authorized /\ o # "none"
            /\ ctl' = [Noted EXCEPT !.phase = o] /\ crun' = [crun EXCEPT !.step = "report"]
         \/ /\ Noted.phase \in {"rolled_back", "recovery_failed", o}
            /\ ctl' = Noted /\ crun' = [crun EXCEPT !.step = "report"]
         \/ /\ authorized
            /\ ctl' = Noted /\ crun' = [crun EXCEPT !.step = "activating"]
         \/ crun' = NoCRun /\ ctl' = ctl
  BY Zenon DEF Reconcile, CGoto, EndRun, Remote
<1>2. Noted \in StateFiles /\ Noted.dep = crun.dep /\ PhaseIsBacked(Noted)
  BY <1>1, NotedIsBacked
<1>3. Rel = Target[Noted.dep]
  BY <1>2 DEF Rel
<1>4. CASE /\ authorized /\ o # "none"
           /\ ctl' = [Noted EXCEPT !.phase = o] /\ crun' = [crun EXCEPT !.step = "report"]
  BY <1>1, <1>2, <1>3, <1>4, FoundKeeps
<1>5. ASSUME NEW s \in {"report", "activating"}, ctl' = Noted,
             crun' = [crun EXCEPT !.step = s],
             s = "report" => Noted.phase \in Outcomes,
             s = "activating" => authorized
      PROVE  ControllerHolds'
  <2>1. crun'.step = s /\ crun'.dep = crun.dep
    BY <1>5 DEF Holds, RunKnown
  <2>2. RunIsBound'
    BY <1>2, <1>5, <2>1 DEF RunIsBound
  <2> QED
    BY <1>1, <1>2, <1>5, <2>2, ControllerStep
<1>6. Noted.phase \in {"rolled_back", "recovery_failed", o} => Noted.phase \in Outcomes
  <2>1. o \in Outcomes \cup {"none"} /\ Noted.phase # "none"
    BY <1>2, OutcomeTypes DEF StateFiles, Phases, FinishedPhases
  <2> QED
    BY <2>1 DEF Outcomes
<1>7. CASE crun' = NoCRun /\ ctl' = ctl
  BY <1>1, <1>7, RunOver
<1> QED
  BY <1>1, <1>4, <1>5, <1>6, <1>7

LEMMA MarkOutcomeKeeps ==
  ASSUME Holds, Kept, UNCHANGED results, MarkOutcome
  PROVE  ControllerHolds'
<1> DEFINE o == LocalOutcome(Rel, ctl.anchor)
<1>1. /\ crun.step = "activating" /\ UNCHANGED backend
      /\ ctl \in StateFiles /\ ctl.dep = crun.dep /\ PhaseIsBacked(ctl)
      /\ ctl.phase = "activation_authorized"
  BY DEF MarkOutcome, Remote, Holds, ControllerHolds, ControllerTypes, RunIsBound
<1>2. CASE o = "none"
  BY <1>1, <1>2, RunOver DEF MarkOutcome
<1>3. CASE o # "none"
  <2>1. ctl' = [ctl EXCEPT !.phase = o] /\ crun' = [crun EXCEPT !.step = "report"]
    BY <1>3 DEF MarkOutcome, CGoto
  <2>2. Rel = Target[ctl.dep]
    BY <1>1 DEF Rel
  <2> QED
    BY <1>1, <1>3, <2>1, <2>2, FoundKeeps
<1> QED
  BY <1>2, <1>3

LEMMA ControllerKeeps ==
  ASSUME Holds, ControllerMoves, UNCHANGED results, Kept
  PROVE  ControllerHolds'
BY PollKeeps, EarlyStepKeeps, ReportStepKeeps, AuthorizeKeeps, ReconcileKeeps, MarkOutcomeKeeps
   DEF ControllerMoves, Controller, RunStep, AuthorizeActivation

LEMMA HoldsStep ==
  ASSUME ~LateFaults, Holds, [Next]_vars
  PROVE  Holds'
<1>1. [RTNext]_rtvars /\ RunKnown' /\ UpdaterHolds'
  BY NextIsLocal, RunNext, UpdaterNext DEF Holds
<1>2. IInv'
  BY <1>1, RequestedStep, ForwardStep, BackwardStep, FaultStep, Interrupted, Unchanged
     DEF Holds, RTNext
<1>3. ControllerHolds'
  BY OutcomeMoves, TransactionKeepsController, OutsideKeepsController, ControllerKeeps DEF Holds
<1> QED
  BY <1>1, <1>2, <1>3 DEF Holds

(***************************************************************************)
(* What the backend is told of a deployment is what became of an           *)
(* activation of its release since its own gate was opened, whatever       *)
(* crashed and whatever answer was lost (_local_activation_outcome,        *)
(* mark_activation_authorized, _report_success).                           *)
(***************************************************************************)
THEOREM ReportedOutcomeIsOwn == ASSUME ~LateFaults PROVE Spec => []OutcomeIsOwn
<1>1. Init => Holds
  BY RunInit, InitHolds, UpdaterInit, ControllerInit DEF Init, Holds
<1>2. Holds => OutcomeIsOwn
  BY DEF Holds, ControllerHolds
<1> QED
  BY <1>1, <1>2, HoldsStep, PTL DEF Spec
=============================================================================
