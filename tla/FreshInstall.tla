---------------------------- MODULE FreshInstall ----------------------------
(***************************************************************************)
(* The machine of one client on its way from the factory to the customer:  *)
(* factory preparation, the customer's activation with the canonical       *)
(* installer, the reboot before approval, the waiter that activates, and   *)
(* acceptance after the final reboot (client/bootstrap, clientflow_release *)
(* cli.py and enrollment.py, post_final_reboot_acceptance.py).             *)
(*                                                                         *)
(* run is the one process at work; it ends with the power, with an error   *)
(* or because its window is closed.  host, inst and handoff are on disk.   *)
(* Its requests are answered by the handlers of Clients.                   *)
(***************************************************************************)
EXTENDS Clients, Sequences

CONSTANTS
  Machine,   \* the install id this machine gives itself
  MaxBoots,  \* bound on reboots and losses of power
  MaxFaults, \* bound on steps that fail
  MaxTries   \* StartLimitBurst of the acceptance service, in one boot

ASSUME FreshInstallAssumption ==
  /\ Machine \in Installs
  /\ {MaxBoots, MaxFaults, MaxTries} \subseteq Nat

VARIABLES
  host,     \* what was prepared on the machine and is still there
  inst,     \* install-state.json, the credentials and the cached bundle
  handoff,  \* customer-handoff.json
  run,      \* the process at work
  boot,     \* number of the boot
  faults    \* steps that failed

frvars == <<host, inst, handoff, run, boot, faults>>

Idle == [at |-> "none", code |-> Nil, answered |-> FALSE]

FrInit ==
  /\ host = {}
  /\ inst = [status |-> "none", creds |-> FALSE, bundle |-> FALSE, preclaim |-> 0, waiter |-> 0, active |-> FALSE]
  /\ handoff = [status |-> "none", boot |-> 0, tries |-> 0]
  /\ run = Idle
  /\ boot = 1
  /\ faults = 0

At(s) == run.at = s
Goes(s) == run' = [run EXCEPT !.at = s]
Stops == run' = Idle

\* What an action of the machine leaves alone.
Backend == UNCHANGED clvars
SameHost == UNCHANGED <<handoff, boot, faults>>

-----------------------------------------------------------------------------
(***************************************************************************)
(* Factory preparation.  It can be repeated until it has handed over.      *)
(***************************************************************************)
FactoryOrder ==
  <<"connect", "reach", "name", "accounts", "welcome", "popups", "guard", "desktop", "login",
    "hide", "launcher", "allow", "forget", "usb", "hand_over">>

\* factory_prepare; usb_preflight leaves the network and its note on the machine.
FactoryBegins ==
  /\ At("none")
  /\ "hand_over" \notin host
  /\ Goes("connect")
  /\ UNCHANGED <<host, inst>> /\ SameHost /\ Backend

\* The next step of factory_prepare, when it succeeds.
Factory(step, prepared) ==
  /\ At(step)
  /\ host' = prepared
  /\ Goes(LET n == CHOOSE n \in DOMAIN FactoryOrder : FactoryOrder[n] = step
          IN IF n = Len(FactoryOrder) THEN "none" ELSE FactoryOrder[n + 1])
  /\ UNCHANGED inst /\ SameHost /\ Backend

ConnectNetwork == Factory("connect", host \cup {"network", "usb"})
ReachBackend == "network" \in host /\ Factory("reach", host)
NameClient == Factory("name", host \cup {"name"})
ProvisionAccounts == Factory("accounts", host \cup {"accounts"})
SkipWelcome == Factory("welcome", host \cup {"welcome"})
SilencePopups == Factory("popups", host \cup {"popups"})
GuardNetwork == Factory("guard", host \cup {"guard"})
PrepareDesktop == Factory("desktop", host \cup {"desktop"})
LogKioskIn == Factory("login", host \cup {"login"})
HideOperator == Factory("hide", host \cup {"hide"})
PlaceLauncher == Factory("launcher", host \cup {"launcher"})
AllowActivation == Factory("allow", host \cup {"allow"})
ForgetNetworks == Factory("forget", host \ {"network"})
ForgetUsb == Factory("usb", host \ {"usb"})

\* validate_factory_handoff
ReadyToHandOver ==
  /\ {"name", "accounts", "welcome", "popups", "guard", "desktop", "login", "hide", "launcher", "allow"} \subseteq host
  /\ "network" \notin host
HandOver == ReadyToHandOver /\ Factory("hand_over", host \cup {"hand_over"})

FactoryNext ==
  \/ FactoryBegins
  \/ ConnectNetwork \/ ReachBackend \/ NameClient \/ ProvisionAccounts \/ SkipWelcome
  \/ SilencePopups \/ GuardNetwork \/ PrepareDesktop \/ LogKioskIn \/ HideOperator
  \/ PlaceLauncher \/ AllowActivation \/ ForgetNetworks \/ ForgetUsb \/ HandOver

-----------------------------------------------------------------------------
(***************************************************************************)
(* The customer's activation: _customer_install, which runs install_fresh. *)
(***************************************************************************)
Settled == inst.status \in {"pending", "activated"}

\* A new installation, with a code for which the bundle is fetched.
CustomerBegins(k) ==
  /\ At("none") /\ {"hand_over", "launcher", "allow"} \subseteq host
  /\ inst.status = "none"
  /\ Usable(k)
  /\ inst' = [inst EXCEPT !.bundle = TRUE]
  /\ run' = [at |-> "prepare", code |-> k, answered |-> FALSE]
  /\ UNCHANGED host /\ SameHost /\ Backend

\* The code is not asked for again, nor kept.
CustomerResumes ==
  /\ At("none") /\ {"hand_over", "launcher", "allow"} \subseteq host
  /\ inst.status # "none" /\ inst.status # "activated"
  /\ Settled \/ inst.bundle
  /\ run' = [Idle EXCEPT !.at = IF Settled THEN "clear" ELSE "prepare"]
  /\ UNCHANGED <<host, inst>> /\ SameHost /\ Backend

\* Ubuntu, with its packages repaired, up to date and healthy.
PrepareHost ==
  /\ At("prepare")
  /\ host' = host \cup {"healthy", "network"}
  /\ Goes("prove")
  /\ UNCHANGED inst /\ SameHost /\ Backend

ProveNetwork ==
  /\ At("prove") /\ "network" \in host
  /\ Goes("begin")
  /\ UNCHANGED <<host, inst>> /\ SameHost /\ Backend

\* What a new installation must not find; it comes from the factory.
NoConflicts == inst.status = "none" /\ ~inst.creds /\ "accounts" \in host

\* install_fresh up to the claim: the state, with the boot it was made in.
InstallBegins ==
  /\ At("begin")
  /\ inst.status # "none" \/ NoConflicts
  /\ inst' = IF inst.status = "none" THEN [inst EXCEPT !.status = "initialized", !.preclaim = boot] ELSE inst
  /\ Goes(IF ~inst.creds THEN "claim" ELSE IF inst.status = "enrollment_completed" THEN "finish" ELSE "complete")
  /\ UNCHANGED host /\ SameHost /\ Backend

\* The first claim, with its code, and the wait for the answer.
SendClaim ==
  /\ At("claim") /\ run.code # Nil
  /\ ClaimReads(Machine, run.code)
  /\ Goes("claiming")
  /\ UNCHANGED <<host, inst>> /\ SameHost

ClaimAnswered ==
  /\ \/ At("claiming") /\ There(Machine)
     \/ At("claim") /\ CanResume(Machine)
  /\ run' = [run EXCEPT !.at = "stage", !.answered = TRUE]
  /\ UNCHANGED <<host, inst>> /\ SameHost /\ Backend

\* What is left when a new installation was refused: nothing.
Cleaned == [inst EXCEPT !.status = "none", !.preclaim = 0, !.bundle = FALSE]

\* The backend says no before it has committed anything.
ClaimRefused ==
  /\ At("claim")
  /\ ~CanResume(Machine)
  /\ run.code # Nil => ~Usable(run.code)
  /\ inst' = IF run.code # Nil THEN Cleaned ELSE inst
  /\ Stops
  /\ UNCHANGED host /\ SameHost /\ Backend

\* No answer, or a 5xx: the installation can be resumed.
ClaimUnanswered ==
  /\ At("claiming")
  /\ faults < MaxFaults
  /\ faults' = faults + 1
  /\ Stops
  /\ UNCHANGED <<host, inst, handoff, boot>> /\ Backend

StageRelease ==
  /\ At("stage")
  /\ host' = host \cup {"staged"}
  /\ Goes("configure")
  /\ UNCHANGED inst /\ SameHost /\ Backend

\* With the accounts as the factory made them.
Configure ==
  /\ At("configure") /\ "accounts" \in host
  /\ inst' = [inst EXCEPT !.status = "staged_inactive"]
  /\ Goes("persist")
  /\ UNCHANGED host /\ SameHost /\ Backend

\* persist_enrollment; the identity, written last, makes them complete.
PersistCredentials ==
  /\ At("persist") /\ ~inst.creds
  /\ inst' = [inst EXCEPT !.creds = TRUE]
  /\ UNCHANGED <<host, run>> /\ SameHost /\ Backend

NotePersisted ==
  /\ At("persist") /\ inst.creds
  /\ inst' = [inst EXCEPT !.status = "credentials_persisted"]
  /\ Goes("complete")
  /\ UNCHANGED host /\ SameHost /\ Backend

\* The state is written before the backend is told.
Mut_SendComplete ==
  /\ At("complete")
  /\ Goes("completing")
  /\ inst' = [inst EXCEPT !.status = "enrollment_completed"]
  /\ UNCHANGED host /\ SameHost /\ Backend

SendComplete ==
  /\ At("complete")
  /\ CompleteEnrollment(Machine)
  /\ Goes("completing")
  /\ UNCHANGED <<host, inst>> /\ SameHost

NoteCompleted ==
  /\ At("completing")
  /\ inst' = [inst EXCEPT !.status = "enrollment_completed"]
  /\ Goes("finish")
  /\ UNCHANGED host /\ SameHost /\ Backend

InstallUpdaterHost ==
  /\ At("finish")
  /\ host' = host \cup {"updater"}
  /\ Goes("describe")
  /\ UNCHANGED inst /\ SameHost /\ Backend

\* _validate_inactive_install
Inactive == {"staged", "updater"} \subseteq host /\ inst.creds /\ ~inst.active

\* The metadata are written from the answer to the claim of this very run.
FinishInstall ==
  /\ At("describe") /\ run.answered /\ Inactive
  /\ inst' = [inst EXCEPT !.status = "pending"]
  /\ Goes("clear")
  /\ UNCHANGED host /\ SameHost /\ Backend

\* A run that did not claim has no answer to write them from.
FinishWithoutAnswer ==
  /\ At("describe") /\ ~run.answered
  /\ Stops
  /\ UNCHANGED <<host, inst>> /\ SameHost /\ Backend

ClearBundle ==
  /\ At("clear")
  /\ inst' = [inst EXCEPT !.bundle = FALSE]
  /\ Goes("retire")
  /\ UNCHANGED host /\ SameHost /\ Backend

\* The customer can not start the activation again from here on.
RetireLauncher ==
  /\ At("retire")
  /\ host' = host \ {"launcher", "allow"}
  /\ Goes("session")
  /\ UNCHANGED inst /\ SameHost /\ Backend

PrepareSession ==
  /\ At("session")
  /\ host' = host \cup {"gui"}
  /\ Goes("wait")
  /\ UNCHANGED inst /\ SameHost /\ Backend

\* Enabled, not started: the waiter runs from the next boot on.
InstallWaiter ==
  /\ At("wait")
  /\ inst' = [inst EXCEPT !.waiter = boot]
  /\ Goes("confirm")
  /\ UNCHANGED host /\ SameHost /\ Backend

\* The customer may leave the reboot for later.
ConfirmReboot ==
  /\ At("confirm")
  /\ Stops
  /\ UNCHANGED <<host, inst>> /\ SameHost /\ Backend

\* A step raises, or the customer closes the window.
RunFails ==
  /\ ~At("none") /\ ~At("claiming")
  /\ faults < MaxFaults
  /\ faults' = faults + 1
  /\ Stops
  /\ UNCHANGED <<host, inst, handoff, boot>> /\ Backend

Reboot ==
  /\ boot < MaxBoots
  /\ boot' = boot + 1
  /\ handoff' = [handoff EXCEPT !.tries = 0]
  /\ Stops
  /\ UNCHANGED <<host, inst, faults>> /\ Backend

-----------------------------------------------------------------------------
(***************************************************************************)
(* The waiter: _activation_wait.  A try that fails is made again.          *)
(***************************************************************************)
WaiterRuns == inst.waiter # 0 /\ boot > inst.waiter

\* _publish_post_reboot_approval_readiness, on the machine.
ShowsReady == boot # inst.preclaim /\ "gui" \in host

WaiterPublishes ==
  /\ WaiterRuns /\ At("none")
  /\ inst.status = "pending" /\ ShowsReady
  /\ PublishApprovalReadiness(Machine)
  /\ Goes("published")
  /\ UNCHANGED <<host, inst>> /\ SameHost

\* The waiter tries again until it is listened to.
Mut_WaiterIsTurnedAway ==
  /\ WaiterRuns /\ At("none")
  /\ inst.status = "pending" /\ ShowsReady
  /\ ~AcceptsReadiness(Machine)
  /\ UNCHANGED <<host, inst, run>> /\ SameHost /\ Backend

\* Only a pending client is listened to; a 401 does not stop the waiter.
WaiterIsTurnedAway ==
  /\ WaiterRuns /\ At("none")
  /\ inst.status = "pending" /\ ShowsReady
  /\ ~AcceptsReadiness(Machine)
  /\ Goes("published")
  /\ UNCHANGED <<host, inst>> /\ SameHost /\ Backend

\* _prove_backend_client_approved, and the activation of the release.
WaiterActivates ==
  /\ At("published")
  /\ inst.active \/ GetsToken(Machine)
  /\ inst' = [inst EXCEPT !.active = TRUE]
  /\ Goes("activated")
  /\ UNCHANGED host /\ SameHost /\ Backend

\* A newer release can be the first one, by hand.
RepairFirstActivation ==
  /\ At("none")
  /\ inst.status = "pending" /\ ~inst.active
  /\ "staged" \in host
  /\ GetsToken(Machine)
  /\ inst' = [inst EXCEPT !.active = TRUE]
  /\ Goes("activated")
  /\ UNCHANGED host /\ SameHost /\ Backend

\* cleanup_bootstrap_user
RemoveOperator ==
  /\ At("activated")
  /\ host' = host \ {"hide"}
  /\ Goes("operator_gone")
  /\ UNCHANGED inst /\ SameHost /\ Backend

\* _finalize_install_state_after_activation
NoteActivated ==
  /\ At("operator_gone") /\ inst.active
  /\ inst' = [inst EXCEPT !.status = "activated"]
  /\ Stops
  /\ UNCHANGED host /\ SameHost /\ Backend

WaiterWaits ==
  /\ At("published")
  /\ ~inst.active /\ ~GetsToken(Machine)
  /\ Stops
  /\ UNCHANGED <<host, inst>> /\ SameHost /\ Backend

\* _finalize_activated_customer_handoff
Lockdown ==
  /\ WaiterRuns /\ At("none")
  /\ inst.status = "activated" /\ handoff.status = "none"
  /\ host' = (host \ {"gui"}) \cup {"lockdown"}
  /\ Goes("locked")
  /\ UNCHANGED inst /\ SameHost /\ Backend

StageHandoff ==
  /\ At("locked")
  /\ handoff' = [status |-> "awaiting", boot |-> boot, tries |-> 0]
  /\ Stops
  /\ UNCHANGED <<host, inst, boot, faults>> /\ Backend

FinalReboot ==
  /\ WaiterRuns /\ At("none")
  /\ inst.status = "activated" /\ handoff.status = "awaiting" /\ handoff.boot = boot
  /\ Reboot

CleanUp ==
  /\ WaiterRuns /\ At("none")
  /\ inst.status = "activated" /\ handoff.status # "none"
  /\ handoff.status = "accepted" \/ handoff.boot # boot
  /\ inst' = [inst EXCEPT !.waiter = 0]
  /\ host' = host \ {"hand_over", "gui", "guard"}
  /\ UNCHANGED run /\ SameHost /\ Backend

\* verify_and_accept
Accept ==
  /\ handoff.status = "awaiting"
  /\ boot # handoff.boot
  /\ handoff.tries < MaxTries
  /\ "lockdown" \in host
  /\ GetsToken(Machine)
  /\ handoff' = [handoff EXCEPT !.status = "accepted"]
  /\ UNCHANGED <<host, inst, run, boot, faults>> /\ Backend

\* The session, the browser, its guard or a service is not there yet.
AcceptanceFails ==
  /\ handoff.status = "awaiting"
  /\ boot # handoff.boot
  /\ handoff.tries < MaxTries
  /\ faults < MaxFaults
  /\ faults' = faults + 1
  /\ handoff' = [handoff EXCEPT !.tries = @ + 1]
  /\ UNCHANGED <<host, inst, run, boot>> /\ Backend

-----------------------------------------------------------------------------
Customer == CustomerResumes \/ \E k \in Tokens : CustomerBegins(k)

Installer ==
  \/ PrepareHost \/ ProveNetwork \/ InstallBegins \/ SendClaim \/ ClaimAnswered \/ ClaimRefused
  \/ StageRelease \/ Configure \/ PersistCredentials \/ NotePersisted
  \/ SendComplete \/ NoteCompleted \/ InstallUpdaterHost \/ FinishInstall \/ FinishWithoutAnswer
  \/ ClearBundle \/ RetireLauncher \/ PrepareSession \/ InstallWaiter \/ ConfirmReboot

Waiter ==
  \/ WaiterPublishes \/ WaiterIsTurnedAway \/ WaiterActivates \/ WaiterWaits
  \/ RemoveOperator \/ NoteActivated
  \/ Lockdown \/ StageHandoff \/ FinalReboot \/ CleanUp

MachineNext ==
  \/ FactoryNext
  \/ Customer \/ Installer \/ Waiter \/ Accept
  \/ RepairFirstActivation \/ AcceptanceFails \/ RunFails \/ ClaimUnanswered \/ Reboot
  \/ ReportStatus(Machine) /\ UNCHANGED frvars

\* The customer keeps trying, services that run go on, and the backend answers.
FrFairness ==
  /\ WF_<<clvars, frvars>>(Customer) /\ WF_<<clvars, frvars>>(Installer)
  /\ WF_<<clvars, frvars>>(Waiter) /\ WF_<<clvars, frvars>>(Accept)
  /\ WF_<<clvars, frvars>>(ClaimCommits(Machine) /\ UNCHANGED frvars)

\* The machine, with all that happens at the backend and other machines meanwhile.
FrNext ==
  \/ ClAdminNext /\ UNCHANGED frvars
  \/ (\E i \in Installs \ {Machine} : ClMachineNext(i)) /\ UNCHANGED frvars
  \/ MachineNext

FrSpec == ClInit /\ FrInit /\ [][FrNext]_<<clvars, frvars>>

-----------------------------------------------------------------------------
(***************************************************************************)
(* A machine that forgot its installation was refused by the backend       *)
(* before a client was made of it: wiping the state of a claim that did    *)
(* commit would leave a client nobody can ever resume (the comment on      *)
(* EnrollmentHTTPError in install_fresh).                                  *)
(***************************************************************************)
ForgottenIsRefused ==
  inst.status = "none" => clients[Machine].row = "none" /\ claims[Machine] = Nil

(***************************************************************************)
(* A machine that takes its enrollment for completed has a client whose    *)
(* receipt is completed, unless the client was deleted for good.           *)
(***************************************************************************)
CompletedIsKnown ==
  inst.status \in {"enrollment_completed", "pending", "activated"} =>
    clients[Machine].receipt = "done" \/ clients[Machine].row = "gone"

(***************************************************************************)
(* A client that is approved, or was when it went to the bin, has been     *)
(* rebooted since before its claim (approve_client, restore_client and     *)
(* the readiness proof).                                                   *)
(***************************************************************************)
ApprovedHasRebooted ==
  "approved" \in {clients[Machine].status, clients[Machine].before} =>
    \/ inst.waiter # 0 /\ boot # inst.preclaim
    \/ inst.status = "activated"

(***************************************************************************)
(* The machine and the backend agree on how far the installation is.       *)
(***************************************************************************)
InstallKeepsTrack == ForgottenIsRefused /\ CompletedIsKnown /\ ApprovedHasRebooted

(***************************************************************************)
(* A machine that waits for approval and whose client is approved for good *)
(* is handed over in the end.                                              *)
(***************************************************************************)
HandoverSettles ==
  (WaiterRuns /\ GetsToken(Machine) /\ boot < MaxBoots)
    ~> (handoff.status = "accepted" \/ ~GetsToken(Machine) \/ boot = MaxBoots)

(***************************************************************************)
(* An installation whose credentials are on disk becomes pending when the  *)
(* customer keeps trying (the comment in install_fresh on a resumed        *)
(* transaction with already-persisted credentials).                        *)
(***************************************************************************)
CredentialsBecomePending ==
  inst.creds ~> (Settled \/ clients[Machine].row = "gone" \/ ReceiptOver(Machine))
=============================================================================
