----------------------------- MODULE Deployment -----------------------------
(***************************************************************************)
(* The ClientFlow deployments of one client, and the System commands they  *)
(* exclude (backend/service1/clientflow_deployments.py,                    *)
(* routers/clientflow_deployments.py, routers/clientflow_update.py,        *)
(* routers/clients.py).                                                    *)
(*                                                                         *)
(* Two kinds of job are produced for the client: deployments, and System   *)
(* commands.  A producer looks for a job in the way, takes the row lock of *)
(* the client, looks again, inserts its row and commits; what it inserted  *)
(* is visible to the others only then.  The one event loop of the backend  *)
(* starts a request and closes its session when it has ended.  Handlers    *)
(* declared with def run in threads between the two; the producers of      *)
(* AsyncCommands are async def and run on the loop itself.                 *)
(*                                                                         *)
(* The updater's reports lock the deployment's row before they read it, so *)
(* each is one action.  Cancel does not: it reads the row first, keeps     *)
(* that object in its session, and the locking SELECT that follows returns *)
(* the same object unrefreshed.                                            *)
(***************************************************************************)
EXTENDS Naturals, DeploymentStates

CONSTANTS
  Deployments,  \* identities of the rows of clientflow_deployment
  Commands,     \* identities of the System rows of client_command
  AsyncCommands,\* those whose producer is an async def: OS and firmware updates
  Producers,    \* concurrent requests that create a job
  None

Jobs == Deployments \cup Commands

ASSUME DeploymentAssumption ==
  /\ Deployments \cap Commands = {}
  /\ AsyncCommands \subseteq Commands
  /\ None \notin Jobs
  /\ None \notin Producers

VARIABLES
  state,       \* ClientFlowDeployment.state
  trail,       \* the types of the events recorded for a deployment
  cancelling,  \* the state a cancel request has read, while it is in flight
  command,     \* a System command: absent, active or over
  lock,        \* the producer that holds the row lock of the client
  loop,        \* the producer that occupies the event loop
  producer     \* how far a producer is, and the job it is to create

tables == <<state, trail, cancelling, command>>
vars == <<tables, lock, loop, producer>>

(***************************************************************************)
(* active_deployment and active_system_command, as the committed tables    *)
(* answer them.  A deployment is active until completed_at is set, which   *)
(* is when its state becomes terminal.                                     *)
(***************************************************************************)
ActiveDeployment(d) == state[d] \in ActiveStates
ActiveCommand(c) == command[c] = "active"

Clear ==
  /\ \A d \in Deployments : ~ActiveDeployment(d)
  /\ \A c \in Commands : ~ActiveCommand(c)

Fresh(j) ==
  /\ j \in Deployments => state[j] = "absent"
  /\ j \in Commands => command[j] = "absent"
  /\ \A p \in Producers : producer[p].job # j

Idle == [step |-> "idle", job |-> None]

Init ==
  /\ state = [d \in Deployments |-> "absent"]
  /\ trail = [d \in Deployments |-> {}]
  /\ cancelling = [d \in Deployments |-> "none"]
  /\ command = [c \in Commands |-> "absent"]
  /\ lock = None
  /\ loop = None
  /\ producer = [p \in Producers |-> Idle]

-----------------------------------------------------------------------------
(***************************************************************************)
(* The producers: create_clientflow_deployment for a deployment, and       *)
(* set_system_command with the other System producers of routers/clients.  *)
(***************************************************************************)
\* The loop takes the request, and gives it a thread unless it is async.
Dispatch(p, j) ==
  /\ loop = None
  /\ producer[p] = Idle
  /\ Fresh(j)
  /\ producer' = [producer EXCEPT ![p] = [step |-> "started", job |-> j]]
  /\ loop' = IF j \in AsyncCommands THEN p ELSE None
  /\ UNCHANGED <<tables, lock>>

\* The preliminary check of the request, without the lock.
Check(p) ==
  /\ producer[p].step = "started"
  /\ \A d \in Deployments : ~ActiveDeployment(d)
  /\ producer[p].job \in Deployments => \A c \in Commands : ~ActiveCommand(c)
  /\ producer' = [producer EXCEPT ![p].step = "checked"]
  /\ UNCHANGED <<tables, lock, loop>>

\* lock_system_client: there is no limit to the wait.
Lock(p) ==
  /\ producer[p].step = "checked"
  /\ lock = None
  /\ lock' = p
  /\ producer' = [producer EXCEPT ![p].step = "locked"]
  /\ UNCHANGED <<tables, loop>>

\* The check after the lock dropped.
Mut_Insert(p) ==
  /\ producer[p].step = "locked"
  /\ producer' = [producer EXCEPT ![p].step = "inserted"]
  /\ UNCHANGED <<tables, lock, loop>>

\* The check again, now under the lock, and the insert it permits.
Insert(p) ==
  /\ producer[p].step = "locked"
  /\ Clear
  /\ producer' = [producer EXCEPT ![p].step = "inserted"]
  /\ UNCHANGED <<tables, lock, loop>>

Without(holder, p) == IF holder = p THEN None ELSE holder

\* The handler returns or raises; an async one leaves the loop.
Ended(p) ==
  /\ producer' = [producer EXCEPT ![p].step = "done"]
  /\ loop' = Without(loop, p)

Commit(p) ==
  LET j == producer[p].job IN
  /\ producer[p].step = "inserted"
  /\ IF j \in Deployments
       THEN /\ state' = [state EXCEPT ![j] = "authorized"]
            /\ trail' = [trail EXCEPT ![j] = {"authorized"}]
            /\ UNCHANGED command
       ELSE /\ command' = [command EXCEPT ![j] = "active"]
            /\ UNCHANGED <<state, trail>>
  /\ lock' = Without(lock, p)
  /\ Ended(p)
  /\ UNCHANGED cancelling

(***************************************************************************)
(* A job in the way, the same command already requested, an ineligible     *)
(* release or a missing key: the handler ends without a rollback, and what *)
(* it has locked stays locked until its session is closed.                 *)
(***************************************************************************)
Refuse(p) ==
  /\ producer[p].step \in {"started", "locked"}
  /\ Ended(p)
  /\ UNCHANGED <<tables, lock>>

\* ClientFlowDeploymentConflict is caught, and the transaction rolled back.
Conflict(p) ==
  /\ producer[p].step = "locked"
  /\ producer[p].job \in Deployments
  /\ \E d \in Deployments : ActiveDeployment(d)
  /\ lock' = Without(lock, p)
  /\ Ended(p)
  /\ UNCHANGED tables

\* get_session: the loop closes the session of a request that has ended.
Close(p) ==
  /\ loop = None
  /\ producer[p].step = "done"
  /\ lock' = Without(lock, p)
  /\ producer' = [producer EXCEPT ![p] = Idle]
  /\ UNCHANGED <<tables, loop>>

\* The backend process dies and starts anew: every transaction is rolled back.
Restart ==
  /\ lock' = None
  /\ loop' = None
  /\ producer' = [p \in Producers |-> Idle]
  /\ cancelling' = [d \in Deployments |-> "none"]
  /\ UNCHANGED <<state, trail, command>>

\* A command ends, or passes its expires_at, and stops being active.
CommandOver(c) ==
  /\ ActiveCommand(c)
  /\ command' = [command EXCEPT ![c] = "over"]
  /\ UNCHANGED <<state, trail, cancelling, lock, loop, producer>>

-----------------------------------------------------------------------------
(***************************************************************************)
(* An event of the updater, under a fresh event id.  A replay of a         *)
(* recorded event id is answered without a change, and an observation only *)
(* adds to the record: both are stutters.  As no state is entered twice,   *)
(* an event recorded once is refused when it comes again under another id. *)
(***************************************************************************)
Accept(d, e) ==
  /\ state' = [state EXCEPT ![d] = To[e]]
  /\ trail' = [trail EXCEPT ![d] = @ \cup {e}]
  /\ UNCHANGED <<cancelling, command, lock, loop, producer>>

\* A failure is accepted in every state that is not terminal.
Mut_Report(d, e) ==
  /\ e # "activation_started"
  /\ state[d] \in (IF e = "failed" THEN ActiveStates ELSE From[e])
  /\ Accept(d, e)

Report(d, e) ==
  /\ e # "activation_started"
  /\ state[d] \in From[e]
  /\ Accept(d, e)

AuthorizeActivation(d) ==
  /\ state[d] \in From.activation_started
  /\ Accept(d, "activation_started")

-----------------------------------------------------------------------------

\* _deployment_or_404: the row as it is before it is locked.
BeginCancel(d) ==
  /\ state[d] # "absent"
  /\ cancelling[d] = "none"
  /\ cancelling' = [cancelling EXCEPT ![d] = state[d]]
  /\ UNCHANGED <<state, trail, command, lock, loop, producer>>

(***************************************************************************)
(* cancel_deployment decides by the state that was read, and writes what   *)
(* it decided on the row as it is.                                         *)
(***************************************************************************)
FinishCancel(d) ==
  /\ cancelling[d] # "none"
  /\ IF cancelling[d] \in CancellableStates
       THEN /\ state' = [state EXCEPT ![d] = "cancelled"]
            /\ trail' = [trail EXCEPT ![d] = @ \cup {"cancelled"}]
       ELSE UNCHANGED <<state, trail>>
  /\ cancelling' = [cancelling EXCEPT ![d] = "none"]
  /\ UNCHANGED <<command, lock, loop, producer>>

Next ==
  \/ \E p \in Producers :
       \/ \E j \in Jobs : Dispatch(p, j)
       \/ Check(p) \/ Lock(p) \/ Insert(p) \/ Commit(p)
       \/ Refuse(p) \/ Conflict(p) \/ Close(p)
  \/ Restart
  \/ \E c \in Commands : CommandOver(c)
  \/ \E d \in Deployments :
       \/ \E e \in Events : Report(d, e)
       \/ AuthorizeActivation(d)
       \/ BeginCancel(d) \/ FinishCancel(d)

Spec == Init /\ [][Next]_vars

(***************************************************************************)
(* Threads run, the database queues those that wait for a row in order,    *)
(* and the event loop, whenever it is free, comes back to every request    *)
(* that has ended.                                                         *)
(***************************************************************************)
Work(p) == Check(p) \/ Insert(p) \/ Commit(p) \/ Refuse(p) \/ Conflict(p)

FairSpec ==
  /\ Spec
  /\ \A p \in Producers : WF_vars(Work(p)) /\ SF_vars(Lock(p)) /\ SF_vars(Close(p))

-----------------------------------------------------------------------------
\* Every variable has its type: the columns, the requests in flight.
TypeOK ==
  /\ state \in [Deployments -> States \cup {"absent"}]
  /\ trail \in [Deployments -> SUBSET (Events \cup {"authorized", "cancelled"})]
  /\ cancelling \in [Deployments -> States \cup {"none"}]
  /\ command \in [Commands -> {"absent", "active", "over"}]
  /\ {lock, loop} \subseteq Producers \cup {None}
  /\ producer \in [Producers -> [step : {"idle", "started", "checked", "locked",
                                         "inserted", "done"},
                                 job : Jobs \cup {None}]]

(***************************************************************************)
(* A client never has two jobs at once: not two deployments, not two       *)
(* System commands, and no deployment together with a System command that  *)
(* has not expired.  Each producer's own check cannot see what another is  *)
(* about to commit; the lock and the second check are what carries this.   *)
(***************************************************************************)
OneJob ==
  /\ \A d, e \in Deployments : ActiveDeployment(d) /\ ActiveDeployment(e) => d = e
  /\ \A b, c \in Commands : ActiveCommand(b) /\ ActiveCommand(c) => b = c
  /\ \A d \in Deployments, c \in Commands : ~(ActiveDeployment(d) /\ ActiveCommand(c))

(***************************************************************************)
(* The outcome agrees with the recorded events on whether the gate to the  *)
(* local mutation was ever opened: a deployment that is shown as failed    *)
(* never passed the gate, one that is shown as succeeded, rolled back or   *)
(* beyond recovery did, and the first of these was health-checked.         *)
(***************************************************************************)
OutcomeAgreesWithGate ==
  \A d \in Deployments :
    /\ state[d] = "failed" => "activation_started" \notin trail[d]
    /\ state[d] \in {"succeeded", "rolled_back", "recovery_failed"} =>
         "activation_started" \in trail[d]
    /\ state[d] = "succeeded" => "health_check_started" \in trail[d]

(***************************************************************************)
(* What authorize_activation promises: once ACTIVATING is committed, the   *)
(* deployment is not cancelled.  Cancel decides by a state read before it  *)
(* has the row lock, so the code does not keep it.                         *)
(***************************************************************************)
ActivationForbidsCancel ==
  \A d \in Deployments :
    "activation_started" \in trail[d] => state[d] # "cancelled"

(***************************************************************************)
(* What get_session promises: the connection of every request is given     *)
(* back, also of one that fails.  The session of a refused request, which  *)
(* still has the lock of the client, is closed by the event loop; an async *)
(* producer that waits for that lock occupies the loop.                    *)
(***************************************************************************)
ConnectionsComeBack ==
  \A p \in Producers : producer[p] # Idle ~> producer[p] = Idle
=============================================================================
