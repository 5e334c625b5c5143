------------------------------ MODULE Clients ------------------------------
(***************************************************************************)
(* Enrollment of clients and their life at the backend                     *)
(* (routers/enrollment.py, routers/clients.py, lifecycle.py,               *)
(* client_auth_compat.py, delete_organization).                            *)
(*                                                                         *)
(* An install id has at most one client, so the client is named by it.     *)
(* Claims and deletions of organizations run in threads and take two       *)
(* steps, reading and committing; the approval and the bin do not wait     *)
(* between the two.                                                        *)
(***************************************************************************)
EXTENDS Naturals, FiniteSets

CONSTANTS
  Installs,  \* install ids
  Tokens,    \* enrollment codes
  Orgs,      \* organizations
  Nil        \* no organization, or no code

ASSUME ClientsAssumption == Nil \notin Installs \cup Tokens \cup Orgs

VARIABLES
  tokens,    \* the rows of enrollment_tokens
  clients,   \* the client rows with what hangs on them
  orgs,      \* the organizations there are
  claims,    \* the code that a claim in progress found
  deleting   \* what the deletion of an organization in progress has read

clvars == <<tokens, clients, orgs, claims, deleting>>

NoToken == [row |-> "none", org |-> Nil, used |-> FALSE, revoked |-> FALSE,
            expired |-> FALSE, by |-> Nil]

\* platform: the credentials that the platform deletes with the client.
\* isolated and identity: those of Terminal and Remote Desktop, which stay.
\* late: the receipt can not be resumed any more.  ready: the readiness proof.
NoClient == [row |-> "none", status |-> "none", before |-> "none", org |-> Nil, token |-> Nil,
             platform |-> FALSE, isolated |-> "none", identity |-> "none", receipt |-> "none",
             late |-> FALSE, ready |-> FALSE, secret |-> FALSE]
NotDeleting == [org |-> Nil, clients |-> {}, tokens |-> {}]

ClInit ==
  /\ tokens = [k \in Tokens |-> NoToken]
  /\ clients = [i \in Installs |-> NoClient]
  /\ orgs = Orgs
  /\ claims = [i \in Installs |-> Nil]
  /\ deleting = NotDeleting

There(i) == clients[i].row = "there"
InBin(i) == There(i) /\ clients[i].status = "deleted"

-----------------------------------------------------------------------------
(***************************************************************************)
(* Codes and claims.                                                       *)
(***************************************************************************)
CreateToken(k, o) ==
  /\ tokens[k].row = "none"
  /\ o \in orgs
  /\ tokens' = [tokens EXCEPT ![k].row = "there", ![k].org = o]
  /\ UNCHANGED <<clients, orgs, claims, deleting>>

\* A code that can be claimed, or used to fetch the release it is for.
Usable(k) ==
  /\ tokens[k].row = "there"
  /\ ~tokens[k].used /\ ~tokens[k].revoked /\ ~tokens[k].expired

TokenExpires(k) ==
  /\ Usable(k)
  /\ tokens' = [tokens EXCEPT ![k].expired = TRUE]
  /\ UNCHANGED <<clients, orgs, claims, deleting>>

\* A revocation that read the code before its use revokes it all the same.
RevokeToken(k) ==
  /\ tokens[k].row = "there" /\ ~tokens[k].revoked
  /\ tokens' = [tokens EXCEPT ![k].revoked = TRUE]
  /\ UNCHANGED <<clients, orgs, claims, deleting>>

\* The claim picks its code among the usable ones.
ClaimReads(i, k) ==
  /\ clients[i].row = "none"
  /\ claims[i] = Nil
  /\ Usable(k)
  /\ claims' = [claims EXCEPT ![i] = k]
  /\ UNCHANGED <<tokens, clients, orgs, deleting>>

Enrolled(k) ==
  [NoClient EXCEPT !.row = "there", !.status = "pending", !.org = tokens[k].org, !.token = k,
                   !.platform = TRUE, !.isolated = "active", !.identity = "disabled",
                   !.receipt = "open"]

(***************************************************************************)
(* It locks the code, but what it then looks at is the row it had read:    *)
(* a use or a revocation committed meanwhile goes unnoticed.  Only a row   *)
(* that is gone, of the code or of its organization, stops it.             *)
(***************************************************************************)
ClaimCommits(i) ==
  LET k == claims[i] IN
  /\ k # Nil
  /\ tokens[k].row = "there"
  /\ tokens[k].org \in orgs \cup {Nil}
  /\ clients' = [clients EXCEPT ![i] = Enrolled(k)]
  /\ tokens' = [tokens EXCEPT ![k].used = TRUE, ![k].by = i]
  /\ claims' = [claims EXCEPT ![i] = Nil]
  /\ UNCHANGED <<orgs, deleting>>

ClaimFails(i) ==
  LET k == claims[i] IN
  /\ k # Nil
  /\ tokens[k].row # "there" \/ tokens[k].org \notin orgs \cup {Nil}
  /\ claims' = [claims EXCEPT ![i] = Nil]
  /\ UNCHANGED <<tokens, clients, orgs, deleting>>

ReceiptOver(i) == clients[i].receipt = "open" /\ clients[i].late

\* _resume_existing: the answer is given again.
CanResume(i) == There(i) /\ clients[i].receipt # "none" /\ ~ReceiptOver(i)

CanComplete(i) == There(i) /\ clients[i].receipt # "none" /\ ~ReceiptOver(i)

CompleteEnrollment(i) ==
  /\ CanComplete(i)
  /\ clients' = [clients EXCEPT ![i].receipt = "done"]
  /\ UNCHANGED <<tokens, orgs, claims, deleting>>

ResumeWindowEnds(i) ==
  /\ clients[i].receipt = "open" /\ ~clients[i].late
  /\ clients' = [clients EXCEPT ![i].late = TRUE]
  /\ UNCHANGED <<tokens, orgs, claims, deleting>>

-----------------------------------------------------------------------------
(***************************************************************************)
(* Readiness and approval.                                                 *)
(***************************************************************************)
AcceptsReadiness(i) == There(i) /\ clients[i].status = "pending" /\ clients[i].platform

PublishApprovalReadiness(i) ==
  /\ AcceptsReadiness(i)
  /\ clients' = [clients EXCEPT ![i].ready = TRUE]
  /\ UNCHANGED <<tokens, orgs, claims, deleting>>

\* Only a client that is approved gets tokens to work with.
GetsToken(i) == There(i) /\ clients[i].status = "approved" /\ clients[i].platform

\* The first report of the status agent takes the place of the proof.
ReportStatus(i) ==
  /\ GetsToken(i)
  /\ clients[i].ready
  /\ clients' = [clients EXCEPT ![i].ready = FALSE]
  /\ UNCHANGED <<tokens, orgs, claims, deleting>>

Approve(i, o) ==
  /\ There(i) /\ ~InBin(i)
  /\ clients[i].status # "approved" /\ clients[i].token # Nil => clients[i].ready
  /\ o \in orgs
  /\ clients[i].identity # "none" /\ clients[i].isolated = "active"
  /\ clients' = [clients EXCEPT ![i].status = "approved", ![i].identity = "approved", ![i].org = o]
  /\ UNCHANGED <<tokens, orgs, claims, deleting>>

ChangeOrganization(i, o) ==
  /\ There(i)
  /\ o \in orgs \cup {Nil}
  /\ clients' = [clients EXCEPT ![i].org = o]
  /\ UNCHANGED <<tokens, orgs, claims, deleting>>

RotateSecret(i) ==
  /\ There(i) /\ ~clients[i].secret
  /\ clients' = [clients EXCEPT ![i].secret = TRUE]
  /\ UNCHANGED <<tokens, orgs, claims, deleting>>

RevokeSecret(i) ==
  /\ There(i) /\ clients[i].secret
  /\ clients' = [clients EXCEPT ![i].secret = FALSE]
  /\ UNCHANGED <<tokens, orgs, claims, deleting>>

-----------------------------------------------------------------------------
(***************************************************************************)
(* The bin and the end of a client.                                        *)
(***************************************************************************)
RemoveClient(i) ==
  /\ There(i) /\ ~InBin(i)
  /\ clients' = [clients EXCEPT ![i].before = clients[i].status, ![i].status = "deleted"]
  /\ UNCHANGED <<tokens, orgs, claims, deleting>>

RestoreClient(i) ==
  /\ InBin(i)
  /\ clients' = [clients EXCEPT ![i].status = clients[i].before, ![i].before = "none"]
  /\ UNCHANGED <<tokens, orgs, claims, deleting>>

\* The credentials of Terminal and Remote Desktop are left as they are.
Mut_Decommissioned(c) == [c EXCEPT !.identity = "disabled"]

\* decommission_isolated_client_domains
Decommissioned(c) ==
  [c EXCEPT !.identity = "disabled", !.isolated = "revoked"]

\* delete_platform_client_state and the deletion of the row itself.
Deleted(c) ==
  [Decommissioned(c) EXCEPT !.row = "gone", !.platform = FALSE, !.receipt = "none",
                            !.ready = FALSE, !.secret = FALSE, !.token = Nil, !.org = Nil]

Unlinked(ts, gone) == [k \in Tokens |-> IF ts[k].by \in gone THEN [ts[k] EXCEPT !.by = Nil] ELSE ts[k]]

\* Not while the client has an active deployment, which it may or may not have.
PurgeClient(i) ==
  /\ InBin(i)
  /\ clients' = [clients EXCEPT ![i] = Deleted(@)]
  /\ tokens' = Unlinked(tokens, {i})
  /\ UNCHANGED <<orgs, claims, deleting>>

DeleteOrganizationReads(o) ==
  /\ o \in orgs
  /\ deleting = NotDeleting
  /\ deleting' = [org |-> o,
                  clients |-> {i \in Installs : There(i) /\ clients[i].org = o},
                  tokens |-> {k \in Tokens : tokens[k].row = "there" /\ tokens[k].org = o}]
  /\ UNCHANGED <<tokens, clients, orgs, claims>>

\* What refers to the rows that go must go with them.
NothingLeft ==
  /\ \A i \in deleting.clients : There(i)
  /\ \A i \in Installs \ deleting.clients :
       clients[i].org # deleting.org /\ clients[i].token \notin deleting.tokens
  /\ \A k \in Tokens \ deleting.tokens : tokens[k].row = "there" => tokens[k].org # deleting.org

\* The clients it has read go, also one that changed organization meanwhile.
DeleteOrganizationCommits ==
  /\ deleting # NotDeleting
  /\ NothingLeft
  /\ clients' = [i \in Installs |-> IF i \in deleting.clients THEN Deleted(clients[i]) ELSE clients[i]]
  /\ tokens' = [k \in Tokens |-> IF k \in deleting.tokens THEN [NoToken EXCEPT !.row = "deleted"]
                                 ELSE Unlinked(tokens, deleting.clients)[k]]
  /\ orgs' = orgs \ {deleting.org}
  /\ deleting' = NotDeleting
  /\ UNCHANGED claims

DeleteOrganizationRefused ==
  /\ deleting # NotDeleting
  /\ ~NothingLeft
  /\ deleting' = NotDeleting
  /\ UNCHANGED <<tokens, clients, orgs, claims>>

-----------------------------------------------------------------------------
ClAdminNext ==
  \/ \E k \in Tokens, o \in Orgs : CreateToken(k, o)
  \/ \E k \in Tokens : TokenExpires(k) \/ RevokeToken(k)
  \/ \E i \in Installs : ClaimCommits(i) \/ ClaimFails(i) \/ ResumeWindowEnds(i)
  \/ \E i \in Installs, o \in Orgs : Approve(i, o)
  \/ \E i \in Installs, o \in Orgs \cup {Nil} : ChangeOrganization(i, o)
  \/ \E i \in Installs : RotateSecret(i) \/ RevokeSecret(i)
  \/ \E i \in Installs : RemoveClient(i) \/ RestoreClient(i) \/ PurgeClient(i)
  \/ \E o \in Orgs : DeleteOrganizationReads(o)
  \/ DeleteOrganizationCommits \/ DeleteOrganizationRefused

\* What the machine of an install id asks for.
ClMachineNext(i) ==
  \/ \E k \in Tokens : ClaimReads(i, k)
  \/ CompleteEnrollment(i) \/ PublishApprovalReadiness(i) \/ ReportStatus(i)

\* The backend by itself, whatever the machines ask for.
ClSpec == ClInit /\ [][ClAdminNext \/ \E i \in Installs : ClMachineNext(i)]_clvars

-----------------------------------------------------------------------------
(***************************************************************************)
(* A client that was deleted for good can do nothing any more: no          *)
(* credential of it is valid, its receipt can not be resumed and no code   *)
(* names it, however the deletion met claims, approvals and moves          *)
(* (lifecycle.py, delete_organization).                                    *)
(***************************************************************************)
GoneHasNoAuthority ==
  \A i \in Installs : clients[i].row = "gone" =>
    /\ ~clients[i].platform /\ clients[i].isolated # "active" /\ clients[i].receipt = "none"
    /\ \A k \in Tokens : tokens[k].by # i
=============================================================================
