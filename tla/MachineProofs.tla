---------------------------- MODULE MachineProofs ----------------------------
(***************************************************************************)
(* Proofs about one machine: what the backend has of it (Clients), how it  *)
(* is installed and handed over (FreshInstall), and the lockdown of its    *)
(* desktop (DisplayControl on top of KioskLockdown).                       *)
(***************************************************************************)
EXTENDS FreshInstall, DisplayControl, TLAPS

-----------------------------------------------------------------------------
(***************************************************************************)
(* Clients.  Whatever the order of the handlers, a claim in progress is of *)
(* a client that is still to come.                                         *)
(***************************************************************************)
ClientStatuses == {"none", "pending", "approved", "deleted"}

Client ==
  [row : {"none", "there", "gone"}, status : ClientStatuses, before : ClientStatuses,
   org : Orgs \cup {Nil}, token : Tokens \cup {Nil}, platform : BOOLEAN,
   isolated : {"none", "active", "revoked"}, identity : {"none", "disabled", "approved"},
   receipt : {"none", "open", "done"}, late : BOOLEAN, ready : BOOLEAN, secret : BOOLEAN]

Code ==
  [row : {"none", "there", "deleted"}, org : Orgs \cup {Nil}, used : BOOLEAN,
   revoked : BOOLEAN, expired : BOOLEAN, by : Installs \cup {Nil}]

ClTypes ==
  /\ clients \in [Installs -> Client]
  /\ tokens \in [Tokens -> Code]
  /\ claims \in [Installs -> Tokens \cup {Nil}]

\* A claim in progress is one of a client that is still to come.
ClaimsAreFirst ==
  \A i \in Installs : claims[i] # Nil => clients[i].row = "none"

\* A client that is still to come has nothing, and one that is there has come
\* by a code.
RowsTell ==
  \A i \in Installs : /\ clients[i].row = "none" => clients[i] = NoClient
                      /\ clients[i].row = "there" => clients[i].token # Nil

ClInv == ClTypes /\ ClaimsAreFirst /\ RowsTell /\ GoneHasNoAuthority

LEMMA ClInitHolds == ClInit => ClInv
<1> SUFFICES ASSUME ClInit PROVE ClInv
  OBVIOUS
<1>1. NoClient \in Client /\ NoClient.row = "none" /\ NoClient.receipt = "none"
  BY DEF NoClient, Client, ClientStatuses
<1>2. NoToken \in Code
  BY DEF NoToken, Code
<1> QED
  BY <1>1, <1>2 DEF ClInit, ClInv, ClTypes, ClaimsAreFirst, RowsTell, GoneHasNoAuthority

-----------------------------------------------------------------------------
\* A client that is there stays there, and the codes and claims as they are.
LEMMA ClientKept ==
  ASSUME ClInv, NEW i \in Installs, NEW c \in Client,
         clients[i].row = "there", c.row = "there", c.token = clients[i].token,
         clients' = [clients EXCEPT ![i] = c], UNCHANGED <<tokens, claims>>
  PROVE  ClInv'
BY DEF ClInv, ClTypes, ClaimsAreFirst, RowsTell, GoneHasNoAuthority

\* A code changes, but not the client that it names.
LEMMA CodeKept ==
  ASSUME ClInv, NEW k \in Tokens, NEW t \in Code, t.by = tokens[k].by,
         tokens' = [tokens EXCEPT ![k] = t], UNCHANGED <<clients, claims>>
  PROVE  ClInv'
BY DEF ClInv, ClTypes, ClaimsAreFirst, RowsTell, GoneHasNoAuthority

LEMMA ClUnchanged == ClInv /\ UNCHANGED <<clients, tokens, claims>> => ClInv'
BY DEF ClInv, ClTypes, ClaimsAreFirst, RowsTell, GoneHasNoAuthority

LEMMA DeletedIsGone ==
  ASSUME NEW c \in Client
  PROVE  /\ Deleted(c) \in Client /\ Deleted(c).row = "gone"
         /\ ~Deleted(c).platform /\ Deleted(c).isolated # "active"
         /\ Deleted(c).receipt = "none"
<1> DEFINE d == Decommissioned(c)
<1>1. d \in Client /\ d.isolated = "revoked"
  BY DEF Decommissioned, Client
<1> HIDE DEF d
<1>2. Deleted(c) = [d EXCEPT !.row = "gone", !.platform = FALSE, !.receipt = "none",
                             !.ready = FALSE, !.secret = FALSE, !.token = Nil, !.org = Nil]
  BY DEF Deleted, d
<1> QED
  BY <1>1, <1>2, ZenonT(60) DEF Client

\* The codes after the clients in gone were deleted.
LEMMA NoCodeNames ==
  ASSUME ClTypes, NEW gone, NEW k \in Tokens
  PROVE  /\ Unlinked(tokens, gone)[k] \in Code
         /\ Unlinked(tokens, gone)[k].by \in {tokens[k].by, Nil}
         /\ Unlinked(tokens, gone)[k].by \in gone =>
              Unlinked(tokens, gone)[k].by = Nil
<1> DEFINE t == tokens[k]
<1>1. t \in Code
  BY DEF ClTypes
<1>2. Unlinked(tokens, gone)[k] = IF t.by \in gone THEN [t EXCEPT !.by = Nil] ELSE t
  BY DEF Unlinked
<1> HIDE DEF t
<1>3. [t EXCEPT !.by = Nil] \in Code /\ [t EXCEPT !.by = Nil].by = Nil
  BY <1>1 DEF Code
<1>4. CASE t.by \in gone
  BY <1>2, <1>3, <1>4
<1>5. CASE t.by \notin gone
  BY <1>1, <1>2, <1>5 DEF t
<1> QED
  BY <1>4, <1>5

-----------------------------------------------------------------------------
LEMMA ClientStep ==
  ASSUME ClInv, NEW i \in Installs,
         \/ CompleteEnrollment(i) \/ ResumeWindowEnds(i)
         \/ PublishApprovalReadiness(i) \/ ReportStatus(i)
         \/ \E o \in Orgs : Approve(i, o)
         \/ \E o \in Orgs \cup {Nil} : ChangeOrganization(i, o)
         \/ RotateSecret(i) \/ RevokeSecret(i) \/ RemoveClient(i) \/ RestoreClient(i)
  PROVE  ClInv'
<1> DEFINE c == clients[i]
<1>1. /\ c \in Client
      /\ c.receipt = "open" => c.row = "there"
  BY DEF ClInv, ClTypes, RowsTell, NoClient, GoneHasNoAuthority, Client
<1>0. ASSUME NEW d \in Client, d.row = "there", c.row = "there", d.token = c.token,
             clients' = [clients EXCEPT ![i] = d], UNCHANGED <<tokens, claims>>
      PROVE  ClInv'
  BY <1>0, ClientKept
<1>2. CASE CompleteEnrollment(i)
  <2> DEFINE d == [c EXCEPT !.receipt = "done"]
  <2>1. c.row = "there" /\ clients' = [clients EXCEPT ![i] = d] /\ UNCHANGED <<tokens, claims>>
    BY <1>2, <1>1 DEF CompleteEnrollment, CanComplete, There, ClInv, ClTypes
  <2>2. d \in Client /\ d.row = "there" /\ d.token = c.token
    BY <1>1, <2>1 DEF Client, ClientStatuses
  <2> QED
    BY <2>1, <2>2, <1>0
<1>3. CASE ResumeWindowEnds(i)
  <2> DEFINE d == [c EXCEPT !.late = TRUE]
  <2>1. c.row = "there" /\ clients' = [clients EXCEPT ![i] = d] /\ UNCHANGED <<tokens, claims>>
    BY <1>3, <1>1 DEF ResumeWindowEnds, There, ClInv, ClTypes
  <2>2. d \in Client /\ d.row = "there" /\ d.token = c.token
    BY <1>1, <2>1 DEF Client, ClientStatuses
  <2> QED
    BY <2>1, <2>2, <1>0
<1>4. CASE PublishApprovalReadiness(i)
  <2> DEFINE d == [c EXCEPT !.ready = TRUE]
  <2>1. c.row = "there" /\ clients' = [clients EXCEPT ![i] = d] /\ UNCHANGED <<tokens, claims>>
    BY <1>4, <1>1 DEF PublishApprovalReadiness, AcceptsReadiness, There, ClInv, ClTypes
  <2>2. d \in Client /\ d.row = "there" /\ d.token = c.token
    BY <1>1, <2>1 DEF Client, ClientStatuses
  <2> QED
    BY <2>1, <2>2, <1>0
<1>5. CASE ReportStatus(i)
  <2> DEFINE d == [c EXCEPT !.ready = FALSE]
  <2>1. c.row = "there" /\ clients' = [clients EXCEPT ![i] = d] /\ UNCHANGED <<tokens, claims>>
    BY <1>5, <1>1 DEF ReportStatus, GetsToken, There, ClInv, ClTypes
  <2>2. d \in Client /\ d.row = "there" /\ d.token = c.token
    BY <1>1, <2>1 DEF Client, ClientStatuses
  <2> QED
    BY <2>1, <2>2, <1>0
<1>6. ASSUME NEW o \in Orgs, Approve(i, o) PROVE ClInv'
  <2> DEFINE d == [c EXCEPT !.status = "approved", !.identity = "approved", !.org = o]
  <2>1. c.row = "there" /\ clients' = [clients EXCEPT ![i] = d] /\ UNCHANGED <<tokens, claims>>
    BY <1>6, <1>1 DEF Approve, InBin, There, ClInv, ClTypes
  <2>2. d \in Client /\ d.row = "there" /\ d.token = c.token
    BY <1>1, <2>1 DEF Client, ClientStatuses
  <2> QED
    BY <2>1, <2>2, <1>0
<1>7. ASSUME NEW o \in Orgs \cup {Nil}, ChangeOrganization(i, o) PROVE ClInv'
  <2> DEFINE d == [c EXCEPT !.org = o]
  <2>1. c.row = "there" /\ clients' = [clients EXCEPT ![i] = d] /\ UNCHANGED <<tokens, claims>>
    BY <1>7, <1>1 DEF ChangeOrganization, There, ClInv, ClTypes
  <2>2. d \in Client /\ d.row = "there" /\ d.token = c.token
    BY <1>1, <2>1 DEF Client, ClientStatuses
  <2> QED
    BY <2>1, <2>2, <1>0
<1>8. CASE RotateSecret(i)
  <2> DEFINE d == [c EXCEPT !.secret = TRUE]
  <2>1. c.row = "there" /\ clients' = [clients EXCEPT ![i] = d] /\ UNCHANGED <<tokens, claims>>
    BY <1>8, <1>1 DEF RotateSecret, There, ClInv, ClTypes
  <2>2. d \in Client /\ d.row = "there" /\ d.token = c.token
    BY <1>1, <2>1 DEF Client, ClientStatuses
  <2> QED
    BY <2>1, <2>2, <1>0
<1>9. CASE RevokeSecret(i)
  <2> DEFINE d == [c EXCEPT !.secret = FALSE]
  <2>1. c.row = "there" /\ clients' = [clients EXCEPT ![i] = d] /\ UNCHANGED <<tokens, claims>>
    BY <1>9, <1>1 DEF RevokeSecret, There, ClInv, ClTypes
  <2>2. d \in Client /\ d.row = "there" /\ d.token = c.token
    BY <1>1, <2>1 DEF Client, ClientStatuses
  <2> QED
    BY <2>1, <2>2, <1>0
<1>10. CASE RemoveClient(i)
  <2> DEFINE d == [c EXCEPT !.before = c.status, !.status = "deleted"]
  <2>1. c.row = "there" /\ clients' = [clients EXCEPT ![i] = d] /\ UNCHANGED <<tokens, claims>>
    BY <1>10, <1>1 DEF RemoveClient, InBin, There, ClInv, ClTypes
  <2>2. d \in Client /\ d.row = "there" /\ d.token = c.token
    BY <1>1, <2>1 DEF Client, ClientStatuses
  <2> QED
    BY <2>1, <2>2, <1>0
<1>11. CASE RestoreClient(i)
  <2> DEFINE d == [c EXCEPT !.status = c.before, !.before = "none"]
  <2>1. c.row = "there" /\ clients' = [clients EXCEPT ![i] = d] /\ UNCHANGED <<tokens, claims>>
    BY <1>11, <1>1 DEF RestoreClient, InBin, There, ClInv, ClTypes
  <2>2. d \in Client /\ d.row = "there" /\ d.token = c.token
    BY <1>1, <2>1 DEF Client, ClientStatuses
  <2> QED
    BY <2>1, <2>2, <1>0
<1> QED
  BY <1>2, <1>3, <1>4, <1>5, <1>6, <1>7, <1>8, <1>9, <1>10, <1>11

LEMMA CodeStep ==
  ASSUME ClInv, NEW k \in Tokens,
         (\E o \in Orgs : CreateToken(k, o)) \/ TokenExpires(k) \/ RevokeToken(k)
  PROVE  ClInv'
<1> DEFINE t == tokens[k]
<1>1. t \in Code
  BY DEF ClInv, ClTypes
<1>2. ASSUME NEW o \in Orgs, CreateToken(k, o) PROVE ClInv'
  <2> DEFINE u == [t EXCEPT !.row = "there", !.org = o]
  <2>1. tokens' = [tokens EXCEPT ![k] = u] /\ UNCHANGED <<clients, claims>>
    BY <1>2, <1>1 DEF CreateToken, ClInv, ClTypes
  <2>2. u \in Code /\ u.by = t.by
    BY <1>1 DEF Code
  <2> QED
    BY <2>1, <2>2, CodeKept
<1>3. CASE TokenExpires(k)
  <2> DEFINE u == [t EXCEPT !.expired = TRUE]
  <2>1. tokens' = [tokens EXCEPT ![k] = u] /\ UNCHANGED <<clients, claims>>
    BY <1>3, <1>1 DEF TokenExpires, ClInv, ClTypes
  <2>2. u \in Code /\ u.by = t.by
    BY <1>1 DEF Code
  <2> QED
    BY <2>1, <2>2, CodeKept
<1>4. CASE RevokeToken(k)
  <2> DEFINE u == [t EXCEPT !.revoked = TRUE]
  <2>1. tokens' = [tokens EXCEPT ![k] = u] /\ UNCHANGED <<clients, claims>>
    BY <1>4, <1>1 DEF RevokeToken, ClInv, ClTypes
  <2>2. u \in Code /\ u.by = t.by
    BY <1>1 DEF Code
  <2> QED
    BY <2>1, <2>2, CodeKept
<1> QED
  BY <1>2, <1>3, <1>4

-----------------------------------------------------------------------------
LEMMA ClaimStep ==
  ASSUME ClInv, NEW i \in Installs,
         (\E k \in Tokens : ClaimReads(i, k)) \/ ClaimCommits(i) \/ ClaimFails(i)
  PROVE  ClInv'
<1>1. ASSUME NEW k \in Tokens, ClaimReads(i, k) PROVE ClInv'
  BY <1>1 DEF ClaimReads, ClInv, ClTypes, ClaimsAreFirst, RowsTell, GoneHasNoAuthority
<1>2. CASE ClaimCommits(i)
  <2> DEFINE k == claims[i]
             u == [tokens[k] EXCEPT !.used = TRUE, !.by = i]
  <2>1. k \in Tokens /\ tokens[k] \in Code /\ clients[i].row = "none"
    BY <1>2 DEF ClaimCommits, ClInv, ClTypes, ClaimsAreFirst
  <2>2. /\ Enrolled(k) \in Client /\ Enrolled(k).row = "there"
        /\ Enrolled(k).receipt = "open" /\ Enrolled(k).token # Nil
        /\ ~Enrolled(k).ready /\ "approved" \notin {Enrolled(k).status, Enrolled(k).before}
    BY <2>1, ClientsAssumption DEF Enrolled, NoClient, Client, ClientStatuses, Code
  <2>3. u \in Code /\ u.by = i
    BY <2>1 DEF Code
  <2>4. /\ clients' = [clients EXCEPT ![i] = Enrolled(k)]
        /\ tokens' = [tokens EXCEPT ![k] = u]
        /\ claims' = [claims EXCEPT ![i] = Nil]
    BY <1>2, <2>1 DEF ClaimCommits, ClInv, ClTypes
  <2> HIDE DEF k, u
  <2>5. ClTypes'
    BY <2>1, <2>2, <2>3, <2>4 DEF ClInv, ClTypes
  <2>6. ClaimsAreFirst' /\ RowsTell'
    BY <2>1, <2>2, <2>4 DEF ClInv, ClTypes, ClaimsAreFirst, RowsTell
  <2>7. GoneHasNoAuthority'
    BY <2>1, <2>2, <2>3, <2>4 DEF ClInv, ClTypes, GoneHasNoAuthority
  <2> QED
    BY <2>5, <2>6, <2>7 DEF ClInv
<1>3. CASE ClaimFails(i)
  BY <1>3 DEF ClaimFails, ClInv, ClTypes, ClaimsAreFirst, RowsTell, GoneHasNoAuthority
<1> QED
  BY <1>1, <1>2, <1>3

-----------------------------------------------------------------------------
(***************************************************************************)
(* Clients that are there are deleted: their codes are unlinked, or go.    *)
(***************************************************************************)
LEMMA DeletionKeeps ==
  ASSUME ClInv, NEW gone, \A i \in gone : i \in Installs => clients[i].row = "there",
         Nil \notin gone,
         clients' = [i \in Installs |-> IF i \in gone THEN Deleted(clients[i]) ELSE clients[i]],
         tokens' \in [Tokens -> Code],
         \A k \in Tokens : tokens'[k].by \in {tokens[k].by, Nil} /\ tokens'[k].by \notin gone,
         UNCHANGED claims
  PROVE  ClInv'
<1>1. \A i \in Installs :
        /\ clients'[i] \in Client
        /\ clients'[i].row = "none" => clients'[i] = clients[i]
        /\ clients'[i].row = "gone" => i \in gone \/ clients'[i] = clients[i]
        /\ i \in gone => /\ clients'[i].row = "gone" /\ ~clients'[i].platform /\ clients'[i].isolated # "active"
                         /\ clients'[i].receipt = "none"
        /\ i \notin gone => clients'[i] = clients[i]
  BY DeletedIsGone DEF ClInv, ClTypes
<1>2. ClTypes'
  BY <1>1 DEF ClInv, ClTypes
<1>3. ClaimsAreFirst' /\ RowsTell'
  BY <1>1 DEF ClInv, ClaimsAreFirst, RowsTell
<1>4. GoneHasNoAuthority'
  BY <1>1, ClientsAssumption DEF ClInv, GoneHasNoAuthority
<1> QED
  BY <1>2, <1>3, <1>4 DEF ClInv

LEMMA PurgeStep == ASSUME ClInv, NEW i \in Installs, PurgeClient(i) PROVE ClInv'
<1>1. /\ clients[i].row = "there" /\ Nil \notin {i}
      /\ clients' = [j \in Installs |-> IF j \in {i} THEN Deleted(clients[j]) ELSE clients[j]]
      /\ tokens' = Unlinked(tokens, {i}) /\ UNCHANGED claims
  BY ClientsAssumption DEF PurgeClient, InBin, There, ClInv, ClTypes
<1>2. \A k \in Tokens : /\ tokens'[k] \in Code
                        /\ tokens'[k].by \in {tokens[k].by, Nil} /\ tokens'[k].by \notin {i}
  BY <1>1, NoCodeNames DEF ClInv
<1>3. tokens' \in [Tokens -> Code]
  BY <1>1, <1>2 DEF Unlinked
<1> QED
  BY <1>1, <1>2, <1>3, DeletionKeeps

LEMMA DeleteOrganizationStep ==
  ASSUME ClInv, NEW G, G = deleting.clients \cap Installs, DeleteOrganizationCommits
  PROVE  ClInv'
<1>1. /\ \A i \in G : i \in Installs => clients[i].row = "there"
      /\ Nil \notin G
      /\ clients' = [i \in Installs |-> IF i \in G THEN Deleted(clients[i]) ELSE clients[i]]
      /\ UNCHANGED claims
  BY ClientsAssumption DEF DeleteOrganizationCommits, NothingLeft, There
<1>2. \A k \in Tokens :
        tokens'[k] = IF k \in deleting.tokens THEN [NoToken EXCEPT !.row = "deleted"]
                     ELSE Unlinked(tokens, deleting.clients)[k]
  BY DEF DeleteOrganizationCommits
<1>3. /\ [NoToken EXCEPT !.row = "deleted"] \in Code
      /\ [NoToken EXCEPT !.row = "deleted"].by = Nil
  BY DEF NoToken, Code
<1>4. \A k \in Tokens :
        LET t == Unlinked(tokens, deleting.clients)[k] IN
        t \in Code /\ t.by \in {tokens[k].by, Nil} /\ t.by \notin G
  BY <1>1, NoCodeNames DEF ClInv
<1>5. \A k \in Tokens :
        tokens'[k] \in Code /\ tokens'[k].by \in {tokens[k].by, Nil} /\ tokens'[k].by \notin G
  BY <1>1, <1>2, <1>3, <1>4
<1>6. tokens' \in [Tokens -> Code]
  BY <1>5 DEF DeleteOrganizationCommits
<1> QED
  BY <1>1, <1>5, <1>6, DeletionKeeps

LEMMA ClStepKeeps ==
  ASSUME ClInv, [ClAdminNext \/ \E i \in Installs : ClMachineNext(i)]_clvars
  PROVE  ClInv'
<1>1. CASE UNCHANGED clvars
  BY <1>1, ClUnchanged DEF clvars
<1>2. CASE ClAdminNext
  <2>1. ASSUME NEW o \in Orgs, DeleteOrganizationReads(o) PROVE ClInv'
    BY <2>1, ClUnchanged DEF DeleteOrganizationReads
  <2>2. CASE DeleteOrganizationRefused
    BY <2>2, ClUnchanged DEF DeleteOrganizationRefused
  <2>3. CASE \E k \in Tokens : (\E o \in Orgs : CreateToken(k, o)) \/ TokenExpires(k) \/ RevokeToken(k)
    BY <2>3, CodeStep
  <2>4. CASE \E i \in Installs : ClaimCommits(i) \/ ClaimFails(i)
    BY <2>4, ClaimStep
  <2>5. ASSUME NEW i \in Installs,
               \/ ResumeWindowEnds(i) \/ RotateSecret(i) \/ RevokeSecret(i)
               \/ RemoveClient(i) \/ RestoreClient(i)
               \/ \E o \in Orgs : Approve(i, o)
               \/ \E o \in Orgs \cup {Nil} : ChangeOrganization(i, o)
        PROVE  ClInv'
    BY <2>5, ClientStep
  <2>6. CASE \E i \in Installs : PurgeClient(i)
    BY <2>6, PurgeStep
  <2>7. CASE DeleteOrganizationCommits
    BY <2>7, DeleteOrganizationStep
  <2> QED
    BY <1>2, <2>1, <2>2, <2>3, <2>4, <2>5, <2>6, <2>7 DEF ClAdminNext
<1>3. ASSUME NEW i \in Installs, ClMachineNext(i) PROVE ClInv'
  <2>1. CASE \E k \in Tokens : ClaimReads(i, k)
    BY <2>1, ClaimStep
  <2>2. CASE CompleteEnrollment(i) \/ PublishApprovalReadiness(i) \/ ReportStatus(i)
    BY <2>2, ClientStep
  <2> QED
    BY <1>3, <2>1, <2>2 DEF ClMachineNext
<1> QED
  BY <1>1, <1>2, <1>3

(***************************************************************************)
(* A client that was deleted for good has no credential, receipt or code   *)
(* left, and gets none again: neither by a claim that was on its way nor   *)
(* by an approval (claim_client, lifecycle.py, delete_organization).       *)
(***************************************************************************)
THEOREM GoneStaysPowerless == ClSpec => []GoneHasNoAuthority
<1>1. ClInv => GoneHasNoAuthority
  BY DEF ClInv
<1> QED
  BY <1>1, ClInitHolds, ClStepKeeps, PTL DEF ClSpec

-----------------------------------------------------------------------------
(***************************************************************************)
(* The installation of a machine.  What the backend does by itself, or for *)
(* other machines, can not make a client of a machine that did not ask for *)
(* one, can not take a completed receipt back but by deleting the client,  *)
(* and can not approve a client whose readiness was not shown.             *)
(***************************************************************************)
Untouched(i) == clients[i].row = "none" /\ claims[i] = Nil
Known(i) == clients[i].receipt = "done" \/ clients[i].row = "gone"
Vouched(i) == clients[i].ready \/ "approved" \in {clients[i].status, clients[i].before}

Elsewhere(i) ==
  /\ Untouched(i) => Untouched(i)'
  /\ Known(i) => Known(i)'
  /\ Vouched(i)' => Vouched(i)

LEMMA SameElsewhere ==
  ASSUME NEW i, clients'[i] = clients[i], claims'[i] = claims[i]
  PROVE  Elsewhere(i)
BY DEF Elsewhere, Untouched, Known, Vouched

LEMMA ClientTurn ==
  ASSUME ClInv, NEW i \in Installs,
         \/ ResumeWindowEnds(i) \/ RotateSecret(i) \/ RevokeSecret(i)
         \/ RemoveClient(i) \/ RestoreClient(i)
         \/ \E o \in Orgs : Approve(i, o)
         \/ \E o \in Orgs \cup {Nil} : ChangeOrganization(i, o)
         \/ CompleteEnrollment(i) \/ ReportStatus(i)
  PROVE  Elsewhere(i)
<1> USE DEF Elsewhere, Untouched, Known, Vouched, There, InBin
<1>1. /\ clients \in [Installs -> Client] /\ clients[i] \in Client
      /\ clients[i].row = "none" => clients[i].receipt = "none"
      /\ clients[i].row = "there" => clients[i].token # Nil
  BY DEF ClInv, ClTypes, RowsTell, NoClient
<1>2. CASE ResumeWindowEnds(i) \/ RotateSecret(i) \/ RevokeSecret(i)
  BY <1>1, <1>2 DEF ResumeWindowEnds, RotateSecret, RevokeSecret, Client
<1>3. CASE RemoveClient(i)
  BY <1>1, <1>3 DEF RemoveClient, Client
<1>4. CASE RestoreClient(i)
  BY <1>1, <1>4 DEF RestoreClient, Client
<1>5. ASSUME NEW o \in Orgs, Approve(i, o) PROVE Elsewhere(i)
  BY <1>1, <1>5 DEF Approve, Client
<1>6. ASSUME NEW o \in Orgs \cup {Nil}, ChangeOrganization(i, o) PROVE Elsewhere(i)
  BY <1>1, <1>6 DEF ChangeOrganization, Client
<1>7. CASE CompleteEnrollment(i)
  BY <1>1, <1>7 DEF CompleteEnrollment, CanComplete, Client
<1>8. CASE ReportStatus(i)
  BY <1>1, <1>8 DEF ReportStatus, Client
<1> QED
  BY <1>2, <1>3, <1>4, <1>5, <1>6, <1>7, <1>8

LEMMA ClaimTurn ==
  ASSUME ClInv, NEW i \in Installs, ClaimCommits(i) \/ ClaimFails(i)
  PROVE  Elsewhere(i)
<1> USE DEF Elsewhere, Untouched, Known, Vouched
<1>1. CASE ClaimFails(i)
  BY <1>1 DEF ClaimFails, ClInv, ClTypes
<1>2. CASE ClaimCommits(i)
  <2> DEFINE k == claims[i]
  <2>1. k # Nil /\ clients[i].row = "none" /\ clients[i].receipt = "none"
    BY <1>2 DEF ClaimCommits, ClInv, ClaimsAreFirst, RowsTell, NoClient
  <2>2. ~Enrolled(k).ready /\ "approved" \notin {Enrolled(k).status, Enrolled(k).before}
    BY DEF Enrolled, NoClient
  <2>3. clients'[i] = Enrolled(k)
    BY <1>2 DEF ClaimCommits, ClInv, ClTypes
  <2> HIDE DEF k
  <2> QED
    BY <2>1, <2>2, <2>3 DEF k
<1> QED
  BY <1>1, <1>2

LEMMA DeletedTurn ==
  ASSUME ClInv, NEW i \in Installs, clients[i].row = "there",
         clients'[i] = Deleted(clients[i]), UNCHANGED claims
  PROVE  Elsewhere(i)
<1> DEFINE c == clients[i]
           d == Decommissioned(c)
<1>1. c \in Client
  BY DEF ClInv, ClTypes
<1>2. d \in Client /\ d.status = c.status /\ d.before = c.before
  BY <1>1 DEF Decommissioned, Client
<1>3. Deleted(c) = [d EXCEPT !.row = "gone", !.platform = FALSE, !.receipt = "none",
                             !.ready = FALSE, !.secret = FALSE, !.token = Nil, !.org = Nil]
  BY DEF Deleted
<1>4. Deleted(c).row = "gone" /\ ~Deleted(c).ready
      /\ Deleted(c).status = c.status /\ Deleted(c).before = c.before
  <2> HIDE DEF d
  <2> QED
    BY <1>2, <1>3 DEF Client
<1> QED
  BY <1>4 DEF Elsewhere, Untouched, Known, Vouched

LEMMA BackendTurns ==
  ASSUME ClInv, NEW i \in Installs,
         ClAdminNext \/ \E j \in Installs \ {i} : ClMachineNext(j)
  PROVE  Elsewhere(i)
<1>0. clients \in [Installs -> Client] /\ claims \in [Installs -> Tokens \cup {Nil}]
  BY DEF ClInv, ClTypes
<1>1. CASE \E k \in Tokens : (\E o \in Orgs : CreateToken(k, o)) \/ TokenExpires(k) \/ RevokeToken(k)
  BY <1>1, SameElsewhere DEF CreateToken, TokenExpires, RevokeToken
<1>2. ASSUME NEW j \in Installs, ClaimCommits(j) \/ ClaimFails(j) PROVE Elsewhere(i)
  <2>1. CASE j = i
    BY <1>2, <2>1, ClaimTurn
  <2>2. CASE j # i
    BY <1>0, <1>2, <2>2, SameElsewhere DEF ClaimCommits, ClaimFails
  <2> QED
    BY <2>1, <2>2
<1>3. ASSUME NEW j \in Installs,
             \/ ResumeWindowEnds(j) \/ RotateSecret(j) \/ RevokeSecret(j)
             \/ RemoveClient(j) \/ RestoreClient(j)
             \/ \E o \in Orgs : Approve(j, o)
             \/ \E o \in Orgs \cup {Nil} : ChangeOrganization(j, o)
      PROVE  Elsewhere(i)
  <2>1. CASE j = i
    BY <1>3, <2>1, ClientTurn
  <2>2. CASE j # i
    BY <1>0, <1>3, <2>2, SameElsewhere
       DEF ResumeWindowEnds, RotateSecret, RevokeSecret, RemoveClient, RestoreClient, Approve,
           ChangeOrganization
  <2> QED
    BY <2>1, <2>2
<1>4. ASSUME NEW j \in Installs, PurgeClient(j) PROVE Elsewhere(i)
  <2>1. CASE j = i
    <3>1. clients[i].row = "there" /\ clients'[i] = Deleted(clients[i]) /\ UNCHANGED claims
      BY <1>0, <1>4, <2>1 DEF PurgeClient, InBin, There
    <3> QED
      BY <3>1, DeletedTurn
  <2>2. CASE j # i
    BY <1>0, <1>4, <2>2, SameElsewhere DEF PurgeClient
  <2> QED
    BY <2>1, <2>2
<1>5. CASE DeleteOrganizationCommits
  <2>1. CASE i \in deleting.clients
    <3>1. clients[i].row = "there" /\ clients'[i] = Deleted(clients[i]) /\ UNCHANGED claims
      BY <1>5, <2>1 DEF DeleteOrganizationCommits, NothingLeft, There
    <3> QED
      BY <3>1, DeletedTurn
  <2>2. CASE i \notin deleting.clients
    BY <1>5, <2>2, SameElsewhere DEF DeleteOrganizationCommits
  <2> QED
    BY <2>1, <2>2
<1>6. CASE DeleteOrganizationRefused \/ \E o \in Orgs : DeleteOrganizationReads(o)
  BY <1>6, SameElsewhere DEF DeleteOrganizationRefused, DeleteOrganizationReads
<1>7. ASSUME NEW j \in Installs \ {i}, ClMachineNext(j) PROVE Elsewhere(i)
  BY <1>0, <1>7, SameElsewhere
     DEF ClMachineNext, ClaimReads, CompleteEnrollment, PublishApprovalReadiness, ReportStatus
<1> QED
  BY <1>1, <1>2, <1>3, <1>4, <1>5, <1>6, <1>7 DEF ClAdminNext

-----------------------------------------------------------------------------
\* The steps of the factory, which tell nothing of the installation, and those
\* of the installation.
FactoryAt ==
  {"connect", "reach", "name", "accounts", "welcome", "popups", "guard", "desktop", "login",
   "hide", "launcher", "allow", "forget", "usb", "hand_over"}
Claiming == {"prepare", "prove", "begin", "claim"}
Installing == {"claim", "claiming", "stage", "configure", "persist", "complete", "completing"}
Finishing == {"finish", "describe"}
Waiting == {"clear", "retire", "session", "wait", "confirm", "published", "activated", "operator_gone"}

Places ==
  {"none", "locked"} \cup FactoryAt \cup Claiming \cup Installing \cup Finishing \cup Waiting

Runs == [at : Places, code : Tokens \cup {Nil}, answered : BOOLEAN]

Insts ==
  [status : {"none", "initialized", "staged_inactive", "credentials_persisted",
             "enrollment_completed", "pending", "activated"},
   creds : BOOLEAN, bundle : BOOLEAN, preclaim : Nat, waiter : Nat, active : BOOLEAN]

FrTypes ==
  /\ inst \in Insts /\ run \in Runs
  /\ boot \in Nat \ {0} /\ inst.preclaim <= boot

\* What a process at work knows of the state that it keeps on disk.
Course ==
  /\ run.at \in Claiming \cup Installing => inst.status \notin {"pending", "activated"}
  /\ run.at \in Installing => inst.status # "none"
  /\ run.at \in Finishing => inst.status = "enrollment_completed"
  /\ run.at \in Waiting => inst.status = "pending"

\* The backend knows nothing of a machine that still has its first claim to make.
FirstClaim == run.at \in Claiming /\ run.code # Nil => Untouched(Machine)

\* A completed receipt stays.
Completed ==
  run.at = "completing" \/ inst.status \in {"enrollment_completed", "pending", "activated"} =>
    Known(Machine)

\* A machine shows that it is ready, and is approved, after it was rebooted.
Rebooted ==
  Vouched(Machine) => \/ inst.waiter # 0 /\ inst.preclaim < boot
                      \/ inst.status = "activated"

Forgotten == inst.status = "none" => Untouched(Machine)

FrInv == FrTypes /\ Course /\ FirstClaim /\ Completed /\ Rebooted /\ Forgotten

LEMMA FrInitHolds == ClInit /\ FrInit => FrInv
<1> SUFFICES ASSUME ClInit, FrInit PROVE FrInv
  OBVIOUS
<1>1. FrTypes
  BY DEF FrInit, FrTypes, Insts, Runs, Places, Idle
<1>2. clients[Machine] = NoClient /\ claims[Machine] = Nil
  BY FreshInstallAssumption DEF ClInit
<1> QED
  BY <1>1, <1>2
     DEF FrInit, FrInv, Course, FirstClaim, Completed, Rebooted, Forgotten, Idle, NoClient,
         Untouched, Known, Vouched, Claiming, Installing, Finishing, Waiting

LEMMA UntouchedIsNothing ==
  ClInv /\ Untouched(Machine) => ~Known(Machine) /\ ~Vouched(Machine)
BY FreshInstallAssumption DEF ClInv, RowsTell, NoClient, Untouched, Known, Vouched

\* What the backend does elsewhere leaves the invariant.
LEMMA ElsewhereKeeps == FrInv /\ Elsewhere(Machine) /\ UNCHANGED frvars => FrInv'
BY DEF Elsewhere, frvars, FrInv, FrTypes, Course, FirstClaim, Completed, Rebooted, Forgotten,
       Untouched, Known, Vouched

\* A process ends, in this boot or by the next.
LEMMA StopKeeps ==
  ASSUME FrInv, UNCHANGED <<inst, clients, claims>>, run' = Idle, boot' \in Nat, boot <= boot'
  PROVE  FrInv'
<1>1. Idle \in Runs /\ Idle.at = "none"
  BY DEF Idle, Runs, Places
<1>2. FrTypes'
  BY <1>1 DEF FrInv, FrTypes, Insts
<1>3. Rebooted'
  BY DEF FrInv, FrTypes, Insts, Rebooted, Vouched
<1> QED
  BY <1>1, <1>2, <1>3
     DEF FrInv, Course, FirstClaim, Completed, Forgotten, Untouched, Known, Claiming,
         Installing, Finishing, Waiting

\* A process goes on to a step which asks no more than it knows.
LEMMA GoesKeeps ==
  ASSUME FrInv, UNCHANGED <<inst, clients, claims, boot>>,
         NEW s \in Places, run' \in Runs, run'.at = s,
         s \in Claiming => run'.code \in {run.code, Nil} /\ (run.at \in Claiming \/ run'.code = Nil),
         s \in Claiming \cup Installing => inst.status \notin {"pending", "activated"},
         s \in Installing => inst.status # "none",
         s \in Finishing => inst.status = "enrollment_completed",
         s \in Waiting => inst.status = "pending",
         s # "completing"
  PROVE  FrInv'
BY DEF FrInv, FrTypes, Course, FirstClaim, Completed, Rebooted, Forgotten, Untouched, Known, Vouched

\* The state on disk changes, but not what a reboot is told by.
LEMMA NoteKeeps ==
  ASSUME FrInv, UNCHANGED <<clients, claims, boot>>,
         NEW s \in Places, run' \in Runs, run'.at = s, s \notin Claiming, s # "completing",
         inst' \in Insts, inst'.preclaim = inst.preclaim, inst'.waiter = inst.waiter,
         inst'.status # "none", inst.status # "none",
         inst.status = "activated" => inst'.status = "activated",
         inst'.status \in {"enrollment_completed", "pending", "activated"} => Known(Machine),
         s \in Installing => inst'.status \notin {"pending", "activated"},
         s \in Finishing => inst'.status = "enrollment_completed",
         s \in Waiting => inst'.status = "pending"
  PROVE  FrInv'
BY DEF FrInv, FrTypes, Course, FirstClaim, Completed, Rebooted, Forgotten, Untouched, Known, Vouched

LEMMA MovedIsRun ==
  ASSUME NEW r \in Runs, NEW s \in Places, NEW b \in BOOLEAN
  PROVE  /\ [r EXCEPT !.at = s] \in Runs
         /\ [r EXCEPT !.at = s].at = s /\ [r EXCEPT !.at = s].code = r.code
BY DEF Runs

-----------------------------------------------------------------------------
LEMMA FactoryKeeps == ASSUME FrInv, FactoryNext PROVE FrInv'
<1>0. run \in Runs /\ UNCHANGED <<inst, clients, claims, boot>>
  BY DEF FrInv, FrTypes, FactoryNext, FactoryBegins, ConnectNetwork, ReachBackend, NameClient,
         ProvisionAccounts, SkipWelcome, SilencePopups, GuardNetwork, PrepareDesktop, LogKioskIn,
         HideOperator, PlaceLauncher, AllowActivation, ForgetNetworks, ForgetUsb, HandOver,
         Factory, SameHost, Backend, clvars
<1>1. ASSUME NEW s \in FactoryAt \cup {"none"}, run' = [run EXCEPT !.at = s] PROVE FrInv'
  <2>1. s \in Places /\ s \notin Claiming \cup Installing \cup Finishing \cup Waiting /\ s # "completing"
    BY DEF Places, FactoryAt, Claiming, Installing, Finishing, Waiting
  <2> QED
    BY <1>0, <1>1, <2>1, MovedIsRun, GoesKeeps
<1>2. CASE FactoryBegins
  BY <1>1, <1>2 DEF FactoryBegins, Goes, FactoryAt
<1>3. ASSUME NEW step \in FactoryAt, NEW prepared, Factory(step, prepared) PROVE FrInv'
  <2> DEFINE n == CHOOSE m \in DOMAIN FactoryOrder : FactoryOrder[m] = step
             s == IF n = Len(FactoryOrder) THEN "none" ELSE FactoryOrder[n + 1]
  <2>1. DOMAIN FactoryOrder = 1 .. 15 /\ Len(FactoryOrder) = 15
        /\ \A m \in 1 .. 15 : FactoryOrder[m] \in FactoryAt
    BY DEF FactoryOrder, FactoryAt
  <2>2. \E m \in 1 .. 15 : FactoryOrder[m] = step
    BY DEF FactoryOrder, FactoryAt
  <2>3. n \in 1 .. 15
    BY <2>1, <2>2
  <2> HIDE DEF n
  <2>4. s \in FactoryAt \cup {"none"}
    BY <2>1, <2>3
  <2>5. run' = [run EXCEPT !.at = s]
    BY <1>3 DEF Factory, Goes, n
  <2> HIDE DEF s
  <2> QED
    BY <1>1, <2>4, <2>5
<1>4. \/ FactoryBegins
      \/ \E step \in FactoryAt : \E prepared : Factory(step, prepared)
  BY DEF FactoryNext, ConnectNetwork, ReachBackend, NameClient,
         ProvisionAccounts, SkipWelcome, SilencePopups, GuardNetwork, PrepareDesktop, LogKioskIn,
         HideOperator, PlaceLauncher, AllowActivation, ForgetNetworks, ForgetUsb, HandOver,
         FactoryAt
<1> QED
  BY <1>2, <1>3, <1>4

-----------------------------------------------------------------------------
\* The activation, up to the claim.
LEMMA CustomerKeeps == ASSUME FrInv, Customer PROVE FrInv'
<1>1. CASE CustomerResumes
  <2> DEFINE s == IF Settled THEN "clear" ELSE "prepare"
  <2>1. /\ UNCHANGED <<inst, clients, claims, boot>>
        /\ run' = [Idle EXCEPT !.at = s]
        /\ inst.status \notin {"none", "activated"}
    BY <1>1 DEF CustomerResumes, SameHost, Backend, clvars
  <2>2. Idle \in Runs /\ Idle.code = Nil /\ s \in Places
    BY DEF Idle, Runs, Places, Claiming, Waiting
  <2>3. s \notin Installing \cup Finishing /\ (s \in Claiming => ~Settled) /\ (s \in Waiting => Settled)
        /\ s # "completing"
    BY DEF Claiming, Installing, Finishing, Waiting
  <2> HIDE DEF s
  <2>4. run' \in Runs /\ run'.at = s /\ run'.code = Nil
    BY <2>1, <2>2, MovedIsRun
  <2> QED
    BY <2>1, <2>2, <2>3, <2>4, GoesKeeps DEF Settled
<1>2. ASSUME NEW k \in Tokens, CustomerBegins(k) PROVE FrInv'
  <2>1. /\ UNCHANGED <<clients, claims, boot>> /\ inst.status = "none"
        /\ inst' = [inst EXCEPT !.bundle = TRUE]
        /\ run' = [at |-> "prepare", code |-> k, answered |-> FALSE]
    BY <1>2 DEF CustomerBegins, SameHost, Backend, clvars
  <2>2. inst' \in Insts /\ inst'.status = "none" /\ inst'.preclaim = inst.preclaim
        /\ inst'.waiter = inst.waiter
    BY <2>1 DEF FrInv, FrTypes, Insts
  <2>3. run' \in Runs /\ run'.at = "prepare"
    BY <2>1 DEF Runs, Places, Claiming
  <2>4. Untouched(Machine)
    BY <2>1 DEF FrInv, Forgotten
  <2> QED
    BY <2>1, <2>2, <2>3, <2>4
       DEF FrInv, FrTypes, Course, FirstClaim, Completed, Rebooted, Forgotten, Untouched, Known,
           Vouched, Claiming, Installing, Finishing, Waiting
<1> QED
  BY <1>1, <1>2 DEF Customer

\* A step of the installer that leaves the state on disk as it is.
LEMMA InstallerGoes ==
  ASSUME FrInv,
         \/ PrepareHost \/ ProveNetwork \/ ClaimAnswered \/ StageRelease \/ InstallUpdaterHost
         \/ RetireLauncher \/ PrepareSession \/ ConfirmReboot \/ FinishWithoutAnswer
  PROVE  FrInv'
<1>0. /\ UNCHANGED <<inst, clients, claims, boot>> /\ run \in Runs
      /\ Course
  BY DEF PrepareHost, ProveNetwork, ClaimAnswered, StageRelease, InstallUpdaterHost,
         RetireLauncher, PrepareSession, ConfirmReboot, FinishWithoutAnswer, SameHost, Backend,
         clvars, FrInv, FrTypes
<1>1. ASSUME NEW s \in Places, run' = [run EXCEPT !.at = s], s # "completing",
             s \in Claiming => run.at \in Claiming,
             s \in Claiming \cup Installing => inst.status \notin {"pending", "activated"},
             s \in Installing => inst.status # "none",
             s \in Finishing => inst.status = "enrollment_completed",
             s \in Waiting => inst.status = "pending"
      PROVE  FrInv'
  BY <1>0, <1>1, MovedIsRun, GoesKeeps
<1> USE DEF At, Goes, Course, Places, Claiming, Installing, Finishing, Waiting
<1>2. CASE PrepareHost
  BY <1>0, <1>1, <1>2 DEF PrepareHost
<1>3. CASE ProveNetwork
  BY <1>0, <1>1, <1>3 DEF ProveNetwork
<1>4. CASE ClaimAnswered
  <2>1. /\ run' = [run EXCEPT !.at = "stage", !.answered = TRUE]
        /\ run.at \in {"claim", "claiming"}
    BY <1>4 DEF ClaimAnswered
  <2>2. run' \in Runs /\ run'.at = "stage"
    BY <1>0, <2>1 DEF Runs
  <2> QED
    BY <1>0, <2>1, <2>2, GoesKeeps
<1>5. CASE StageRelease
  BY <1>0, <1>1, <1>5 DEF StageRelease
<1>6. CASE InstallUpdaterHost
  BY <1>0, <1>1, <1>6 DEF InstallUpdaterHost
<1>7. CASE RetireLauncher
  BY <1>0, <1>1, <1>7 DEF RetireLauncher
<1>8. CASE PrepareSession
  BY <1>0, <1>1, <1>8 DEF PrepareSession
<1>9. CASE ConfirmReboot \/ FinishWithoutAnswer
  <2>1. run' = Idle /\ boot \in Nat /\ boot <= boot
    BY <1>9 DEF ConfirmReboot, FinishWithoutAnswer, Stops, FrInv, FrTypes
  <2> QED
    BY <1>0, <2>1, StopKeeps
<1> QED
  BY <1>2, <1>3, <1>4, <1>5, <1>6, <1>7, <1>8, <1>9

-----------------------------------------------------------------------------
\* The steps of the installer that write down how far it is.
LEMMA InstallBeginsKeeps == ASSUME ClInv, FrInv, InstallBegins PROVE FrInv'
<1> DEFINE s == IF ~inst.creds THEN "claim"
                ELSE IF inst.status = "enrollment_completed" THEN "finish" ELSE "complete"
           new == [inst EXCEPT !.status = "initialized", !.preclaim = boot]
<1>1. /\ UNCHANGED <<clients, claims, boot>> /\ run.at = "begin"
      /\ inst' = IF inst.status = "none" THEN new ELSE inst
      /\ run' = [run EXCEPT !.at = s]
  BY DEF InstallBegins, At, Goes, SameHost, Backend, clvars
<1>2. s \in Places /\ s # "completing" /\ s \notin Waiting
      /\ (s \in Claiming => s = "claim") /\ run.at \in Claiming
      /\ (s \in Finishing => inst.status = "enrollment_completed")
  BY <1>1 DEF Places, Claiming, Installing, Finishing, Waiting
<1> HIDE DEF s
<1>3. run' \in Runs /\ run'.at = s /\ run'.code = run.code
  BY <1>1, <1>2, MovedIsRun DEF FrInv, FrTypes
<1>4. inst.status \notin {"pending", "activated"}
  BY <1>2 DEF FrInv, Course
<1>5. CASE inst.status # "none"
  BY <1>1, <1>2, <1>3, <1>4, <1>5, GoesKeeps
<1>6. CASE inst.status = "none"
  <2>1. /\ new \in Insts /\ new.status = "initialized" /\ new.preclaim = boot
    BY DEF FrInv, FrTypes, Insts
  <2>2. inst' = new
    BY <1>1, <1>6
  <2> HIDE DEF new
  <2>3. Untouched(Machine) /\ ~Known(Machine) /\ ~Vouched(Machine)
    BY <1>6, UntouchedIsNothing DEF FrInv, Forgotten
  <2> QED
    BY <1>1, <1>2, <1>3, <2>1, <2>2, <2>3
       DEF FrInv, FrTypes, Course, FirstClaim, Completed, Rebooted, Forgotten, Untouched, Known,
           Vouched
<1> QED
  BY <1>5, <1>6

LEMMA ClaimIsAsked == ASSUME ClInv, FrInv, SendClaim \/ ClaimRefused \/ ClaimUnanswered PROVE FrInv'
<1>0. run \in Runs /\ Machine \in Installs /\ claims \in [Installs -> Tokens \cup {Nil}]
      /\ boot \in Nat /\ boot <= boot
  BY FreshInstallAssumption DEF FrInv, FrTypes, ClInv, ClTypes
<1>1. CASE SendClaim
  <2>1. /\ UNCHANGED <<inst, boot, clients>> /\ run.at = "claim"
        /\ run' = [run EXCEPT !.at = "claiming"]
    BY <1>1 DEF SendClaim, ClaimReads, At, Goes, SameHost
  <2>2. run' \in Runs /\ run'.at = "claiming"
    BY <1>0, <2>1, MovedIsRun DEF Places, Installing
  <2>3. inst.status \notin {"none", "pending", "activated"}
    BY <2>1 DEF FrInv, Course, Claiming, Installing
  <2> QED
    BY <2>1, <2>2, <2>3
       DEF FrInv, FrTypes, Course, FirstClaim, Completed, Rebooted, Forgotten, Known, Vouched,
           Claiming, Installing, Finishing, Waiting
<1>2. CASE ClaimRefused
  <2>1. /\ UNCHANGED <<clients, claims, boot>> /\ run.at = "claim" /\ run' = Idle
        /\ inst' = IF run.code # Nil THEN Cleaned ELSE inst
    BY <1>2 DEF ClaimRefused, At, Stops, SameHost, Backend, clvars
  <2>2. CASE run.code = Nil
    BY <1>0, <2>1, <2>2, StopKeeps
  <2>3. CASE run.code # Nil
    <3>1. Untouched(Machine) /\ ~Known(Machine) /\ ~Vouched(Machine)
      BY <2>1, <2>3, UntouchedIsNothing DEF FrInv, FirstClaim, Claiming
    <3>2. Cleaned \in Insts /\ Cleaned.status = "none" /\ Cleaned.preclaim = 0
      BY DEF FrInv, FrTypes, Insts, Cleaned
    <3>3. run' \in Runs /\ run'.at = "none"
      BY <2>1 DEF Idle, Runs, Places
    <3>4. inst' = Cleaned
      BY <2>1, <2>3
    <3> QED
      BY <2>1, <3>1, <3>2, <3>3, <3>4
         DEF FrInv, FrTypes, Course, FirstClaim, Completed, Rebooted, Forgotten, Untouched,
             Known, Vouched, Claiming, Installing, Finishing, Waiting
  <2> QED
    BY <2>2, <2>3
<1>3. CASE ClaimUnanswered
  BY <1>0, <1>3, StopKeeps DEF ClaimUnanswered, Stops, Backend, clvars
<1> QED
  BY <1>1, <1>2, <1>3

\* A note of how far the installation is, once its claim was answered.
LEMMA InstallerNotes ==
  ASSUME FrInv,
         \/ Configure \/ PersistCredentials \/ NotePersisted \/ NoteCompleted
         \/ FinishInstall \/ ClearBundle
  PROVE  FrInv'
<1>0. /\ UNCHANGED <<clients, claims, boot>> /\ run \in Runs /\ inst \in Insts
      /\ run.at \in {"configure", "persist", "completing", "describe", "clear"}
  BY DEF Configure, PersistCredentials, NotePersisted, NoteCompleted, FinishInstall, ClearBundle,
         SameHost, Backend, clvars, FrInv, FrTypes, At
<1>1. /\ run.at \in {"configure", "persist", "completing"} =>
           inst.status \notin {"none", "pending", "activated"}
      /\ run.at = "describe" => inst.status = "enrollment_completed"
      /\ run.at = "clear" => inst.status = "pending"
      /\ run.at \in {"completing", "describe", "clear"} => Known(Machine)
      /\ inst.status = "enrollment_completed" => Known(Machine)
  BY <1>0 DEF FrInv, Course, Completed, Claiming, Installing, Finishing, Waiting
<1> DEFINE Written(new, s) == /\ new \in Insts /\ new.preclaim = inst.preclaim
                            /\ new.waiter = inst.waiter
                            /\ inst' = new /\ run' \in Runs /\ run'.at = s
<1>2. ASSUME Configure
      PROVE  FrInv'
  <2> DEFINE new == [inst EXCEPT !.status = "staged_inactive"]
  <2>1. Written(new, "persist") /\ new.status = "staged_inactive" /\ run.at = "configure"
    BY <1>0, <1>2, MovedIsRun DEF Configure, At, Goes, Insts, Places, Installing
  <2> HIDE DEF new
  <2> QED
    BY <1>0, <1>1, <2>1, NoteKeeps DEF Places, Claiming, Installing, Finishing, Waiting
<1>3. ASSUME PersistCredentials
      PROVE  FrInv'
  <2> DEFINE new == [inst EXCEPT !.creds = TRUE]
  <2>1. Written(new, "persist") /\ new.status = inst.status /\ run.at = "persist"
    BY <1>0, <1>3 DEF PersistCredentials, At, Insts
  <2> HIDE DEF new
  <2> QED
    BY <1>0, <1>1, <2>1, NoteKeeps DEF Places, Claiming, Installing, Finishing, Waiting
<1>4. ASSUME NotePersisted
      PROVE  FrInv'
  <2> DEFINE new == [inst EXCEPT !.status = "credentials_persisted"]
  <2>1. Written(new, "complete") /\ new.status = "credentials_persisted" /\ run.at = "persist"
    BY <1>0, <1>4, MovedIsRun DEF NotePersisted, At, Goes, Insts, Places, Installing
  <2> HIDE DEF new
  <2> QED
    BY <1>0, <1>1, <2>1, NoteKeeps DEF Places, Claiming, Installing, Finishing, Waiting
<1>5. ASSUME NoteCompleted
      PROVE  FrInv'
  <2> DEFINE new == [inst EXCEPT !.status = "enrollment_completed"]
  <2>1. Written(new, "finish") /\ new.status = "enrollment_completed" /\ run.at = "completing"
    BY <1>0, <1>5, MovedIsRun DEF NoteCompleted, At, Goes, Insts, Places, Finishing
  <2> HIDE DEF new
  <2> QED
    BY <1>0, <1>1, <2>1, NoteKeeps DEF Places, Claiming, Installing, Finishing, Waiting
<1>6. ASSUME FinishInstall
      PROVE  FrInv'
  <2> DEFINE new == [inst EXCEPT !.status = "pending"]
  <2>1. Written(new, "clear") /\ new.status = "pending" /\ run.at = "describe"
    BY <1>0, <1>6, MovedIsRun DEF FinishInstall, At, Goes, Insts, Places, Waiting
  <2> HIDE DEF new
  <2> QED
    BY <1>0, <1>1, <2>1, NoteKeeps DEF Places, Claiming, Installing, Finishing, Waiting
<1>7. ASSUME ClearBundle
      PROVE  FrInv'
  <2> DEFINE new == [inst EXCEPT !.bundle = FALSE]
  <2>1. Written(new, "retire") /\ new.status = inst.status /\ run.at = "clear"
    BY <1>0, <1>7, MovedIsRun DEF ClearBundle, At, Goes, Insts, Places, Waiting
  <2> HIDE DEF new
  <2> QED
    BY <1>0, <1>1, <2>1, NoteKeeps DEF Places, Claiming, Installing, Finishing, Waiting
<1> QED
  BY <1>2, <1>3, <1>4, <1>5, <1>6, <1>7

LEMMA CompleteIsAsked == ASSUME ClInv, FrInv, SendComplete PROVE FrInv'
<1>1. /\ CompleteEnrollment(Machine) /\ UNCHANGED <<inst, boot>> /\ run.at = "complete"
      /\ run' = [run EXCEPT !.at = "completing"]
  BY DEF SendComplete, At, Goes, SameHost
<1>2. run' \in Runs /\ run'.at = "completing"
  BY <1>1, MovedIsRun DEF FrInv, FrTypes, Places, Installing
<1>3. Elsewhere(Machine)
  BY <1>1, FreshInstallAssumption, ClientTurn
<1>4. Known(Machine)'
  BY <1>1, FreshInstallAssumption DEF CompleteEnrollment, Known, ClInv, ClTypes, Client
<1>5. inst.status \notin {"none", "pending", "activated"}
  BY <1>1 DEF FrInv, Course, Installing
<1> QED
  BY <1>1, <1>2, <1>3, <1>4, <1>5
     DEF FrInv, FrTypes, Course, FirstClaim, Completed, Rebooted, Forgotten, Elsewhere,
         Claiming, Installing, Finishing, Waiting

-----------------------------------------------------------------------------
\* The waiter is installed in one boot and works from the next one on.
LEMMA InstallWaiterKeeps == ASSUME FrInv, InstallWaiter PROVE FrInv'
<1> DEFINE new == [inst EXCEPT !.waiter = boot]
<1>1. /\ UNCHANGED <<clients, claims, boot>> /\ run.at = "wait" /\ inst' = new
      /\ run' = [run EXCEPT !.at = "confirm"]
  BY DEF InstallWaiter, At, Goes, SameHost, Backend, clvars
<1>2. new \in Insts /\ new.status = inst.status /\ new.preclaim = inst.preclaim /\ new.waiter = boot
  BY DEF FrInv, FrTypes, Insts
<1>3. run' \in Runs /\ run'.at = "confirm"
  BY <1>1, MovedIsRun DEF FrInv, FrTypes, Places, Waiting
<1>4. inst.status = "pending"
  BY <1>1 DEF FrInv, Course, Waiting
<1> HIDE DEF new
<1> QED
  BY <1>1, <1>2, <1>3, <1>4
     DEF FrInv, FrTypes, Course, FirstClaim, Completed, Rebooted, Forgotten, Untouched, Known,
         Vouched, Claiming, Installing, Finishing, Waiting

LEMMA PublishKeeps == ASSUME ClInv, FrInv, WaiterPublishes PROVE FrInv'
<1>1. /\ PublishApprovalReadiness(Machine) /\ UNCHANGED <<inst, boot>>
      /\ run' = [run EXCEPT !.at = "published"] /\ inst.status = "pending"
      /\ inst.waiter # 0 /\ boot # inst.preclaim
  BY DEF WaiterPublishes, WaiterRuns, ShowsReady, Goes, SameHost
<1>2. run' \in Runs /\ run'.at = "published"
  BY <1>1, MovedIsRun DEF FrInv, FrTypes, Places, Waiting
<1>3. Known(Machine) => Known(Machine)'
  BY <1>1, FreshInstallAssumption DEF PublishApprovalReadiness, Known, ClInv, ClTypes, Client
<1>4. inst.preclaim < boot
  BY <1>1 DEF FrInv, FrTypes, Insts
<1> QED
  BY <1>1, <1>2, <1>3, <1>4
     DEF FrInv, FrTypes, Course, FirstClaim, Completed, Rebooted, Forgotten,
         Claiming, Installing, Finishing, Waiting

\* A step of the waiter that leaves the state on disk as it is.
LEMMA WaiterGoes ==
  ASSUME FrInv,
         WaiterIsTurnedAway \/ RemoveOperator \/ Lockdown \/ WaiterWaits \/ StageHandoff \/ FinalReboot
  PROVE  FrInv'
<1>0. /\ UNCHANGED <<inst, clients, claims>> /\ run \in Runs /\ boot \in Nat
  BY DEF WaiterIsTurnedAway, RemoveOperator, Lockdown, WaiterWaits, StageHandoff, FinalReboot, Reboot,
         SameHost, Backend, clvars, FrInv, FrTypes
<1>1. ASSUME NEW s \in {"published", "operator_gone", "locked"}, UNCHANGED boot,
             run' = [run EXCEPT !.at = s], s # "locked" => inst.status = "pending"
      PROVE  FrInv'
  <2>1. s \in Places /\ s \notin Claiming \cup Installing \cup Finishing /\ s # "completing"
        /\ (s \in Waiting => s # "locked")
    BY DEF Places, Claiming, Installing, Finishing, Waiting
  <2> QED
    BY <1>0, <1>1, <2>1, MovedIsRun, GoesKeeps
<1>2. CASE WaiterIsTurnedAway
  BY <1>1, <1>2 DEF WaiterIsTurnedAway, Goes, SameHost
<1>3. CASE RemoveOperator
  BY <1>1, <1>3 DEF RemoveOperator, At, Goes, SameHost, FrInv, Course, Waiting
<1>4. CASE Lockdown
  BY <1>1, <1>4 DEF Lockdown, Goes, SameHost
<1>5. CASE WaiterWaits \/ StageHandoff \/ FinalReboot
  <2>1. run' = Idle /\ boot' \in Nat /\ boot <= boot'
    BY <1>0, <1>5 DEF WaiterWaits, StageHandoff, FinalReboot, Reboot, Stops, SameHost
  <2> QED
    BY <1>0, <2>1, StopKeeps
<1> QED
  BY <1>2, <1>3, <1>4, <1>5

LEMMA WaiterNotes ==
  ASSUME FrInv, WaiterActivates \/ RepairFirstActivation \/ NoteActivated \/ CleanUp
  PROVE  FrInv'
<1>0. /\ UNCHANGED <<clients, claims, boot>> /\ run \in Runs /\ inst \in Insts
  BY DEF WaiterActivates, RepairFirstActivation, NoteActivated, CleanUp, SameHost, Backend, clvars,
         FrInv, FrTypes
<1>1. CASE WaiterActivates \/ RepairFirstActivation
  <2> DEFINE new == [inst EXCEPT !.active = TRUE]
  <2>1. inst' = new /\ run' = [run EXCEPT !.at = "activated"] /\ inst.status = "pending"
    BY <1>1 DEF WaiterActivates, RepairFirstActivation, At, Goes, FrInv, Course, Waiting
  <2>2. new \in Insts /\ new.status = inst.status /\ new.preclaim = inst.preclaim
        /\ new.waiter = inst.waiter
    BY <1>0 DEF Insts
  <2>3. run' \in Runs /\ run'.at = "activated" /\ "activated" \in Places
    BY <1>0, <2>1, MovedIsRun DEF Places, Waiting
  <2>4. Known(Machine)
    BY <2>1 DEF FrInv, Completed
  <2> HIDE DEF new
  <2> QED
    BY <1>0, <2>1, <2>2, <2>3, <2>4, NoteKeeps DEF Claiming, Installing, Finishing
<1>2. CASE NoteActivated
  <2> DEFINE new == [inst EXCEPT !.status = "activated"]
  <2>1. inst' = new /\ run' = Idle /\ inst.status = "pending"
    BY <1>2 DEF NoteActivated, At, Stops, FrInv, Course, Waiting
  <2>2. new \in Insts /\ new.status = "activated" /\ new.preclaim = inst.preclaim
        /\ new.waiter = inst.waiter
    BY <1>0 DEF Insts
  <2>3. run' \in Runs /\ run'.at = "none" /\ "none" \in Places
    BY <2>1 DEF Idle, Runs, Places
  <2>4. Known(Machine)
    BY <2>1 DEF FrInv, Completed
  <2> HIDE DEF new
  <2> QED
    BY <1>0, <2>1, <2>2, <2>3, <2>4, NoteKeeps DEF Claiming, Installing, Finishing, Waiting
<1>3. CASE CleanUp
  <2> DEFINE new == [inst EXCEPT !.waiter = 0]
  <2>1. inst' = new /\ run' = run /\ inst.status = "activated"
    BY <1>3 DEF CleanUp
  <2>2. new \in Insts /\ new.status = inst.status /\ new.preclaim = inst.preclaim
    BY <1>0 DEF Insts
  <2> HIDE DEF new
  <2> QED
    BY <1>0, <2>1, <2>2
       DEF FrInv, FrTypes, Course, FirstClaim, Completed, Rebooted, Forgotten, Untouched, Known,
           Vouched
<1> QED
  BY <1>1, <1>2, <1>3

-----------------------------------------------------------------------------
LEMMA MachineKeeps == ASSUME ClInv, FrInv, MachineNext PROVE FrInv'
<1>1. CASE FactoryNext
  BY <1>1, FactoryKeeps
<1>2. CASE Customer
  BY <1>2, CustomerKeeps
<1>3. CASE Installer
  BY <1>3, InstallerGoes, InstallBeginsKeeps, ClaimIsAsked, InstallerNotes, CompleteIsAsked,
     InstallWaiterKeeps DEF Installer
<1>4. CASE Waiter
  BY <1>4, PublishKeeps, WaiterGoes, WaiterNotes DEF Waiter
<1>5. CASE Accept \/ AcceptanceFails
  BY <1>5 DEF Accept, AcceptanceFails, Backend, clvars, FrInv, FrTypes, Course, FirstClaim,
              Completed, Rebooted, Forgotten, Untouched, Known, Vouched
<1>6. CASE RepairFirstActivation
  BY <1>6, WaiterNotes
<1>7. CASE RunFails \/ Reboot
  <2>1. UNCHANGED <<inst, clients, claims>> /\ run' = Idle /\ boot' \in Nat /\ boot <= boot'
    BY <1>7 DEF RunFails, Reboot, Stops, Backend, clvars, FrInv, FrTypes
  <2> QED
    BY <2>1, StopKeeps
<1>8. CASE ClaimUnanswered
  BY <1>8, ClaimIsAsked
<1>9. CASE ReportStatus(Machine) /\ UNCHANGED frvars
  BY <1>9, FreshInstallAssumption, ClientTurn, ElsewhereKeeps
<1> QED
  BY <1>1, <1>2, <1>3, <1>4, <1>5, <1>6, <1>7, <1>8, <1>9 DEF MachineNext

\* To the backend the machine is one among others.
LEMMA MachineAsksBackend ==
  ASSUME FrInv, MachineNext
  PROVE  ClMachineNext(Machine) \/ UNCHANGED clvars
<1>1. CASE FactoryNext \/ Customer
  BY <1>1 DEF FactoryNext, FactoryBegins, ConnectNetwork, ReachBackend, NameClient,
              ProvisionAccounts, SkipWelcome, SilencePopups, GuardNetwork, PrepareDesktop,
              LogKioskIn, HideOperator, PlaceLauncher, AllowActivation, ForgetNetworks, ForgetUsb,
              HandOver, Factory, Customer, CustomerResumes, CustomerBegins, Backend
<1>2. CASE Installer
  <2>1. CASE SendClaim
    <3>1. run.code \in Tokens /\ ClaimReads(Machine, run.code)
      BY <2>1 DEF SendClaim, FrInv, FrTypes, Runs
    <3> QED
      BY <3>1 DEF ClMachineNext
  <2>2. CASE SendComplete
    BY <2>2 DEF SendComplete, ClMachineNext
  <2>3. CASE ~SendClaim /\ ~SendComplete
    BY <1>2, <2>3
       DEF Installer, PrepareHost, ProveNetwork, InstallBegins, ClaimAnswered, ClaimRefused,
           StageRelease, Configure, PersistCredentials, NotePersisted, NoteCompleted,
           InstallUpdaterHost, FinishInstall, FinishWithoutAnswer, ClearBundle, RetireLauncher,
           PrepareSession, InstallWaiter, ConfirmReboot, Backend
  <2> QED
    BY <2>1, <2>2, <2>3
<1>3. CASE Waiter
  <2>1. CASE WaiterPublishes
    BY <2>1 DEF WaiterPublishes, ClMachineNext
  <2>2. CASE ~WaiterPublishes
    BY <1>3, <2>2
       DEF Waiter, WaiterIsTurnedAway, WaiterActivates, WaiterWaits, RemoveOperator,
           NoteActivated, Lockdown, StageHandoff, FinalReboot, Reboot, CleanUp, Backend
  <2> QED
    BY <2>1, <2>2
<1>4. CASE \/ Accept \/ RepairFirstActivation \/ AcceptanceFails \/ RunFails
           \/ ClaimUnanswered \/ Reboot
  BY <1>4 DEF Accept, RepairFirstActivation, AcceptanceFails, RunFails, ClaimUnanswered, Reboot,
              Backend
<1>5. CASE ReportStatus(Machine)
  BY <1>5 DEF ClMachineNext
<1> QED
  BY <1>1, <1>2, <1>3, <1>4, <1>5 DEF MachineNext

LEMMA FrStepKeeps ==
  ASSUME ClInv, FrInv, [FrNext]_<<clvars, frvars>>
  PROVE  ClInv' /\ FrInv'
<1>0. Machine \in Installs
  BY FreshInstallAssumption
<1>1. CASE UNCHANGED <<clvars, frvars>>
  <2>1. Elsewhere(Machine) /\ UNCHANGED frvars /\ UNCHANGED clvars
    BY <1>1, SameElsewhere DEF clvars
  <2> QED
    BY <2>1, ElsewhereKeeps, ClStepKeeps
<1>2. CASE (ClAdminNext \/ \E i \in Installs \ {Machine} : ClMachineNext(i)) /\ UNCHANGED frvars
  BY <1>0, <1>2, BackendTurns, ElsewhereKeeps, ClStepKeeps
<1>3. CASE MachineNext
  <2>1. [ClAdminNext \/ \E i \in Installs : ClMachineNext(i)]_clvars
    BY <1>0, <1>3, MachineAsksBackend
  <2> QED
    BY <1>3, <2>1, MachineKeeps, ClStepKeeps
<1> QED
  BY <1>1, <1>2, <1>3 DEF FrNext

(***************************************************************************)
(* A machine and the backend agree on how far its installation is: one     *)
(* that has forgotten it is unknown to the backend, one that takes its     *)
(* enrollment for completed is known by a completed receipt until it is    *)
(* deleted for good, and one that was approved had been rebooted since its *)
(* claim; whatever is lost, fails, is given up or is resumed, and whatever *)
(* users do with the client meanwhile (install_fresh,                      *)
(* _activation_wait, approve_client, restore_client).                      *)
(***************************************************************************)
THEOREM MachineKeepsTrack == FrSpec => []InstallKeepsTrack
<1>1. ClInv /\ FrInv => InstallKeepsTrack
  BY DEF FrInv, FrTypes, Insts, Forgotten, Completed, Rebooted, Untouched, Known, Vouched,
         InstallKeepsTrack, ForgottenIsRefused, CompletedIsKnown, ApprovedHasRebooted
<1> QED
  BY <1>1, ClInitHolds, FrInitHolds, FrStepKeeps, PTL DEF FrSpec

-----------------------------------------------------------------------------
(***************************************************************************)
(* The lockdown.  Its state file tells the truth, for any number of        *)
(* requests, changes of what is wanted, failures, deaths of the broker and *)
(* of the agent, boots and drifts.                                         *)
(***************************************************************************)
LockdownStatuses == {"none", "applying", "applied", "rolling_back", "disabled", "error"}

KlTypes ==
  /\ saved \in [desired : BOOLEAN, status : LockdownStatuses]
  /\ force \subseteq Restrictions
  /\ icon \in {"own", "blocked", "torn"}
  /\ backup \in [file : {"none", "own", "torn"}, listed : BOOLEAN]
  /\ op \in [kind : {"none", "apply", "cleanup", "rollback"},
             at : {"begin", "launchers", "acl", "polkit", "guard", "verify", "ok", "error"}]
  /\ harm \subseteq {"drift", "torn"}

\* The state file says what is going to be done before it is done, and that it
\* is done only afterwards.
SavedIsOp ==
  /\ op.kind \in {"apply", "cleanup"} => saved = [desired |-> TRUE, status |-> "applying"]
  /\ op.kind = "rollback" => saved = [desired |-> FALSE, status |-> "rolling_back"]
  /\ saved.status = "applied" => saved.desired
  /\ saved.status = "disabled" => ~saved.desired

\* As long as no writing of a launcher was cut off, the kiosk user's launcher
\* exists exactly once: in its place, or as a backup that is listed.
OneCopy ==
  "torn" \notin harm =>
    \/ icon = "own" /\ backup.file = "none"
    \/ icon = "blocked" /\ backup = [file |-> "own", listed |-> TRUE]

KlInv == KlTypes /\ SavedIsOp /\ OneCopy /\ LockdownStateIsTrue

\* What the invariant goes by.
Desktop == <<saved, force, icon, backup, op, harm>>

LEMMA KlInitHolds == KlInit => KlInv
BY DEF KlInit, KlInv, KlTypes, SavedIsOp, OneCopy, LockdownStateIsTrue, LockdownStatuses, Restrictions,
       NoOp, Verified

LEMMA DesktopUnchanged == KlInv /\ UNCHANGED Desktop => KlInv'
BY DEF Desktop, KlInv, KlTypes, SavedIsOp, OneCopy, LockdownStateIsTrue, Verified

\* What RestoreLaunchers makes of the launcher and of its backup.
LEMMA Restored ==
  RestoreLaunchers =>
    /\ icon' = icon \/ (icon' = backup.file /\ backup.file # "none")
    /\ backup' = backup \/ backup' = [file |-> "none", listed |-> FALSE]
BY DEF RestoreLaunchers

LEMMA BrokerStep == KlInv /\ BrokerNext => KlInv'
<1> SUFFICES ASSUME KlInv, BrokerNext PROVE KlInv'
  OBVIOUS
<1> USE DEF KlInv, KlTypes, SavedIsOp, OneCopy, LockdownStateIsTrue, LockdownStatuses, Verified, Step,
            Undoing, Ends, Answered
<1>1. CASE ApplyBegins
  BY <1>1 DEF ApplyBegins, Restrictions
<1>2. CASE HideLaunchers
  <2>1. /\ saved' = saved /\ force' = force /\ harm' = harm
        /\ icon' = "blocked" /\ backup'.listed /\ backup' \in [file : {"none", "own", "torn"}, listed : BOOLEAN]
        /\ backup'.file = (IF icon = "blocked" THEN backup.file ELSE icon)
        /\ op' = [kind |-> "apply", at |-> "acl"] /\ op.kind = "apply"
    BY <1>2 DEF HideLaunchers, BackedUp
  <2>2. "torn" \notin harm' => icon' = "blocked" /\ backup' = [file |-> "own", listed |-> TRUE]
    BY <2>1
  <2> QED
    BY <2>1, <2>2
<1>3. CASE ApplyAcl \/ ApplyPolkit \/ StartGuard
  BY <1>3 DEF ApplyAcl, ApplyPolkit, StartGuard, Restricts, Restrictions
<1>4. CASE ApplyFails
  BY <1>4 DEF ApplyFails
<1>5. CASE ApplyIsDone
  BY <1>5 DEF ApplyIsDone
<1>6. CASE RollbackBegins
  BY <1>6 DEF RollbackBegins
<1>7. CASE StopGuard \/ LiftAcl \/ LiftPolkit
  BY <1>7 DEF StopGuard, LiftAcl, LiftPolkit, Lifts
<1>8. CASE RestoreLaunchers
  <2>1. /\ saved' = saved /\ force' = force /\ harm' = harm
        /\ op.kind \in {"rollback", "cleanup"} /\ op' = [kind |-> op.kind, at |-> "acl"]
    BY <1>8 DEF RestoreLaunchers
  <2>2. /\ icon' \in {"own", "blocked", "torn"}
        /\ backup' \in [file : {"none", "own", "torn"}, listed : BOOLEAN]
    <3>1. backup' = backup \/ backup' = [file |-> "none", listed |-> FALSE]
      BY <1>8, Restored
    <3> DEFINE B == [file : {"none", "own", "torn"}, listed : BOOLEAN]
    <3>a. backup \in B /\ [file |-> "none", listed |-> FALSE] \in B
      OBVIOUS
    <3> HIDE DEF B
    <3>2. backup' \in B
      BY <3>1, <3>a
    <3>3. backup.file \in {"none", "own", "torn"}
      OBVIOUS
    <3>4. icon' = icon \/ (icon' = backup.file /\ backup.file # "none")
      BY <1>8, Restored
    <3>5. icon' \in {"own", "blocked", "torn"}
      BY <3>3, <3>4
    <3> QED
      BY <3>2, <3>5 DEF B
  <2>3. "torn" \notin harm => icon' = "own" /\ backup'.file = "none"
    BY <1>8 DEF RestoreLaunchers
  <2>4. saved.status \in {"applying", "rolling_back"}
    BY <2>1
  <2>5. KlTypes' /\ SavedIsOp'
    BY <2>1, <2>2
  <2>6. OneCopy' /\ LockdownStateIsTrue'
    BY <2>1, <2>3, <2>4
  <2> QED
    BY <2>5, <2>6
<1>9. CASE CleanupIsDone
  BY <1>9 DEF CleanupIsDone
<1>10. CASE RollbackIsDone
  BY <1>10 DEF RollbackIsDone
<1> QED
  BY <1>1, <1>2, <1>3, <1>4, <1>5, <1>6, <1>7, <1>8, <1>9, <1>10 DEF BrokerNext

LEMMA BrokerFailure == KlInv /\ BrokerFails => KlInv'
<1> SUFFICES ASSUME KlInv, BrokerFails PROVE KlInv'
  OBVIOUS
<1> USE DEF KlInv, KlTypes, SavedIsOp, OneCopy, LockdownStateIsTrue, LockdownStatuses, Verified,
            Ends, Answered
<1>1. CASE ApplyNotReady
  BY <1>1 DEF ApplyNotReady, Serving, Busy
<1>2. CASE ApplyFails
  BY <1>2 DEF ApplyFails
<1>3. CASE UndoFails
  BY <1>3 DEF UndoFails
<1>4. CASE BrokerDies
  BY <1>4 DEF BrokerDies, TornBy, Busy, BackedUp
<1>5. CASE Drifts
  BY <1>5 DEF Drifts
<1> QED
  BY <1>1, <1>2, <1>3, <1>4, <1>5 DEF BrokerFails

LEMMA BootStep == KlInv /\ MachineBoots => KlInv'
BY DEF MachineBoots, TornBy, BackedUp, NoOp, KlInv, KlTypes, SavedIsOp, OneCopy,
       LockdownStateIsTrue, LockdownStatuses, Verified, Restrictions

\* Whatever else happens leaves the desktop alone, or takes an answer.
LEMMA OtherwiseDesktop ==
  DcNext => \/ UNCHANGED Desktop
            \/ BrokerNext \/ BrokerFails \/ MachineBoots
            \/ op' = NoOp /\ UNCHANGED <<saved, force, icon, backup, harm>>
BY DEF DcNext, SetConfiguration, SetLockdown, CooldownOver, AgentStarts, BridgeReports,
       BridgeReads, BridgeCommits, AgentNext, AgentReports, AgentFindsNothing, AgentClaims,
       AgentConfigures, AgentCalls, Ask, AgentIsAnswered, AgentCompletes, AgentFails,
       AgentGivesUp, AgentDies, PowerIsLost, LeaseRunsOut, CommandExpires, DcRest, klvars, Desktop

(***************************************************************************)
(* The state file of the lockdown is true of the desktop: "applied" only   *)
(* with every restriction in force, and "disabled" only with none of them  *)
(* and the kiosk user's launcher in its place again (apply and rollback of *)
(* kiosk_lockdown.py, under the agent and the backend that drive them).    *)
(***************************************************************************)
THEOREM LockdownIsTold == DcSpec => []LockdownStateIsTrue
<1>1. KlInv /\ [DcNext]_<<klvars, dcvars>> => KlInv'
  <2> SUFFICES ASSUME KlInv, [DcNext]_<<klvars, dcvars>> PROVE KlInv'
    OBVIOUS
  <2>1. CASE op' = NoOp /\ UNCHANGED <<saved, force, icon, backup, harm>>
    BY <2>1 DEF NoOp, KlInv, KlTypes, SavedIsOp, OneCopy, LockdownStateIsTrue, Verified
  <2>2. CASE UNCHANGED <<klvars, dcvars>>
    BY <2>2, DesktopUnchanged DEF klvars, Desktop
  <2> QED
    BY <2>1, <2>2, OtherwiseDesktop, DesktopUnchanged, BrokerStep, BrokerFailure, BootStep
<1>2. KlInv => LockdownStateIsTrue
  BY DEF KlInv
<1> QED
  BY <1>1, <1>2, KlInitHolds, PTL DEF DcSpec
=============================================================================
