------------------------------ MODULE MCFleet ------------------------------
(***************************************************************************)
(* Clients by themselves, with machines that ask for anything at any time, *)
(* and the installation of one machine: focus says which.                  *)
(***************************************************************************)
EXTENDS FreshInstall

VARIABLE focus

Init ==
  /\ ClInit /\ FrInit
  /\ focus \in {"clients", "install"}

\* Deletions of organizations and moves between them stay with the clients.
InstallAdminNext ==
  \/ \E k \in Tokens, o \in Orgs : CreateToken(k, o)
  \/ \E k \in Tokens : TokenExpires(k)
  \/ ClaimCommits(Machine) \/ ResumeWindowEnds(Machine)
  \/ \E o \in Orgs : Approve(Machine, o)
  \/ RemoveClient(Machine) \/ RestoreClient(Machine) \/ PurgeClient(Machine)

\* A bound: only the secret of one client is rotated.
Rotated == CHOOSE i \in Installs \ {Machine} : TRUE
OneSecret == \A i \in Installs : clients[i].secret => i = Rotated

Next ==
  /\ \/ /\ focus = "clients" /\ UNCHANGED frvars
        /\ ClAdminNext \/ \E i \in Installs \ {Machine} : ClMachineNext(i)
        /\ OneSecret'
     \/ focus = "install" /\ ((InstallAdminNext /\ UNCHANGED frvars) \/ MachineNext)
  /\ UNCHANGED focus

vars == <<clvars, frvars, focus>>
FairSpec == Init /\ [][Next]_vars /\ FrFairness
=============================================================================
