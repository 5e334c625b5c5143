------------------------------ MODULE Accounts ------------------------------
(***************************************************************************)
(* Users, their login sessions and the switching between users             *)
(* (backend/service1/auth.py, routers/users.py).                           *)
(*                                                                         *)
(* The handlers that are not async run in threads and read without a lock: *)
(* what they decide by can be out of date when they commit, so they take   *)
(* two steps here.  The async ones do not wait between their reads and     *)
(* their commit and take one step; sending a mail is where they wait.      *)
(***************************************************************************)
EXTENDS Naturals, Sequences, FiniteSets

LOCAL INSTANCE Functions

CONSTANTS
  Users,
  Nobody,
  FirstAdmins,  \* the superadministrators there are in the beginning
  Reqs,         \* requests of threaded handlers that are in progress at once
  Timeout,      \* absolute life of a login
  MaxNow,       \* bound on the clock
  MaxRows,      \* bound on refresh tokens
  MaxChanges,   \* bound on changes of the users' credentials
  Given         \* the roles that are given to users

ASSUME AccountsAssumption ==
  /\ Nobody \notin Users
  /\ FirstAdmins \subseteq Users
  /\ {Timeout, MaxNow, MaxRows, MaxChanges} \subseteq Nat
  /\ Given \subseteq {"superadmin", "admin", "bruger", "viewer"}

VARIABLES
  users,   \* the rows of the table user
  rows,    \* the rows of the table refresh_tokens, in the order of their ids
  reqs,    \* what the requests in progress have read
  mail,    \* the reset link that is being sent, with what to restore if it fails
  changes, \* how often the credentials of each user were changed
  now

accvars == <<users, rows, reqs, mail, changes, now>>

Roles == {"superadmin", "admin", "bruger", "viewer"}
Absent == [role |-> "none", active |-> FALSE, must |-> FALSE, link |-> FALSE]
NoReq == [kind |-> "none", row |-> 0, actor |-> Nobody, target |-> Nobody, at |-> 0]
NoMail == [to |-> Nobody, unlock |-> FALSE, link |-> FALSE]

AccInit ==
  /\ users = [u \in Users |->
       IF u \in FirstAdmins THEN [Absent EXCEPT !.role = "superadmin", !.active = TRUE] ELSE Absent]
  /\ rows = <<>>
  /\ reqs = [q \in Reqs |-> NoReq]
  /\ mail = NoMail
  /\ changes = [u \in Users |-> 0]
  /\ now = 0

-----------------------------------------------------------------------------
\* The user in whose name a row acts.
Effective(row) == IF row.as = Nobody THEN row.user ELSE row.as

\* _assert_impersonation_allowed; organizations are not told apart.
Allowed(a, t) ==
  /\ users[a].active /\ users[t].active
  /\ ~users[a].must /\ ~users[t].must
  /\ a # t
  /\ \/ users[a].role = "superadmin"
     \/ users[a].role = "admin" /\ users[t].role \in {"admin", "bruger"}

\* _create_refresh_token.  since, born and late are for the properties: the
\* changes and the time at the login, and whether a change came between the
\* read and the commit of a renewal.
NewRow(u, t, sid, expires, since, born, late) ==
  [user |-> u, as |-> t, sid |-> sid, live |-> TRUE, expires |-> expires,
   since |-> since, born |-> born, late |-> late]

\* _revoke_all_user_refresh_tokens
Revoked(rs, u) ==
  [i \in DOMAIN rs |-> IF rs[i].user = u THEN [rs[i] EXCEPT !.live = FALSE] ELSE rs[i]]

Unexpired(row) == row.expires > now

(***************************************************************************)
(* _require_active_refresh_row and _resolve_user_from_payload.  The version *)
(* in the access token is left out: whoever holds a live row can have a    *)
(* token with the version of now.                                          *)
(***************************************************************************)
Resolves(i) ==
  LET row == rows[i] IN
  /\ row.live /\ Unexpired(row)
  /\ users[row.user].active
  /\ row.as # Nobody => Allowed(row.user, row.as)

\* The users in whose name a request can be made now, and their own contexts.
InName(u) == \E i \in DOMAIN rows : Resolves(i) /\ Effective(rows[i]) = u
Self(i, u) == Resolves(i) /\ rows[i].user = u /\ rows[i].as = Nobody

IsAdmin(u) == users[u].role \in {"superadmin", "admin"}

\* _require_can_manage_target
CanManage(a, t) ==
  /\ InName(a) /\ IsAdmin(a)
  /\ users[t].role # "none"
  /\ users[a].role = "superadmin" \/ users[t].role \in {"admin", "bruger"}

-----------------------------------------------------------------------------
(***************************************************************************)
(* Logging in, renewing and ending sessions.                               *)
(***************************************************************************)
Login(u) ==
  /\ users[u].active
  /\ Len(rows) < MaxRows
  /\ rows' = Append(rows, NewRow(u, Nobody, Len(rows) + 1, now + Timeout, changes[u], now, FALSE))
  /\ UNCHANGED <<users, reqs, mail, changes, now>>

\* refresh_access_token, for a token that was used or revoked before.
RefreshReused(i) ==
  /\ ~rows[i].live
  /\ rows' = Revoked(rows, rows[i].user)
  /\ UNCHANGED <<users, reqs, mail, changes, now>>

Begin(q, kind, i, t) ==
  /\ reqs[q] = NoReq
  /\ reqs' = [reqs EXCEPT ![q] =
                [kind |-> kind, row |-> i, actor |-> rows[i].user, target |-> t,
                 at |-> changes[rows[i].user]]]
  /\ UNCHANGED <<users, rows, mail, changes, now>>

RefreshRead(q, i) ==
  /\ rows[i].live /\ Unexpired(rows[i])
  /\ users[rows[i].user].active
  /\ rows[i].as # Nobody => Allowed(rows[i].user, rows[i].as)
  /\ Begin(q, "refresh", i, rows[i].as)

\* The session starts anew.
Mut_Rotated(q, sid) ==
  LET row == rows[reqs[q].row] IN
  Append([rows EXCEPT ![reqs[q].row].live = FALSE],
    NewRow(row.user, reqs[q].target, sid, now + Timeout,
           row.since, row.born, row.late \/ reqs[q].at # changes[row.user]))

\* The row that was read ends and another one takes its place, whatever has
\* become of it since; the absolute end of the session stays.
Rotated(q, sid) ==
  LET row == rows[reqs[q].row] IN
  Append([rows EXCEPT ![reqs[q].row].live = FALSE],
    NewRow(row.user, reqs[q].target, sid, row.expires,
           row.since, row.born, row.late \/ reqs[q].at # changes[row.user]))

RotationCommit(q, kind, sid) ==
  /\ reqs[q].kind = kind
  /\ Len(rows) < MaxRows
  /\ users[reqs[q].actor].role # "none"
  /\ rows' = Rotated(q, sid)
  /\ reqs' = [reqs EXCEPT ![q] = NoReq]
  /\ UNCHANGED <<users, mail, changes, now>>

RefreshCommit(q) == RotationCommit(q, "refresh", rows[reqs[q].row].sid)

Logout(i) ==
  /\ rows[i].live
  /\ rows' = [rows EXCEPT ![i].live = FALSE]
  /\ UNCHANGED <<users, reqs, mail, changes, now>>

\* revoke_active_session and revoke_other_sessions, from the session of row i.
RevokeSessions(i, sids) ==
  /\ \E u \in Users : Self(i, u)
  /\ rows[i].sid \notin sids
  /\ rows' = [j \in DOMAIN rows |->
       IF rows[j].user = rows[i].user /\ rows[j].sid \in sids
         THEN [rows[j] EXCEPT !.live = FALSE] ELSE rows[j]]
  /\ UNCHANGED <<users, reqs, mail, changes, now>>

RevokeOthers(i) == RevokeSessions(i, (1..Len(rows)) \ {rows[i].sid})

-----------------------------------------------------------------------------
(***************************************************************************)
(* Working as another user.                                                *)
(***************************************************************************)
StartRead(q, i, t) ==
  /\ Self(i, rows[i].user)
  /\ Allowed(rows[i].user, t)
  /\ Begin(q, "start", i, t)

StopRead(q, i) ==
  /\ Resolves(i)
  /\ rows[i].as # Nobody
  /\ Begin(q, "stop", i, Nobody)

SwitchCommit(q) ==
  \/ RotationCommit(q, "start", Len(rows) + 1)
  \/ RotationCommit(q, "stop", Len(rows) + 1)

\* A check before the commit refuses: the row was revoked or renewed.
SwitchRefused(q) ==
  /\ reqs[q].kind \in {"start", "stop"}
  /\ ~rows[reqs[q].row].live
  /\ reqs' = [reqs EXCEPT ![q] = NoReq]
  /\ UNCHANGED <<users, rows, mail, changes, now>>

-----------------------------------------------------------------------------
(***************************************************************************)
(* The administration of users.                                            *)
(***************************************************************************)
Countable == FoldFunction(LAMBDA a, b : a + b, 0, changes) < MaxChanges

\* New credentials or a new standing of u: f is what the handler writes.
Changed(u, f) ==
  /\ Countable
  /\ users' = [users EXCEPT ![u] = f]
  /\ rows' = Revoked(rows, u)
  /\ changes' = [changes EXCEPT ![u] = @ + 1]
  /\ UNCHANGED <<reqs, mail, now>>

\* create_user; the account is activated by a reset link.
CreateUser(a, u, role) ==
  /\ InName(a) /\ IsAdmin(a)
  /\ users[u].role = "none" /\ changes[u] = 0
  /\ role \in {"admin", "bruger"} \/ users[a].role = "superadmin"
  /\ mail = NoMail
  /\ users' = [users EXCEPT ![u] =
                 [Absent EXCEPT !.role = role, !.active = TRUE, !.must = TRUE, !.link = TRUE]]
  /\ mail' = [to |-> u, unlock |-> FALSE, link |-> FALSE]
  /\ UNCHANGED <<rows, reqs, changes, now>>

\* update_user, by the user: a new password.
ChangePassword(u) ==
  /\ InName(u)
  /\ Changed(u, [users[u] EXCEPT !.must = FALSE, !.link = FALSE])

Superadmins == {u \in Users : users[u].role = "superadmin" /\ users[u].active}

\* The guard of the last superadministrator.
NotTheLast(u) == users[u].role = "superadmin" /\ users[u].active => Cardinality(Superadmins) > 1

\* update_user, by an administrator.
ChangeRole(a, u, role) ==
  /\ a # u
  /\ CanManage(a, u)
  /\ role \in {"admin", "bruger"} \/ users[a].role = "superadmin"
  /\ role # "superadmin" => NotTheLast(u)
  /\ Changed(u, [users[u] EXCEPT !.role = role])

SetActive(a, u, on) ==
  /\ a # u
  /\ CanManage(a, u)
  /\ users[u].active # on
  /\ ~on => NotTheLast(u)
  /\ Changed(u, IF on THEN [users[u] EXCEPT !.active = TRUE]
                ELSE [users[u] EXCEPT !.active = FALSE, !.must = TRUE, !.link = FALSE])

\* The sessions stay.
Mut_TemporaryPassword(a, u) ==
  /\ a # u
  /\ CanManage(a, u)
  /\ users[u].active
  /\ Countable
  /\ users' = [users EXCEPT ![u] = [users[u] EXCEPT !.must = TRUE, !.link = FALSE]]
  /\ changes' = [changes EXCEPT ![u] = @ + 1]
  /\ UNCHANGED <<rows, reqs, mail, now>>

TemporaryPassword(a, u) ==
  /\ a # u
  /\ CanManage(a, u)
  /\ users[u].active
  /\ Changed(u, [users[u] EXCEPT !.must = TRUE, !.link = FALSE])

\* delete_user, which runs in a thread: the count and the commit are apart.
DeactivateRead(q, i, u) ==
  /\ Resolves(i) /\ rows[i].as = Nobody
  /\ rows[i].user # u
  /\ CanManage(rows[i].user, u)
  /\ users[u].active
  /\ NotTheLast(u)
  /\ Begin(q, "deactivate", i, u)

DeactivateCommit(q) ==
  LET u == reqs[q].target IN
  /\ reqs[q].kind = "deactivate"
  /\ users[u].role # "none"
  /\ Countable
  /\ users' = [users EXCEPT ![u] =
                 [users[u] EXCEPT !.active = FALSE, !.must = TRUE, !.link = FALSE]]
  /\ rows' = Revoked(rows, u)
  /\ changes' = [changes EXCEPT ![u] = @ + 1]
  /\ reqs' = [reqs EXCEPT ![q] = NoReq]
  /\ UNCHANGED <<mail, now>>

\* permanently_delete_user
DeleteUser(a, u) ==
  /\ a # u
  /\ InName(a) /\ users[a].role = "superadmin"
  /\ users[u].role \in Roles \ {"superadmin"}
  /\ ~users[u].active
  /\ Changed(u, Absent)

(***************************************************************************)
(* Reset links.  An administrator's link locks the account first.  When    *)
(* the mail cannot be sent, what the handler changed is written back as it *)
(* was before, whatever has changed since.                                 *)
(***************************************************************************)
SendLink(u, lockout) ==
  /\ users[u].active
  /\ mail = NoMail
  /\ mail' = [to |-> u, unlock |-> lockout /\ ~users[u].must, link |-> users[u].link]
  /\ IF lockout
       THEN /\ Countable
            /\ users' = [users EXCEPT ![u] =
                           [users[u] EXCEPT !.must = TRUE, !.link = TRUE]]
            /\ rows' = Revoked(rows, u)
            /\ changes' = [changes EXCEPT ![u] = @ + 1]
       ELSE users' = [users EXCEPT ![u].link = TRUE] /\ UNCHANGED <<rows, changes>>
  /\ UNCHANGED <<reqs, now>>

AdminLink(a, u) == a # u /\ CanManage(a, u) /\ SendLink(u, TRUE)
ForgotPassword(u) == SendLink(u, FALSE)

MailSent == mail # NoMail /\ mail' = NoMail /\ UNCHANGED <<users, rows, reqs, changes, now>>

MailFails ==
  /\ mail # NoMail
  /\ users[mail.to].role # "none"
  /\ users' = [users EXCEPT
       ![mail.to] = [@ EXCEPT !.must = @ /\ ~mail.unlock, !.link = mail.link]]
  /\ mail' = NoMail
  /\ UNCHANGED <<rows, reqs, changes, now>>

\* reset_password_with_token
ResetPassword(u) ==
  /\ users[u].link /\ users[u].active
  /\ Changed(u, [users[u] EXCEPT !.must = FALSE, !.link = FALSE])

Tick == now < MaxNow /\ now' = now + 1 /\ UNCHANGED <<users, rows, reqs, mail, changes>>

-----------------------------------------------------------------------------
Sessions ==
  \/ \E u \in Users : Login(u)
  \/ \E i \in DOMAIN rows :
       \/ RefreshReused(i) \/ Logout(i) \/ RevokeOthers(i)
       \/ \E s \in 1..Len(rows) : RevokeSessions(i, {s})
       \/ \E q \in Reqs : RefreshRead(q, i) \/ StopRead(q, i)
       \/ \E q \in Reqs, t \in Users : StartRead(q, i, t) \/ DeactivateRead(q, i, t)
  \/ \E q \in Reqs :
       RefreshCommit(q) \/ SwitchCommit(q) \/ SwitchRefused(q) \/ DeactivateCommit(q)

Administration ==
  \/ \E a, u \in Users :
       \/ \E r \in Given : CreateUser(a, u, r) \/ ChangeRole(a, u, r)
       \/ \E on \in BOOLEAN : SetActive(a, u, on)
       \/ TemporaryPassword(a, u) \/ DeleteUser(a, u) \/ AdminLink(a, u)
  \/ \E u \in Users : ChangePassword(u) \/ ForgotPassword(u) \/ ResetPassword(u)
  \/ MailSent \/ MailFails

AccNext == Sessions \/ Administration \/ Tick

AccSpec == AccInit /\ [][AccNext]_accvars

-----------------------------------------------------------------------------
\* Every variable has its type; nobody works as another user who is himself.
AccTypeOK ==
  /\ \A u \in Users :
       /\ users[u].role \in Roles \cup {"none"}
       /\ {users[u].active, users[u].must, users[u].link} \subseteq BOOLEAN
  /\ \A i \in DOMAIN rows :
       /\ rows[i].user \in Users
       /\ rows[i].as \in (Users \ {rows[i].user}) \cup {Nobody}
       /\ rows[i].sid \in 1..i

(***************************************************************************)
(* A session ends with the credentials it was opened with: after a change  *)
(* of password, role or standing a user has live refresh tokens only from  *)
(* later logins, except for those whose renewal had read the old one when  *)
(* the change was committed.                                               *)
(***************************************************************************)
SessionsEndWithCredentials ==
  \A i \in DOMAIN rows :
    rows[i].live => rows[i].since = changes[rows[i].user] \/ rows[i].late

(***************************************************************************)
(* The absolute end of a session is fixed at the login: no renewal and no  *)
(* switch to another user and back, in any order, moves it.                *)
(***************************************************************************)
SessionHasAbsoluteEnd ==
  \A i \in DOMAIN rows : rows[i].expires <= rows[i].born + Timeout

(***************************************************************************)
(* What the guards of users.py are for: there is always an active          *)
(* superadministrator.  Each decides by the others it has read, without a  *)
(* lock, so the code does not keep it.                                     *)
(***************************************************************************)
LastSuperadminStays == Superadmins # {}
=============================================================================
