------------------------------- MODULE Accounts -------------------------------
(***************************************************************************)
(* Accounts: registration, social login, e-mail verification, passwords    *)
(* and deactivation (UserService, src/src/auth/service.py), the panel's    *)
(* changes to a user with their audit log (UsersService,                   *)
(* src/src/admin/services.py), over the tables users and admin_audit_logs. *)
(*                                                                         *)
(* A request is cut at its queries, commits and calls: between them others *)
(* run.  It works on the row it has loaded, once, and its commit writes    *)
(* the columns it has assigned a new value.  It may end after any step,    *)
(* killed or by an error of the database or of the network.                *)
(***************************************************************************)
EXTENDS Naturals

CONSTANTS
  Emails,      \* a user is known by the address, which is unique
  Names,       \* usernames, unique too
  Passwords,
  NoPassword,  \* NULL: an account opened by a social login
  First,       \* the table to begin with: administrators are made by hand
  Codes,       \* authorization codes of the identity provider
  NoCode,
  Owner,       \* the address the provider knows the owner of a code by
  Requests,    \* requests, each of them made once
  NoUser

Rows == [stored : BOOLEAN, name : Names, password : Passwords \cup {NoPassword},
         active : BOOLEAN, verified : BOOLEAN, admin : BOOLEAN]

ASSUME AccountAssumption ==
  /\ Emails # {}
  /\ NoPassword \notin Passwords
  /\ NoCode \notin Codes
  /\ NoUser \notin Emails
  /\ Owner \in [Codes -> Emails]
  /\ First \in [Emails -> Rows]
  /\ \A e, f \in Emails :
       First[e].stored /\ First[f].stored /\ First[e].name = First[f].name => e = f

VARIABLES
  users,    \* table users
  linked,   \* addresses that were sent a link; both kinds of link carry the user's id only
  spent,    \* codes the provider has exchanged
  log,      \* table admin_audit_logs
  request,  \* the requests
  asked     \* the changes requests were admitted with

vars == <<users, linked, spent, log, request, asked>>

-----------------------------------------------------------------------------
Columns == {"password", "verified", "active", "admin"}

MaxTries == 3

Steps == {"check_name", "insert", "exchange", "profile", "load", "write", "reread", "log"}
Ends == {"done", "refused", "failed", "unlogged"}

\* user: the account; actor: the administrator; sets: the column to be changed.
\* assigned is the row as the request has it in memory.
RequestStates ==
  [pc : {"idle"} \cup Steps \cup Ends, user : Emails, actor : Emails \cup {NoUser},
   code : Codes \cup {NoCode}, tries : 0 .. MaxTries, sets : Columns,
   loaded : Rows, assigned : Rows]

\* before and after hold the column's value only.
Entries == [admin : Emails, user : Emails, column : Columns \ {"password"},
            before : BOOLEAN, after : BOOLEAN]

TypeOK ==
  /\ users \in [Emails -> Rows]
  /\ linked \subseteq Emails
  /\ spent \subseteq Codes
  /\ log \subseteq Entries
  /\ request \in [Requests -> RequestStates]
  /\ asked \subseteq Emails \X Columns \X (Passwords \cup BOOLEAN)

Idle == LET e == CHOOSE e \in Emails : TRUE IN
  [pc |-> "idle", user |-> e, actor |-> NoUser, code |-> NoCode, tries |-> 0,
   sets |-> "password", loaded |-> First[e], assigned |-> First[e]]

Init ==
  /\ users = First
  /\ linked = {}
  /\ spent = {}
  /\ log = {}
  /\ request = [q \in Requests |-> Idle]
  /\ asked = {}

At(q, pc) == request[q].pc = pc
Goto(q, pc) == request' = [request EXCEPT ![q].pc = pc]

Begin(q, r) == At(q, "idle") /\ request' = [request EXCEPT ![q] = r]

InUse(row) == row.stored /\ row.active /\ row.verified
InCharge(row) == InUse(row) /\ row.admin
NameTaken(n) == \E e \in Emails : users[e].stored /\ users[e].name = n

NewRow(n, p, verified) ==
  [stored |-> TRUE, name |-> n, password |-> p, active |-> TRUE,
   verified |-> verified, admin |-> FALSE]

-----------------------------------------------------------------------------
(* Opening an account.                                                     *)

\* register_user, to the first check; the password is hashed before the INSERT.
Register(q, e, n, p) ==
  /\ ~users[e].stored
  /\ Begin(q, [Idle EXCEPT !.pc = "check_name", !.user = e,
                           !.assigned = NewRow(n, p, FALSE)])
  /\ UNCHANGED <<users, linked, spent, log, asked>>

CheckName(q) ==
  /\ At(q, "check_name")
  /\ Goto(q, IF NameTaken(request[q].assigned.name) THEN "refused" ELSE "insert")
  /\ UNCHANGED <<users, linked, spent, log, asked>>

\* Mutant: the username column is not unique
InsertByAddress(q) ==
  LET r == request[q] IN
  /\ At(q, "insert")
  /\ ~users[r.user].stored
  /\ users' = [users EXCEPT ![r.user] = r.assigned]
  /\ Goto(q, "done")
  /\ UNCHANGED <<linked, spent, log, asked>>

\* Mutant: a collision is met with another try
InsertRetried(q) ==
  LET r == request[q] IN
  /\ At(q, "insert")
  /\ IF users[r.user].stored \/ NameTaken(r.assigned.name)
     THEN Goto(q, IF r.code = NoCode THEN "check_name" ELSE "profile") /\ UNCHANGED users
     ELSE Goto(q, "done") /\ users' = [users EXCEPT ![r.user] = r.assigned]
  /\ UNCHANGED <<linked, spent, log, asked>>

\* UserRepository.create: the unique columns decide, whatever was checked.
Insert(q) ==
  LET r == request[q] IN
  /\ At(q, "insert")
  /\ IF users[r.user].stored \/ NameTaken(r.assigned.name)
     THEN Goto(q, "failed") /\ UNCHANGED users
     ELSE Goto(q, "done") /\ users' = [users EXCEPT ![r.user] = r.assigned]
  /\ UNCHANGED <<linked, spent, log, asked>>

\* Both mails carry a token of one kind, with the user's id.
Mailed(e) == linked' = linked \cup {e}

\* The background task after a registration, after request/verify and after
\* forget-password; a mail that fails is lost.
SendLink(e) ==
  /\ users[e].stored
  /\ Mailed(e)
  /\ UNCHANGED <<users, spent, log, request, asked>>

-----------------------------------------------------------------------------
(* Social login, up to the session, which is modelled in Sessions.         *)

SocialCallback(q, k) ==
  /\ Begin(q, [Idle EXCEPT !.pc = "exchange", !.user = Owner[k], !.code = k])
  /\ UNCHANGED <<users, linked, spent, log, asked>>

\* Mutant: one try more than the loop makes
LostAnswerOnceMore(q, k) ==
  /\ k = request[q].code
  /\ spent' \in {spent, spent \cup {k}}
  /\ request' = [request EXCEPT
       ![q].tries = @ + 1,
       ![q].pc = IF request[q].tries < MaxTries THEN "exchange" ELSE "refused"]

\* No answer: the request did not arrive, or the provider has dealt with it.
LostAnswer(q, k) ==
  /\ k = request[q].code
  /\ spent' \in {spent, spent \cup {k}}
  /\ request' = [request EXCEPT
       ![q].tries = @ + 1,
       ![q].pc = IF request[q].tries + 1 < MaxTries THEN "exchange" ELSE "refused"]

\* Mutant: an answer without an access token is taken for one with it
ExchangeUnchecked(q) ==
  LET k == request[q].code IN
  /\ At(q, "exchange")
  /\ \/ Goto(q, "profile") /\ spent' = spent \cup {k}
     \/ LostAnswer(q, k)
  /\ UNCHANGED <<users, linked, log, asked>>

\* google_tokens and github_tokens.  The provider exchanges a code once, so a
\* try after a lost answer may be refused.
Exchange(q) ==
  LET k == request[q].code IN
  /\ At(q, "exchange")
  /\ \/ k \in spent /\ Goto(q, "refused") /\ UNCHANGED spent
     \/ k \notin spent /\ Goto(q, "profile") /\ spent' = spent \cup {k}
     \/ LostAnswer(q, k)
  /\ UNCHANGED <<users, linked, log, asked>>

\* The profile is fetched, then the user.  GitHub gives its login as the name,
\* Google a name with four random digits; either may be taken.
Profile(q, n) ==
  /\ At(q, "profile")
  /\ IF users[request[q].user].stored THEN Goto(q, "done")
     ELSE request' = [request EXCEPT ![q].pc = "insert",
                                     ![q].assigned = NewRow(n, NoPassword, TRUE)]
  /\ UNCHANGED <<users, linked, spent, log, asked>>

-----------------------------------------------------------------------------
(* A user's own changes: the row is loaded, changed in memory, committed.  *)

Assign(row, column, value) ==
  [row EXCEPT !.password = IF column = "password" THEN value ELSE @,
              !.verified = IF column = "verified" THEN value ELSE @,
              !.active   = IF column = "active" THEN value ELSE @,
              !.admin    = IF column = "admin" THEN value ELSE @]

Change(q, e, column, value) ==
  /\ users[e].stored
  /\ Begin(q, [Idle EXCEPT !.pc = "write", !.user = e, !.sets = column,
                           !.loaded = users[e],
                           !.assigned = Assign(users[e], column, value)])
  /\ asked' = asked \cup {<<e, column, value>>}
  /\ UNCHANGED <<users, linked, spent, log>>

\* Mutant: the link's token is not checked
ValidateUserUnlinked(q, e) == ~users[e].verified /\ Change(q, e, "verified", TRUE)

\* validate_user
ValidateUser(q, e) == e \in linked /\ ~users[e].verified /\ Change(q, e, "verified", TRUE)

NewPassword(q, e, p) == e \in linked /\ Change(q, e, "password", p)

\* The old password is compared with the row authentication has loaded.
ChangePassword(q, e, old, p) ==
  /\ InUse(users[e])
  /\ users[e].password = old
  /\ Change(q, e, "password", p)

DeactivateUser(q, e) == InUse(users[e]) /\ Change(q, e, "active", FALSE)

Keep(stored, loaded, assigned) == IF assigned = loaded THEN stored ELSE assigned

\* Mutant: the whole row is written back
FlushAll(r, row) == r.assigned

\* A new hash differs from the loaded one even when the password does not.
Flush(r, row) ==
  [row EXCEPT !.password = IF r.sets = "password" THEN r.assigned.password ELSE @,
              !.verified = Keep(@, r.loaded.verified, r.assigned.verified),
              !.active   = Keep(@, r.loaded.active, r.assigned.active),
              !.admin    = Keep(@, r.loaded.admin, r.assigned.admin)]

\* UserRepository.update and AdminUserRepository.update_user: the commit
Write(q) ==
  LET r == request[q] IN
  /\ At(q, "write")
  /\ users' = [users EXCEPT ![r.user] = Flush(r, @)]
  /\ Goto(q, IF r.actor = NoUser THEN "done" ELSE "reread")
  /\ UNCHANGED <<linked, spent, log, asked>>

-----------------------------------------------------------------------------
(* The panel: update_user_status, update_user_role, verify_user.           *)

\* get_admin_user has loaded the administrator's row.
UpdateUser(q, a, e, column, value) ==
  /\ InCharge(users[a])
  /\ column = "verified" => value
  /\ Begin(q, [Idle EXCEPT !.pc = "load", !.user = e, !.actor = a, !.sets = column,
                           !.loaded = users[a],
                           !.assigned = Assign(users[a], column, value)])
  /\ asked' = asked \cup {<<e, column, value>>}
  /\ UNCHANGED <<users, linked, spent, log>>

Value(row, column) ==
  IF column = "verified" THEN row.verified
  ELSE IF column = "active" THEN row.active ELSE row.admin

\* The session holds one instance per row: administrators who change themselves
\* work on the row authentication has loaded.
Load(q) ==
  LET r == request[q]
      row == IF r.user = r.actor THEN r.loaded ELSE users[r.user]
  IN
  /\ At(q, "load")
  /\ IF users[r.user].stored
     THEN request' = [request EXCEPT
            ![q].pc = "write", ![q].loaded = row,
            ![q].assigned = Assign(row, r.sets, Value(r.assigned, r.sets))]
     ELSE Goto(q, "failed")
  /\ UNCHANGED <<users, linked, spent, log, asked>>

\* Mutant: the entry is made of what is in memory before the refresh
RereadSkipped(q) ==
  /\ At(q, "reread")
  /\ request' = [request EXCEPT ![q].pc = "log", ![q].assigned = request[q].loaded]
  /\ UNCHANGED <<users, linked, spent, log, asked>>

\* The refresh after the commit
Reread(q) ==
  /\ At(q, "reread")
  /\ request' = [request EXCEPT ![q].pc = "log", ![q].assigned = users[request[q].user]]
  /\ UNCHANGED <<users, linked, spent, log, asked>>

\* AdminAuditLogRepository.log, a commit of its own
Log(q) ==
  LET r == request[q] IN
  /\ At(q, "log")
  /\ log' = log \cup {[admin |-> r.actor, user |-> r.user, column |-> r.sets,
                       before |-> Value(r.loaded, r.sets),
                       after |-> Value(r.assigned, r.sets)]}
  /\ Goto(q, "done")
  /\ UNCHANGED <<users, linked, spent, asked>>

-----------------------------------------------------------------------------
\* The request raises, or its process is killed: what is committed stays.
Fail(q) ==
  /\ request[q].pc \in Steps
  /\ Goto(q, IF request[q].pc \in {"reread", "log"} THEN "unlogged" ELSE "failed")
  /\ UNCHANGED <<users, linked, spent, log, asked>>

UpdateAny(q, e) ==
  \E a \in Emails, c \in Columns \ {"password"}, v \in BOOLEAN : UpdateUser(q, a, e, c, v)

Start(q) ==
  \E e \in Emails :
    \/ \E p \in Passwords :
         \/ \E n \in Names : Register(q, e, n, p)
         \/ NewPassword(q, e, p)
         \/ \E old \in Passwords : ChangePassword(q, e, old, p)
    \/ ValidateUser(q, e)
    \/ DeactivateUser(q, e)
    \/ UpdateAny(q, e)

Proceed(q) ==
  \/ CheckName(q) \/ Insert(q) \/ Exchange(q) \/ \E n \in Names : Profile(q, n)
  \/ Load(q) \/ Write(q) \/ Reread(q) \/ Log(q)

Next ==
  \/ \E e \in Emails : SendLink(e)
  \/ \E q \in Requests : \/ Start(q)
                         \/ \E k \in Codes : SocialCallback(q, k)
                         \/ Proceed(q)
                         \/ Fail(q)

Spec == Init /\ [][Next]_vars

\* Every query and call is answered or times out (httpx: ten seconds), and the
\* event loop resumes every request.
FairSpec == Spec /\ \A q \in Requests : WF_vars(Proceed(q))
=============================================================================
