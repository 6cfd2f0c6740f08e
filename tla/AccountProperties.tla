-------------------------- MODULE AccountProperties --------------------------
(***************************************************************************)
(* What accounts and their audit log are expected to guarantee.            *)
(***************************************************************************)
EXTENDS Accounts

\* Requests work on stale rows, yet none undoes what another has done: an
\* account changes one column at a time, to what somebody entitled to it asked
\* for, and an address or a name is given to one account only, though two
\* requests may both have found it free.
Rules == INSTANCE AccountRules

RulesSpec == Rules!Init(First) /\ [][Rules!Next]_<<users, linked, asked>>

ImplementsAccountRules == RulesSpec

\* The audit log explains every role: one that is not the role the account began
\* with was given by an update that recorded it as a change, or that is about
\* to, or that failed between its two commits.  Updates of one user overlap, and
\* each records what it finds.
FirstRole(e) == First[e].stored /\ First[e].admin

Recorded(e) ==
  \E x \in log : /\ x.user = e /\ x.column = "admin"
                 /\ x.before # x.after /\ x.after = users[e].admin

Unrecorded(e) ==
  \E q \in Requests : /\ request[q].user = e /\ request[q].sets = "admin"
                      /\ request[q].pc \in {"reread", "log", "unlogged"}

RoleExplained ==
  \A e \in Emails :
    users[e].stored /\ users[e].admin # FirstRole(e) => Recorded(e) \/ Unrecorded(e)

\* An address counts as verified for a reason: the account began verified, a link
\* was sent to the address, the provider that knows its owner exchanged a code
\* for it, or an administrator verified it (UserService.validate_user, the social
\* logins, verify_user).  The column never becomes FALSE again, so what stale rows
\* may do to it is a question for ImplementsAccountRules only.
VerifiedByPanel(r) == /\ r.sets = "verified" /\ r.actor # NoUser
                      /\ r.pc \in {"reread", "log", "unlogged", "done"}

Vouched(e) ==
  \/ First[e].stored /\ First[e].verified
  \/ e \in linked
  \/ \E k \in spent : Owner[k] = e
  \/ \E q \in Requests : request[q].user = e /\ VerifiedByPanel(request[q])

VerifiedExplained ==
  \A e \in Emails : users[e].stored /\ users[e].verified => Vouched(e)

\* One code of the provider lets one callback in, whatever answers are lost and
\* however often the callback is called.
LetIn(q) == request[q].code # NoCode /\ request[q].pc \in {"profile", "insert", "done"}

CodeLetsInOnce ==
  \A p, q \in Requests : LetIn(p) /\ LetIn(q) /\ request[p].code = request[q].code => p = q

\* A username belongs to one account, though it is looked up in one step and
\* taken in another.
NamesUnique ==
  \A e, f \in Emails :
    users[e].stored /\ users[f].stored /\ users[e].name = users[f].name => e = f

\* Where there is no administrator to begin with, requests make none, nothing is
\* logged, and nobody makes a deactivated account active again.
NobodyInCharge ==
  log = {} /\ \A e \in Emails : users[e].stored => ~users[e].admin

DeactivatedForGood ==
  [][\A e \in Emails : users[e].stored /\ ~users[e].active => ~users'[e].active]_vars

\* Every step of a request brings it nearer to its end, also a repeated try: how
\* many steps are left to it at most.
StepsLeft(r) ==
  CASE r.pc = "idle"                                -> MaxTries + 4
    [] r.pc = "exchange"                            -> MaxTries - r.tries + 3
    [] r.pc = "load"                                -> 4
    [] r.pc = "write"                               -> 3
    [] r.pc \in {"check_name", "profile", "reread"} -> 2
    [] r.pc \in {"insert", "log"}                   -> 1
    [] OTHER                                        -> 0

RequestsAdvance ==
  [][\A q \in Requests : request'[q] # request[q] =>
       StepsLeft(request'[q]) < StepsLeft(request[q])]_vars

\* Every request ends, also when the provider never answers.
Settles == \A q \in Requests : request[q].pc \in Steps ~> request[q].pc \in Ends
=============================================================================
