--------------------------- MODULE AccountInvariant ---------------------------
(***************************************************************************)
(* The inductive invariant behind AccountProperties.                       *)
(***************************************************************************)
EXTENDS AccountProperties

\* What a request will write is one column of the row it loaded, with a value
\* that was asked for.
Ready(r) ==
  \E v \in Passwords \cup BOOLEAN :
    <<r.user, r.sets, v>> \in asked /\ r.assigned = Assign(r.loaded, r.sets, v)

RequestOK(r) ==
  /\ r.pc = "exchange" => r.tries < MaxTries
  /\ r.pc \in {"check_name", "insert"} =>
       \E n \in Names, p \in Passwords \cup {NoPassword} :
         r.assigned = NewRow(n, p, p = NoPassword)
  /\ r.pc \in {"exchange", "profile"} => r.code # NoCode
  /\ r.pc \in {"check_name", "load", "write", "reread", "log"} => r.code = NoCode
  /\ r.pc = "load" =>
       /\ r.actor # NoUser
       /\ r.sets # "password"
       /\ <<r.user, r.sets, Value(r.assigned, r.sets)>> \in asked
  /\ r.pc = "write" =>
       /\ users[r.user].stored
       /\ Ready(r)
       /\ IF r.actor = NoUser THEN r.sets # "admin" ELSE r.sets # "password"
  /\ r.pc \in {"reread", "log"} => r.actor # NoUser /\ r.sets # "password"

\* Whoever was let in with a code has had it exchanged.
CodesOK ==
  /\ \A q \in Requests : LetIn(q) => request[q].code \in spent
  /\ CodeLetsInOnce

Founded == \A e \in Emails : First[e].stored => users[e].stored

\* The update that gave the role its value had loaded the other one.
PendingBy(r, e) ==
  /\ r.user = e /\ r.sets = "admin"
  /\ \/ r.pc = "reread" /\ r.loaded.admin # users[e].admin
     \/ r.pc = "log" /\ r.loaded.admin # r.assigned.admin /\ r.assigned.admin = users[e].admin
     \/ r.pc = "unlogged"

RolesOK ==
  \A e \in Emails :
    users[e].stored /\ users[e].admin # FirstRole(e) =>
      Recorded(e) \/ \E q \in Requests : PendingBy(request[q], e)

AInv ==
  /\ TypeOK
  /\ \A q \in Requests : RequestOK(request[q])
  /\ CodesOK
  /\ Founded
  /\ RolesOK

-----------------------------------------------------------------------------
(* Who answers for an address before it is written down as verified.       *)

VouchedRequest(r) ==
  /\ r.code # NoCode => r.user = Owner[r.code]
  /\ r.pc = "insert" /\ r.assigned.verified => r.code # NoCode
  /\ r.pc = "check_name" => ~r.assigned.verified
  /\ r.pc = "write" /\ r.actor = NoUser /\ r.sets = "verified" => r.user \in linked

VInv ==
  /\ AInv
  /\ \A q \in Requests : VouchedRequest(request[q])
  /\ VerifiedExplained

-----------------------------------------------------------------------------
(* Without an administrator nobody asks for what administrators decide.    *)

NoRights ==
  /\ NobodyInCharge
  /\ \A e \in Emails :
       /\ <<e, "active", TRUE>> \notin asked
       /\ \A v \in Passwords \cup BOOLEAN : <<e, "admin", v>> \notin asked
  /\ \A q \in Requests : request[q].actor = NoUser
=============================================================================
