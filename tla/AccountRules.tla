----------------------------- MODULE AccountRules -----------------------------
(***************************************************************************)
(* What may happen to an account, whatever requests are under way: it is   *)
(* opened once, under a name nobody else has and without rights, and then  *)
(* changes one column at a time, each time to what somebody entitled to    *)
(* the change has asked for.                                               *)
(***************************************************************************)
CONSTANTS Emails, Names, Passwords, NoPassword

VARIABLES
  users,   \* the accounts, by e-mail address
  linked,  \* who was sent a link to the address
  asked    \* the changes asked for

InUse(row) == row.stored /\ row.active /\ row.verified
InCharge(row) == InUse(row) /\ row.admin
Ruled == \E a \in Emails : InCharge(users[a])

Init(first) == users = first /\ linked = {} /\ asked = {}

Open(e, n) ==
  /\ ~users[e].stored
  /\ \A f \in Emails : users[f].stored => users[f].name # n
  /\ \E p \in Passwords \cup {NoPassword} :
       users' = [users EXCEPT ![e] =
         [stored |-> TRUE, name |-> n, password |-> p, active |-> TRUE,
          verified |-> (p = NoPassword), admin |-> FALSE]]
  /\ UNCHANGED <<linked, asked>>

Link(e) ==
  /\ users[e].stored
  /\ linked' = linked \cup {e}
  /\ UNCHANGED <<users, asked>>

Ask(e, column, value) ==
  /\ \/ /\ column = "password" /\ value \in Passwords
        /\ e \in linked \/ InUse(users[e])
     \/ /\ column = "verified" /\ value = TRUE
        /\ e \in linked \/ Ruled
     \/ /\ column = "active" /\ value \in BOOLEAN
        /\ (~value /\ InUse(users[e])) \/ Ruled
     \/ /\ column = "admin" /\ value \in BOOLEAN
        /\ Ruled
  /\ asked' = asked \cup {<<e, column, value>>}
  /\ UNCHANGED <<users, linked>>

Change(e, column, value) ==
  /\ users[e].stored
  /\ <<e, column, value>> \in asked
  /\ users' = [users EXCEPT ![e] =
       CASE column = "password" -> [@ EXCEPT !.password = value]
         [] column = "verified" -> [@ EXCEPT !.verified = value]
         [] column = "active"   -> [@ EXCEPT !.active = value]
         [] column = "admin"    -> [@ EXCEPT !.admin = value]]
  /\ UNCHANGED <<linked, asked>>

Columns == {"password", "verified", "active", "admin"}

Next ==
  \E e \in Emails :
    \/ \E n \in Names : Open(e, n)
    \/ Link(e)
    \/ \E c \in Columns, v \in Passwords \cup BOOLEAN : Ask(e, c, v) \/ Change(e, c, v)
=============================================================================
