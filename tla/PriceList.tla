------------------------------ MODULE PriceList ------------------------------
(***************************************************************************)
(* What the plans promise a customer, whatever happens between the plans   *)
(* table and Stripe: nobody is charged a price that was not on show for    *)
(* the plan, and a plan that was withdrawn is never sold again.            *)
(***************************************************************************)
CONSTANTS Codes, Offers

VARIABLES shown, sold, withdrawn

Init == shown = {} /\ sold = {} /\ withdrawn = {}

Show(c, o) == shown' = shown \cup {<<c, o>>} /\ UNCHANGED <<sold, withdrawn>>

Sell(c, o) ==
  /\ <<c, o>> \in shown
  /\ c \notin withdrawn
  /\ sold' = sold \cup {<<c, o>>}
  /\ UNCHANGED <<shown, withdrawn>>

Withdraw(c) == withdrawn' = withdrawn \cup {c} /\ UNCHANGED <<shown, sold>>

Next == \E c \in Codes : Withdraw(c) \/ \E o \in Offers : Show(c, o) \/ Sell(c, o)

Spec == Init /\ [][Next]_<<shown, sold, withdrawn>>
=============================================================================
