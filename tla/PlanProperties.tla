--------------------------- MODULE PlanProperties ---------------------------
(***************************************************************************)
(* What the plans table and Stripe guarantee together.                     *)
(***************************************************************************)
EXTENDS Plans

\* The price Stripe charges for a plan is the price its row shows, also between
\* the steps of an update and after one that failed half-way.  Admin requests
\* may fail anywhere but must not overlap on one plan.
PriceAsListed ==
  \A c \in Codes : plans[c].price # 0 => Offer(prices[plans[c].price]) = Offer(plans[c])

\* Once a deletion was answered 204 no checkout session is opened for the plan:
\* not by a checkout that loaded the row before, not at an older price, which
\* stays active at Stripe, and not after a concurrent or later update has given
\* the row a new price or made it active again.
SalesOf(c) == {o \in Offers : <<c, o>> \in sold}

NoSaleAfterDelete == [][\A c \in deleted : SalesOf(c)' = SalesOf(c)]_vars

\* A customer is charged a price that was on show for the plan, though it may
\* have changed between the moment the plan was loaded and the session.
ShownPrices == INSTANCE PriceList WITH withdrawn <- deleted

ImplementsPriceList == ShownPrices!Spec

\* With admin requests on one plan at once this no longer holds: an update that
\* sets the currency alone makes its price of the amount it loaded, and commits
\* it to a row another update has given a new amount.  What remains true then:
\* the amount a customer is charged was on show for the plan, and so was the
\* currency, each at its time.
Advertised(c, o) ==
  /\ \E m \in Offers : <<c, m>> \in shown /\ m.amount = o.amount
  /\ \E m \in Offers : <<c, m>> \in shown /\ m.currency = o.currency

PartsShown == \A c \in Codes, o \in Offers : <<c, o>> \in sold => Advertised(c, o)

-----------------------------------------------------------------------------
(* A claim of the documentation that the code does not keep.               *)

\* features.md, "Ensure customer": "Create Stripe customer when missing", "Saves
\* `stripe_customer_id` on user".  A saved id is found by the next checkout.
CustomerEnsured == \A u \in Users : customers[u] <= 1
=============================================================================
