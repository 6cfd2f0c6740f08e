---------------------------- MODULE PlanInvariant ----------------------------
(***************************************************************************)
(* The inductive invariants behind PlanProperties.                         *)
(***************************************************************************)
EXTENDS PlanProperties

Creating == {"product", "price", "save_ids"}
Retired == {"retire_price", "mark"}

\* A price id in a row or in a request is that of a price of the same plan.
PriceOf(c, i) == i # 0 => i <= lastPrice /\ prices[i].code = c

PricesOK ==
  /\ \A c \in Codes : PriceOf(c, plans[c].price)
  /\ \A a \in Admins : /\ PriceOf(admin[a].code, admin[a].loaded.price)
                       /\ PriceOf(admin[a].code, admin[a].assigned.price)
  /\ \A s \in Shoppers : PriceOf(shopper[s].code, shopper[s].price)

\* A plan's product is created by the request that inserted the row, before the
\* row has its id; whatever loads that id finds the product at Stripe.  So no
\* product is created for a plan that a request may retire.
RequestOK(r) ==
  /\ r.pc \in Creating =>
       plans[r.code].stored /\ ~plans[r.code].product /\ ~r.loaded.product
  /\ r.pc = "insert" => r.assigned.stored /\ ~r.assigned.product
  /\ r.pc \notin Creating => r.assigned.product = r.loaded.product
  /\ r.loaded.product => plans[r.code].product
  /\ r.pc \in Retired => r.loaded.product /\ products[r.code].state = "inactive"

CreatorsApart ==
  \A a, b \in Admins : admin[a].pc \in Creating /\ admin[b].pc \in Creating
                         /\ admin[a].code = admin[b].code => a = b

RowsOK == \A c \in Codes : plans[c].product => plans[c].stored

DeletedOK ==
  \A c \in deleted : plans[c].product /\ products[c].state = "inactive"

DInv ==
  /\ TypeOK
  /\ PricesOK
  /\ \A a \in Admins : RequestOK(admin[a])
  /\ CreatorsApart
  /\ RowsOK
  /\ DeletedOK

-----------------------------------------------------------------------------
(* With one admin request at a time on each plan: what it loaded is what   *)
(* is stored, and the price it has made is the price it will write.        *)

OneAdminPerPlan ==
  \A a, b \in Admins :
    ~At(a, "idle") /\ ~At(b, "idle") /\ admin[a].code = admin[b].code => a = b

Priced(row) == row.price # 0 => Offer(prices[row.price]) = Offer(row)

RowListed(c) ==
  /\ Priced(plans[c])
  /\ plans[c].price # 0 => plans[c].stored
  /\ plans[c].stored => <<c, Offer(plans[c])>> \in shown

UpdateOK(r) ==
  /\ r.pc = "insert" => r.assigned = r.loaded /\ r.assigned.price = 0
  /\ r.pc \notin {"idle", "insert"} => r.loaded = plans[r.code] /\ plans[r.code].stored
  /\ r.pc = "rename" /\ ~r.reprice => Priced(r.assigned)
  /\ r.pc \in {"save_ids", "save"} => Priced(r.assigned)
  /\ r.pc \in {"retire_product"} \cup Retired =>
       r.assigned = [r.loaded EXCEPT !.active = FALSE]

\* A checkout under way was shown the price it is about to be charged.
CheckoutsShown ==
  \A s \in Shoppers : shopper[s].price # 0 =>
    <<shopper[s].code, Offer(prices[shopper[s].price])>> \in shown

LInv ==
  /\ DInv
  /\ \A c \in Codes : RowListed(c)
  /\ \A a \in Admins : UpdateOK(admin[a])
  /\ CheckoutsShown

-----------------------------------------------------------------------------
(* However many admin requests overlap: a price made from values the       *)
(* request loaded or commits, and a price id written in the commit of      *)
(* those values.                                                           *)

PriceShown(c, i) == i # 0 => Advertised(c, Offer(prices[i]))

RowShown(c) ==
  /\ plans[c].stored => <<c, Offer(plans[c])>> \in shown
  /\ PriceShown(c, plans[c].price)

RequestShown(r) ==
  /\ r.pc = "insert" => r.assigned = r.loaded /\ r.assigned.price = 0
  /\ r.pc \notin {"idle", "insert"} => <<r.code, Offer(r.loaded)>> \in shown
  /\ r.assigned.price # r.loaded.price =>
       r.assigned.price # 0 /\ Offer(prices[r.assigned.price]) = Offer(r.assigned)

AInv ==
  /\ DInv
  /\ \A c \in Codes : RowShown(c)
  /\ \A a \in Admins : RequestShown(admin[a])
  /\ \A s \in Shoppers : PriceShown(shopper[s].code, shopper[s].price)
  /\ PartsShown
=============================================================================
