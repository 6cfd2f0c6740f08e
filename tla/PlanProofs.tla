----------------------------- MODULE PlanProofs -----------------------------
(***************************************************************************)
(* Proofs about plans, for any codes, requests and bounds.                 *)
(***************************************************************************)
EXTENDS PlanInvariant, TLAPS

USE PlanAssumption

-----------------------------------------------------------------------------
(* Initial states and types.                                               *)

LEMMA NoRowType == NoRow \in PlanRows /\ ~NoRow.stored /\ ~NoRow.product /\ NoRow.price = 0
<1>1. PICK n \in Names, m \in Amounts, k \in Currencies, p \in Periods : TRUE
  OBVIOUS
<1>2. [stored |-> FALSE, name |-> n, amount |-> m, currency |-> k, period |-> p,
       active |-> FALSE, product |-> FALSE, price |-> 0] \in PlanRows
  BY <1>1 DEF PlanRows
<1>3. \E r \in PlanRows : ~r.stored /\ ~r.product /\ r.price = 0
  BY <1>2
<1> QED
  BY <1>3 DEF NoRow

LEMMA IdleTypes == IdleAdmin \in AdminRequests /\ IdleShopper \in Checkouts
<1>1. (CHOOSE c \in Codes : TRUE) \in Codes /\ (CHOOSE u \in Users : TRUE) \in Users
  OBVIOUS
<1> QED
  BY <1>1, NoRowType DEF IdleAdmin, IdleShopper, AdminRequests, AdminSteps, Checkouts,
                         ShopperSteps

LEMMA FlushType ==
  ASSUME NEW r \in PlanRows, NEW l \in PlanRows, NEW n \in PlanRows
  PROVE  Flush(r, l, n) \in PlanRows
BY DEF Flush, Keep, PlanRows

LEMMA OfferType == \A r \in PlanRows : Offer(r) \in Offers
BY DEF PlanRows, Offer, Offers

LEMMA InitInv == Init => DInv
<1> SUFFICES ASSUME Init PROVE DInv
  OBVIOUS
<1> USE DEF Init
<1>1. NoProduct \in Products
  <2>1. (CHOOSE n \in Names : TRUE) \in Names
    OBVIOUS
  <2> QED
    BY <2>1 DEF NoProduct, Products
<1>2. NoPrice \in StripePrices
  <2>1. /\ (CHOOSE c \in Codes : TRUE) \in Codes
        /\ (CHOOSE m \in Amounts : TRUE) \in Amounts
        /\ (CHOOSE k \in Currencies : TRUE) \in Currencies
    OBVIOUS
  <2> QED
    BY <2>1 DEF NoPrice, StripePrices, Intervals
<1>3. TypeOK
  BY <1>1, <1>2, NoRowType, IdleTypes DEF TypeOK
<1>4. PricesOK
  BY NoRowType DEF PricesOK, PriceOf, IdleAdmin, IdleShopper
<1>5. \A a \in Admins : RequestOK(admin[a])
  BY NoRowType DEF RequestOK, IdleAdmin, Creating, Retired
<1>6. CreatorsApart /\ RowsOK /\ DeletedOK
  BY NoRowType DEF CreatorsApart, IdleAdmin, Creating, RowsOK, DeletedOK
<1> QED
  BY <1>3, <1>4, <1>5, <1>6 DEF DInv

-----------------------------------------------------------------------------
(* One admin request moves on.                                             *)

\* What a step of one admin request has to keep for the others.
StripeGrows ==
  /\ products' \in [Codes -> Products]
  /\ prices' \in [Prices -> StripePrices]
  /\ lastPrice' \in 0 .. MaxPrices
  /\ lastPrice <= lastPrice'
  /\ \A i \in 1 .. lastPrice : prices'[i].code = prices[i].code
  /\ \A c \in Codes : plans[c].product /\ products[c].state = "inactive" =>
                      products'[c].state = "inactive"

RowsGrow ==
  /\ plans' \in [Codes -> PlanRows]
  /\ shown' \subseteq Codes \X Offers
  /\ \A c \in Codes : /\ plans[c].stored => plans'[c].stored
                      /\ plans[c].product => plans'[c].product
                      /\ plans'[c].product => plans'[c].stored
                      /\ PriceOf(c, plans[c].price)'

LEMMA StripeStill == ASSUME TypeOK, UNCHANGED stripeVars PROVE StripeGrows
BY DEF TypeOK, stripeVars, StripeGrows

LEMMA RowsStill ==
  ASSUME DInv, UNCHANGED <<plans, shown, lastPrice, prices>> PROVE RowsGrow
BY DEF DInv, TypeOK, RowsGrow, RowsOK, PricesOK, PriceOf

LEMMA Moved ==
  ASSUME DInv, NEW a \in Admins, NEW g \in AdminRequests,
         admin' = [admin EXCEPT ![a] = g],
         RowsGrow, StripeGrows,
         RequestOK(g)',
         PriceOf(g.code, g.loaded.price)', PriceOf(g.code, g.assigned.price)',
         \A b \in Admins \ {a} : admin[b].pc \in Creating =>
           /\ ~plans'[admin[b].code].product
           /\ g.pc \in Creating => g.code # admin[b].code,
         UNCHANGED <<customers, shopper, sold>>,
         deleted' \subseteq Codes,
         \A c \in deleted' \ deleted : plans'[c].product /\ products'[c].state = "inactive"
  PROVE  DInv'
<1>t. TypeOK /\ PricesOK
  BY DEF DInv
<1>b. \A b \in Admins : admin'[b] = IF b = a THEN g ELSE admin[b]
  BY <1>t DEF TypeOK
<1>1. TypeOK'
  BY <1>t DEF TypeOK, RowsGrow, StripeGrows
<1>2. \A c \in Codes, i \in 0 .. MaxPrices : PriceOf(c, i) => PriceOf(c, i)'
  BY <1>t DEF PriceOf, TypeOK, StripeGrows
<1>3. PricesOK'
  <2>1. \A b \in Admins : /\ PriceOf(admin[b].code, admin[b].loaded.price)'
                          /\ PriceOf(admin[b].code, admin[b].assigned.price)'
    <3> TAKE b \in Admins
    <3>1. CASE b = a
      BY <3>1, <1>b DEF PriceOf
    <3>2. CASE b # a
      <4>1. admin[b] \in AdminRequests /\ admin'[b] = admin[b]
        BY <3>2, <1>b, <1>t DEF TypeOK
      <4>2. /\ PriceOf(admin[b].code, admin[b].loaded.price)
            /\ PriceOf(admin[b].code, admin[b].assigned.price)
        BY <1>t DEF PricesOK
      <4> QED
        BY <4>1, <4>2, <1>2, <1>t DEF PriceOf, AdminRequests, PlanRows, TypeOK
    <3> QED
      BY <3>1, <3>2
  <2>2. \A s \in Shoppers : PriceOf(shopper[s].code, shopper[s].price)'
    <3> TAKE s \in Shoppers
    <3>1. shopper[s] \in Checkouts /\ shopper'[s] = shopper[s]
      BY <1>t DEF TypeOK
    <3>2. PriceOf(shopper[s].code, shopper[s].price)
      BY <1>t DEF PricesOK
    <3> QED
      BY <3>1, <3>2, <1>2 DEF Checkouts, PriceOf
  <2>3. \A c \in Codes : PriceOf(c, plans[c].price)'
    BY DEF RowsGrow
  <2> QED
    BY <2>1, <2>2, <2>3 DEF PricesOK, PriceOf
<1>4. \A b \in Admins : RequestOK(admin[b])'
  <2> TAKE b \in Admins
  <2>1. CASE b = a
    BY <2>1, <1>b DEF RequestOK
  <2>2. CASE b # a
    <3>1. admin[b] \in AdminRequests /\ admin'[b] = admin[b] /\ RequestOK(admin[b])
      BY <2>2, <1>b, <1>t DEF TypeOK, DInv
    <3> QED
      <4>1. admin[b].code \in Codes
        BY <3>1 DEF AdminRequests
      <4>2. /\ plans[admin[b].code].stored => plans'[admin[b].code].stored
            /\ plans[admin[b].code].product => plans'[admin[b].code].product
            /\ plans[admin[b].code].product /\ products[admin[b].code].state = "inactive" =>
                 products'[admin[b].code].state = "inactive"
        BY <4>1 DEF RowsGrow, StripeGrows
      <4> QED
        BY <3>1, <4>2, <2>2 DEF RequestOK
  <2> QED
    BY <2>1, <2>2
<1>5. CreatorsApart'
  <2> SUFFICES ASSUME NEW x \in Admins, NEW y \in Admins, admin'[x].pc \in Creating,
                      admin'[y].pc \in Creating, admin'[x].code = admin'[y].code, x # y
               PROVE  FALSE
    BY DEF CreatorsApart
  <2>1. CASE x = a \/ y = a
    BY <2>1, <1>b
  <2>2. CASE x # a /\ y # a
    BY <2>2, <1>b DEF DInv, CreatorsApart
  <2> QED
    BY <2>1, <2>2
<1>6. RowsOK' /\ DeletedOK'
  <2>1. \A c \in Codes :
          /\ plans[c].product => plans'[c].product
          /\ plans'[c].product => plans'[c].stored
          /\ plans[c].product /\ products[c].state = "inactive" => products'[c].state = "inactive"
    BY DEF RowsGrow, StripeGrows
  <2> QED
    BY <1>t, <2>1 DEF RowsOK, DeletedOK, DInv, TypeOK
<1> QED
  BY <1>1, <1>3, <1>4, <1>5, <1>6 DEF DInv

\* A step that touches neither the rows nor Stripe.
LEMMA MovedAlone ==
  ASSUME DInv, NEW a \in Admins, NEW g \in AdminRequests,
         admin' = [admin EXCEPT ![a] = g],
         UNCHANGED <<plans, stripeVars, customers, shopper, historyVars>>,
         RequestOK(g),
         PriceOf(g.code, g.loaded.price), PriceOf(g.code, g.assigned.price),
         g.pc \in Creating => admin[a].pc \in Creating /\ admin[a].code = g.code
  PROVE  DInv'
<1>1. TypeOK /\ CreatorsApart /\ \A b \in Admins : RequestOK(admin[b])
  BY DEF DInv
<1>2. StripeGrows
  BY <1>1, StripeStill
<1>3. RowsGrow
  BY RowsStill DEF stripeVars, historyVars
<1>4. RequestOK(g)' /\ PriceOf(g.code, g.loaded.price)' /\ PriceOf(g.code, g.assigned.price)'
  BY DEF RequestOK, PriceOf, stripeVars
<1>5. \A b \in Admins \ {a} : admin[b].pc \in Creating =>
        /\ ~plans'[admin[b].code].product
        /\ g.pc \in Creating => g.code # admin[b].code
  BY <1>1 DEF RequestOK, CreatorsApart
<1>6. UNCHANGED <<customers, shopper, sold>> /\ deleted' = deleted /\ deleted' \subseteq Codes
  BY <1>1 DEF TypeOK, historyVars
<1> QED
  BY <1>2, <1>3, <1>4, <1>5, <1>6, Moved

\* What the handlers below start from.
LEMMA Request ==
  ASSUME DInv, NEW a \in Admins
  PROVE  /\ TypeOK /\ PricesOK /\ RowsOK /\ CreatorsApart /\ DeletedOK
         /\ admin[a] \in AdminRequests /\ RequestOK(admin[a])
         /\ admin[a].code \in Codes /\ admin[a].loaded \in PlanRows
         /\ admin[a].assigned \in PlanRows /\ admin[a].pc \in AdminSteps
         /\ PriceOf(admin[a].code, admin[a].loaded.price)
         /\ PriceOf(admin[a].code, admin[a].assigned.price)
         /\ \A b \in Admins : RequestOK(admin[b]) /\ admin[b].code \in Codes
         /\ \A c \in Codes : plans[c] \in PlanRows /\ PriceOf(c, plans[c].price)
BY DEF DInv, TypeOK, AdminRequests, PricesOK

LEMMA Going ==
  ASSUME DInv, NEW a \in Admins, NEW pc \in AdminSteps, Goto(a, pc),
         UNCHANGED <<plans, stripeVars, customers, shopper, historyVars>>,
         RequestOK([admin[a] EXCEPT !.pc = pc]), pc \notin Creating
  PROVE  DInv'
<1>1. admin' = [admin EXCEPT ![a] = [admin[a] EXCEPT !.pc = pc]]
  BY DEF Goto
<1>2. [admin[a] EXCEPT !.pc = pc] \in AdminRequests
  BY Request DEF AdminRequests
<1>3. /\ [admin[a] EXCEPT !.pc = pc].code = admin[a].code
      /\ [admin[a] EXCEPT !.pc = pc].loaded = admin[a].loaded
      /\ [admin[a] EXCEPT !.pc = pc].assigned = admin[a].assigned
      /\ [admin[a] EXCEPT !.pc = pc].pc = pc
  BY Request DEF AdminRequests
<1> QED
  BY <1>1, <1>2, <1>3, Request, MovedAlone

-----------------------------------------------------------------------------
(* Steps of a create request.                                              *)

LEMMA CreatePlanInv ==
  ASSUME DInv, NEW a \in Admins, NEW c \in Codes, NEW row \in Fresh, CreatePlan(a, c, row)
  PROVE  DInv'
<1> DEFINE g == [IdleAdmin EXCEPT !.pc = "insert", !.code = c,
                                  !.loaded = row, !.assigned = row]
<1>1. row \in PlanRows /\ row.stored /\ ~row.product /\ row.price = 0
  BY DEF Fresh
<1>2. /\ g \in AdminRequests /\ g.pc = "insert" /\ g.code = c
      /\ g.loaded = row /\ g.assigned = row
  BY <1>1, IdleTypes DEF AdminRequests, AdminSteps
<1>3. admin' = [admin EXCEPT ![a] = g]
  BY DEF CreatePlan, Begin
<1>4. RequestOK(g)
  BY <1>1, <1>2 DEF RequestOK, Creating, Retired
<1>5. PriceOf(g.code, g.loaded.price) /\ PriceOf(g.code, g.assigned.price)
  BY <1>1, <1>2 DEF PriceOf
<1>6. g.pc \notin Creating
  BY <1>2 DEF Creating
<1>7. UNCHANGED <<plans, stripeVars, customers, shopper, historyVars>>
  BY DEF CreatePlan
<1> HIDE DEF g
<1> QED
  BY <1>2, <1>3, <1>4, <1>5, <1>6, <1>7, MovedAlone

LEMMA InsertPlanInv ==
  ASSUME DInv, NEW a \in Admins, InsertPlan(a)
  PROVE  DInv'
<1>r. PICK r : r = admin[a]
  OBVIOUS
<1>g. PICK g : g = [r EXCEPT !.pc = "product"]
  OBVIOUS
<1>1. /\ r.pc = "insert" /\ ~plans[r.code].stored
      /\ plans' = [plans EXCEPT ![r.code] = r.assigned]
      /\ shown' = shown \cup {<<r.code, Offer(r.assigned)>>}
      /\ admin' = [admin EXCEPT ![a] = g]
      /\ UNCHANGED <<products, prices, lastPrice, customers, shopper, sold, deleted>>
  BY <1>r, <1>g DEF InsertPlan, At, Commit, Goto, stripeVars
<1>2. /\ r \in AdminRequests /\ r.code \in Codes /\ r.assigned \in PlanRows
      /\ r.assigned.stored /\ ~r.assigned.product /\ ~r.loaded.product
      /\ ~plans[r.code].product
  BY <1>r, <1>1, Request DEF RequestOK, Creating, RowsOK
<1>3. /\ g \in AdminRequests /\ g.pc = "product" /\ g.code = r.code
      /\ g.loaded = r.loaded /\ g.assigned = r.assigned
  BY <1>g, <1>2 DEF AdminRequests, AdminSteps
<1>4. StripeGrows
  BY <1>1, Request, StripeStill DEF stripeVars
<1>5. \A c \in Codes : plans'[c] = IF c = r.code THEN r.assigned ELSE plans[c]
  BY <1>1, Request DEF TypeOK
<1>6. RowsGrow
  <2>1. plans' \in [Codes -> PlanRows] /\ shown' \subseteq Codes \X Offers
    BY <1>1, <1>2, Request, OfferType DEF TypeOK
  <2>2. \A c \in Codes : /\ plans[c].stored => plans'[c].stored
                         /\ plans[c].product => plans'[c].product
                         /\ plans'[c].product => plans'[c].stored
    BY <1>2, <1>5, Request DEF RowsOK
  <2>3. \A c \in Codes : PriceOf(c, plans[c].price)'
    BY <1>r, <1>1, <1>5, Request DEF PriceOf
  <2> QED
    BY <2>1, <2>2, <2>3 DEF RowsGrow
<1>7. RequestOK(g)'
  BY <1>r, <1>1, <1>2, <1>3, <1>5, Request DEF RequestOK, Creating, Retired
<1>8. PriceOf(g.code, g.loaded.price)' /\ PriceOf(g.code, g.assigned.price)'
  BY <1>r, <1>1, <1>3, Request DEF PriceOf
<1>9. \A b \in Admins \ {a} : admin[b].pc \in Creating =>
        /\ ~plans'[admin[b].code].product
        /\ g.pc \in Creating => g.code # admin[b].code
  BY <1>r, <1>1, <1>2, <1>3, <1>5, Request DEF RequestOK
<1>10. deleted' = deleted /\ deleted' \subseteq Codes
  BY <1>1, Request DEF TypeOK
<1> QED
  BY <1>1, <1>3, <1>4, <1>6, <1>7, <1>8, <1>9, <1>10, Moved

LEMMA CreateProductInv ==
  ASSUME DInv, NEW a \in Admins, CreateProduct(a)
  PROVE  DInv'
<1>r. PICK r : r = admin[a]
  OBVIOUS
<1>g. PICK g : g = [r EXCEPT !.pc = "price", !.assigned.product = TRUE]
  OBVIOUS
<1>1. /\ r.pc = "product"
      /\ products' = [products EXCEPT ![r.code] = [state |-> "active", name |-> r.assigned.name]]
      /\ admin' = [admin EXCEPT ![a] = g]
      /\ UNCHANGED <<plans, prices, lastPrice, customers, shopper, shown, sold, deleted>>
  BY <1>r, <1>g DEF CreateProduct, At, historyVars
<1>2. /\ r \in AdminRequests /\ r.code \in Codes /\ r.assigned \in PlanRows
      /\ plans[r.code].stored /\ ~plans[r.code].product /\ ~r.loaded.product
  BY <1>r, <1>1, Request DEF RequestOK, Creating
<1>3. /\ g \in AdminRequests /\ g.pc = "price" /\ g.code = r.code
      /\ g.loaded = r.loaded /\ g.assigned.price = r.assigned.price
  BY <1>g, <1>2 DEF AdminRequests, AdminSteps, PlanRows
<1>4. StripeGrows
  <2>1. products' \in [Codes -> Products]
    BY <1>1, <1>2, Request DEF TypeOK, Products, PlanRows
  <2>2. \A c \in Codes : plans[c].product /\ products[c].state = "inactive" =>
                           products'[c].state = "inactive"
    BY <1>1, <1>2, Request DEF TypeOK
  <2> QED
    BY <1>1, <2>1, <2>2, Request DEF StripeGrows, TypeOK
<1>5. RowsGrow
  BY <1>1, RowsStill
<1>6. RequestOK(g)'
  BY <1>1, <1>2, <1>3 DEF RequestOK, Creating, Retired
<1>7. PriceOf(g.code, g.loaded.price)' /\ PriceOf(g.code, g.assigned.price)'
  BY <1>r, <1>1, <1>3, Request DEF PriceOf
<1>8. \A b \in Admins \ {a} : admin[b].pc \in Creating =>
        /\ ~plans'[admin[b].code].product
        /\ g.pc \in Creating => g.code # admin[b].code
  BY <1>r, <1>1, <1>3, Request DEF RequestOK, CreatorsApart, Creating
<1>9. deleted' = deleted /\ deleted' \subseteq Codes
  BY <1>1, Request DEF TypeOK
<1> QED
  BY <1>1, <1>3, <1>4, <1>5, <1>6, <1>7, <1>8, <1>9, Moved

\* Stripe makes a price for the plan of the request.
LEMMA NewPriceInv ==
  ASSUME DInv, NEW a \in Admins, NEW interval \in Intervals, NEW pc \in {"save_ids", "save"},
         NewPrice(a, interval, pc),
         pc = "save_ids" => admin[a].pc \in Creating,
         pc = "save" => admin[a].pc \notin Creating
  PROVE  DInv'
<1>r. PICK r : r = admin[a]
  OBVIOUS
<1>n. PICK n : n = lastPrice + 1
  OBVIOUS
<1>g. PICK g : g = [r EXCEPT !.pc = pc, !.assigned.price = n]
  OBVIOUS
<1>1. /\ lastPrice < MaxPrices
      /\ lastPrice' = n
      /\ prices' = [prices EXCEPT ![n] =
           [code |-> r.code, amount |-> r.assigned.amount, currency |-> r.assigned.currency,
            interval |-> interval, active |-> TRUE]]
      /\ admin' = [admin EXCEPT ![a] = g]
      /\ UNCHANGED <<plans, products, customers, shopper, shown, sold, deleted>>
  BY <1>r, <1>n, <1>g DEF NewPrice, historyVars
<1>2. /\ r \in AdminRequests /\ r.code \in Codes /\ r.assigned \in PlanRows
      /\ r.loaded \in PlanRows
  BY <1>r, Request
<1>l. lastPrice \in Nat /\ n \in Nat /\ n \in Prices /\ lastPrice < n
  BY <1>n, <1>1, Request DEF TypeOK, Prices
<1>3. /\ g \in AdminRequests /\ g.pc = pc /\ g.code = r.code /\ g.loaded = r.loaded
      /\ g.assigned.price = n /\ g.assigned.product = r.assigned.product
  <2>1. n \in 0 .. MaxPrices
    BY <1>l DEF Prices
  <2>2. g = [r EXCEPT !.pc = pc, !.assigned = [r.assigned EXCEPT !.price = n]]
    BY <1>g, <1>2 DEF AdminRequests
  <2>3. [r.assigned EXCEPT !.price = n] \in PlanRows
    BY <1>2, <2>1 DEF PlanRows
  <2>4. [r.assigned EXCEPT !.price = n].price = n
        /\ [r.assigned EXCEPT !.price = n].product = r.assigned.product
    BY <1>2 DEF PlanRows
  <2>5. g \in AdminRequests /\ g.pc = pc /\ g.code = r.code /\ g.loaded = r.loaded
        /\ g.assigned = [r.assigned EXCEPT !.price = n]
    BY <1>2, <2>2, <2>3 DEF AdminRequests, AdminSteps
  <2> QED
    BY <2>4, <2>5
<1>p. prices'[n].code = r.code /\ \A i \in 1 .. lastPrice : prices'[i].code = prices[i].code
  BY <1>1, <1>l, Request DEF TypeOK
<1>4. StripeGrows
  <2>1. prices' \in [Prices -> StripePrices]
    BY <1>1, <1>2, Request DEF TypeOK, StripePrices, PlanRows
  <2>2. products' \in [Codes -> Products] /\ lastPrice' \in 0 .. MaxPrices
        /\ lastPrice <= lastPrice'
    BY <1>1, <1>l, Request DEF TypeOK, Prices
  <2> QED
    BY <1>1, <1>p, <2>1, <2>2 DEF StripeGrows
<1>q. \A c \in Codes, i \in 0 .. MaxPrices : PriceOf(c, i) => PriceOf(c, i)'
  <2>1. lastPrice' = n
    BY <1>1
  <2> QED
    BY <2>1, <1>l, <1>p DEF PriceOf
<1>5. RowsGrow
  <2>1. \A c \in Codes : PriceOf(c, plans[c].price)'
    <3> TAKE c \in Codes
    <3>1. plans[c].price \in 0 .. MaxPrices /\ PriceOf(c, plans[c].price) /\ plans'[c] = plans[c]
      BY <1>1, Request DEF PlanRows
    <3> QED
      BY <3>1, <1>q DEF PriceOf
  <2> QED
    BY <1>1, <2>1, Request DEF RowsGrow, RowsOK, TypeOK, PriceOf
<1>6. RequestOK(g)'
  BY <1>r, <1>1, <1>3, Request DEF RequestOK, Creating, Retired
<1>7. PriceOf(g.code, g.loaded.price)' /\ PriceOf(g.code, g.assigned.price)'
  <2>1. PriceOf(r.code, r.loaded.price)'
    <3>1. PriceOf(r.code, r.loaded.price) /\ r.loaded.price \in 0 .. MaxPrices
      BY <1>r, <1>2, Request DEF PlanRows
    <3> QED
      BY <3>1, <1>2, <1>q DEF PriceOf
  <2> QED
    BY <1>1, <1>3, <1>l, <1>p, <2>1 DEF PriceOf
<1>8. \A b \in Admins \ {a} : admin[b].pc \in Creating =>
        /\ ~plans'[admin[b].code].product
        /\ g.pc \in Creating => g.code # admin[b].code
  BY <1>r, <1>1, <1>3, Request DEF RequestOK, CreatorsApart, Creating
<1>9. deleted' = deleted /\ deleted' \subseteq Codes
  BY <1>1, Request DEF TypeOK
<1> QED
  BY <1>1, <1>3, <1>4, <1>5, <1>6, <1>7, <1>8, <1>9, Moved

LEMMA CreatePriceInv ==
  ASSUME DInv, NEW a \in Admins, CreatePrice(a)
  PROVE  DInv'
<1>1. At(a, "price") /\ NewPrice(a, "month", "save_ids")
  BY DEF CreatePrice
<1>2. "month" \in Intervals /\ admin[a].pc \in Creating
  BY <1>1 DEF Intervals, At, Creating
<1> QED
  BY <1>1, <1>2, NewPriceInv

LEMMA RepriceInv ==
  ASSUME DInv, NEW a \in Admins, Reprice(a)
  PROVE  DInv'
<1>1. At(a, "reprice") /\ NewPrice(a, admin[a].assigned.period, "save")
  BY DEF Reprice
<1>2. PICK i : i = admin[a].assigned.period
  OBVIOUS
<1>3. i \in Intervals
  BY <1>2, Request DEF Intervals, PlanRows
<1>4. admin[a].pc \notin Creating /\ NewPrice(a, i, "save")
  BY <1>1, <1>2 DEF At, Creating
<1> QED
  BY <1>3, <1>4, NewPriceInv

\* A request's commit keeps a product id and writes a price of the same plan.
LEMMA Flushed ==
  ASSUME DInv, NEW a \in Admins, NEW r, r = admin[a],
         r.pc \in {"save_ids", "save", "mark"},
         Commit(r.code, Flush(plans[r.code], r.loaded, r.assigned)),
         UNCHANGED <<prices, lastPrice>>
  PROVE  /\ RowsGrow
         /\ \A c \in Codes : c # r.code => plans'[c] = plans[c]
         /\ r.pc # "save_ids" => plans'[r.code].product = plans[r.code].product
<1>1. PICK row : row = Flush(plans[r.code], r.loaded, r.assigned)
  OBVIOUS
<1>2. /\ r \in AdminRequests /\ r.code \in Codes /\ r.loaded \in PlanRows
      /\ r.assigned \in PlanRows /\ plans[r.code] \in PlanRows /\ RequestOK(r)
  BY Request
<1>3. /\ row \in PlanRows /\ row.stored = plans[r.code].stored
      /\ row.product = Keep(plans[r.code].product, r.loaded.product, r.assigned.product)
      /\ row.price = Keep(plans[r.code].price, r.loaded.price, r.assigned.price)
  BY <1>1, <1>2, FlushType DEF Flush
<1>4. /\ plans' = [plans EXCEPT ![r.code] = row]
      /\ shown' = shown \cup {<<r.code, Offer(row)>>}
  BY <1>1 DEF Commit
<1>5. \A c \in Codes : plans'[c] = IF c = r.code THEN row ELSE plans[c]
  BY <1>4, Request DEF TypeOK
<1>6. plans' \in [Codes -> PlanRows] /\ shown' \subseteq Codes \X Offers
  BY <1>2, <1>3, <1>4, Request, OfferType DEF TypeOK
<1>7. r.pc # "save_ids" => row.product = plans[r.code].product
  BY <1>2, <1>3 DEF RequestOK, Creating, Keep
<1>8. /\ plans[r.code].product => row.product
      /\ row.product => row.stored
  <2>1. r.pc = "save_ids" => plans[r.code].stored /\ ~plans[r.code].product
    BY <1>2 DEF RequestOK, Creating
  <2> QED
    BY <1>2, <1>3, <1>7, <2>1, Request DEF RowsOK
<1>9. PriceOf(r.code, row.price)
  BY <1>3, Request DEF Keep
<1>10. \A c \in Codes : PriceOf(c, plans[c].price)'
  BY <1>5, <1>9, Request DEF PriceOf
<1>11. \A c \in Codes : /\ plans[c].stored => plans'[c].stored
                        /\ plans[c].product => plans'[c].product
                        /\ plans'[c].product => plans'[c].stored
  BY <1>3, <1>5, <1>8, Request DEF RowsOK
<1> QED
  BY <1>2, <1>5, <1>6, <1>7, <1>10, <1>11 DEF RowsGrow

\* The request is over.
LEMMA Idle ==
  /\ IdleAdmin \in AdminRequests /\ IdleAdmin.pc = "idle"
  /\ IdleAdmin.loaded = NoRow /\ IdleAdmin.assigned = NoRow
  /\ RequestOK(IdleAdmin) /\ RequestOK(IdleAdmin)'
  /\ PriceOf(IdleAdmin.code, IdleAdmin.loaded.price)
  /\ PriceOf(IdleAdmin.code, IdleAdmin.assigned.price)
  /\ PriceOf(IdleAdmin.code, IdleAdmin.loaded.price)'
  /\ PriceOf(IdleAdmin.code, IdleAdmin.assigned.price)'
<1>1. IdleAdmin.pc = "idle" /\ IdleAdmin.loaded = NoRow /\ IdleAdmin.assigned = NoRow
  BY DEF IdleAdmin
<1> QED
  BY <1>1, NoRowType, IdleTypes DEF RequestOK, PriceOf, Creating, Retired

LEMMA SaveInv ==
  ASSUME DInv, NEW a \in Admins, admin[a].pc \in {"save_ids", "save"}, Save(a)
  PROVE  DInv'
<1>r. PICK r : r = admin[a]
  OBVIOUS
<1>1. /\ Commit(r.code, Flush(plans[r.code], r.loaded, r.assigned))
      /\ admin' = [admin EXCEPT ![a] = IdleAdmin]
      /\ UNCHANGED <<products, prices, lastPrice, customers, shopper, sold, deleted>>
  BY <1>r DEF Save, Finish, stripeVars
<1>2. /\ RowsGrow /\ \A c \in Codes : c # r.code => plans'[c] = plans[c]
      /\ r.pc # "save_ids" => plans'[r.code].product = plans[r.code].product
  BY <1>r, <1>1, Flushed
<1>3. StripeGrows
  BY <1>1, Request, StripeStill DEF stripeVars
<1>4. \A b \in Admins \ {a} : admin[b].pc \in Creating => ~plans'[admin[b].code].product
  <2> SUFFICES ASSUME NEW b \in Admins \ {a}, admin[b].pc \in Creating
               PROVE  ~plans'[admin[b].code].product
    OBVIOUS
  <2>1. ~plans[admin[b].code].product /\ admin[b].code \in Codes
    BY Request DEF RequestOK
  <2>2. r.pc = "save_ids" => admin[b].code # r.code
    BY <1>r, Request DEF CreatorsApart, Creating
  <2> QED
    BY <1>2, <2>1, <2>2
<1>5. IdleAdmin.pc \notin Creating
  BY Idle DEF Creating
<1>6. deleted' = deleted /\ deleted' \subseteq Codes
  BY <1>1, Request DEF TypeOK
<1> QED
  BY <1>1, <1>2, <1>3, <1>4, <1>5, <1>6, Idle, Moved

-----------------------------------------------------------------------------
(* Steps of an update and of a deletion.                                   *)

LEMMA RequestedType ==
  ASSUME NEW row \in PlanRows, NEW fields, NEW body \in PlanRows
  PROVE  /\ Requested(row, fields, body) \in PlanRows
         /\ Requested(row, fields, body).product = row.product
         /\ Requested(row, fields, body).price = row.price
BY DEF Requested, PlanRows

LEMMA UpdatePlanInv ==
  ASSUME DInv, NEW a \in Admins, NEW c \in Codes, NEW fields \in SUBSET Settable,
         NEW body \in Fresh, UpdatePlan(a, c, fields, body)
  PROVE  DInv'
<1>1. PICK row : row = plans[c]
  OBVIOUS
<1>2. PICK new : new = Requested(row, fields, body)
  OBVIOUS
<1>3. PICK pc \in {"rename", "reprice", "save"} :
        pc = IF "name" \in fields THEN "rename"
             ELSE IF Repriced(fields) THEN "reprice" ELSE "save"
  OBVIOUS
<1>4. PICK g : g = [pc |-> pc, code |-> c, loaded |-> row, assigned |-> new,
                    reprice |-> Repriced(fields)]
  OBVIOUS
<1>5. /\ admin' = [admin EXCEPT ![a] = g]
      /\ UNCHANGED <<plans, stripeVars, customers, shopper, historyVars>>
  BY <1>1, <1>2, <1>3, <1>4 DEF UpdatePlan, Begin
<1>6. row \in PlanRows /\ body \in PlanRows /\ PriceOf(c, row.price)
  BY <1>1, Request DEF Fresh
<1>7. new \in PlanRows /\ new.product = row.product /\ new.price = row.price
  BY <1>2, <1>6, RequestedType
<1>8. Repriced(fields) \in BOOLEAN
  BY DEF Repriced
<1>9. g \in AdminRequests
  BY <1>3, <1>4, <1>6, <1>7, <1>8 DEF AdminRequests, AdminSteps
<1>10. g.pc = pc /\ g.code = c /\ g.loaded = row /\ g.assigned = new
  BY <1>4
<1>11. RequestOK(g) /\ g.pc \notin Creating
  BY <1>1, <1>3, <1>7, <1>10 DEF RequestOK, Creating, Retired
<1> QED
  BY <1>5, <1>6, <1>7, <1>9, <1>10, <1>11, MovedAlone

LEMMA SoftDeletePlanInv ==
  ASSUME DInv, NEW a \in Admins, NEW c \in Codes, SoftDeletePlan(a, c)
  PROVE  DInv'
<1>1. PICK row : row = plans[c]
  OBVIOUS
<1>2. PICK new : new = [row EXCEPT !.active = FALSE]
  OBVIOUS
<1>3. PICK g : g = [IdleAdmin EXCEPT !.pc = "retire_product", !.code = c, !.loaded = row,
                                     !.assigned = new]
  OBVIOUS
<1>4. /\ admin' = [admin EXCEPT ![a] = g]
      /\ UNCHANGED <<plans, stripeVars, customers, shopper, historyVars>>
  BY <1>1, <1>2, <1>3 DEF SoftDeletePlan, Begin
<1>5. row \in PlanRows /\ PriceOf(c, row.price)
  BY <1>1, Request
<1>6. new \in PlanRows /\ new.product = row.product /\ new.price = row.price
  BY <1>2, <1>5 DEF PlanRows
<1>7. /\ g \in AdminRequests /\ g.pc = "retire_product" /\ g.code = c
      /\ g.loaded = row /\ g.assigned = new
  BY <1>3, <1>5, <1>6, IdleTypes DEF AdminRequests, AdminSteps
<1>8. RequestOK(g) /\ g.pc \notin Creating
  BY <1>1, <1>6, <1>7 DEF RequestOK, Creating, Retired
<1> QED
  BY <1>4, <1>5, <1>6, <1>7, <1>8, MovedAlone

\* Between the calls of an update or a deletion only products and the activity
\* of prices change.
LEMMA Updating ==
  ASSUME DInv, NEW a \in Admins, NEW pc \in {"reprice", "save", "retire_price", "mark"},
         Goto(a, pc), admin[a].pc \notin Creating \cup {"insert"}, StripeGrows,
         UNCHANGED <<plans, lastPrice, customers, shopper, historyVars>>,
         \A i \in Prices : prices'[i].code = prices[i].code,
         pc \in Retired => /\ admin[a].loaded.product
                           /\ products'[admin[a].code].state = "inactive"
  PROVE  DInv'
<1>r. PICK r : r = admin[a]
  OBVIOUS
<1>1. PICK g : g = [r EXCEPT !.pc = pc]
  OBVIOUS
<1>2. admin' = [admin EXCEPT ![a] = g]
  BY <1>r, <1>1 DEF Goto
<1>3. /\ g \in AdminRequests /\ g.pc = pc /\ g.code = r.code
      /\ g.loaded = r.loaded /\ g.assigned = r.assigned
  BY <1>r, <1>1, Request DEF AdminRequests, AdminSteps
<1>4. \A c, i : PriceOf(c, i) /\ i \in 0 .. MaxPrices => PriceOf(c, i)'
  BY Request DEF PriceOf, Prices, TypeOK
<1>5. RowsGrow
  <2>1. \A c \in Codes : PriceOf(c, plans[c].price)'
    <3> TAKE c \in Codes
    <3>1. plans[c].price \in 0 .. MaxPrices /\ PriceOf(c, plans[c].price)
      BY Request DEF PlanRows
    <3> QED
      BY <3>1, <1>4 DEF PriceOf
  <2> QED
    BY <2>1, Request DEF RowsGrow, RowsOK, TypeOK, historyVars, PriceOf
<1>6. RequestOK(g)'
  BY <1>r, <1>3, Request DEF RequestOK, Creating, Retired
<1>7. PriceOf(g.code, g.loaded.price)' /\ PriceOf(g.code, g.assigned.price)'
  BY <1>r, <1>3, <1>4, Request DEF PriceOf, PlanRows
<1>8. \A b \in Admins \ {a} : admin[b].pc \in Creating =>
        /\ ~plans'[admin[b].code].product
        /\ g.pc \in Creating => g.code # admin[b].code
  BY <1>3, Request DEF RequestOK, Creating
<1>9. deleted' = deleted /\ deleted' \subseteq Codes /\ UNCHANGED <<customers, shopper, sold>>
  BY Request DEF TypeOK, historyVars
<1> QED
  BY <1>2, <1>3, <1>5, <1>6, <1>7, <1>8, <1>9, Moved

LEMMA RenameInv ==
  ASSUME DInv, NEW a \in Admins, Rename(a)
  PROVE  DInv'
<1>1. PICK pc \in {"reprice", "save"} : pc = IF admin[a].reprice THEN "reprice" ELSE "save"
  OBVIOUS
<1>2. /\ admin[a].pc = "rename"
      /\ products' = [products EXCEPT ![admin[a].code] =
           [products[admin[a].code] EXCEPT !.name = admin[a].assigned.name]]
      /\ Goto(a, pc)
      /\ UNCHANGED <<plans, prices, lastPrice, customers, shopper, historyVars>>
  BY <1>1 DEF Rename, At
<1>3. StripeGrows
  <2>1. products' \in [Codes -> Products] /\ \A c \in Codes : products'[c].state = products[c].state
    BY <1>2, Request DEF TypeOK, Products, PlanRows
  <2> QED
    BY <1>2, <2>1, Request DEF StripeGrows, TypeOK
<1> QED
  BY <1>2, <1>3, Updating DEF Creating, Retired

LEMMA RetireProductInv ==
  ASSUME DInv, NEW a \in Admins, RetireProduct(a)
  PROVE  DInv'
<1>1. /\ admin[a].pc = "retire_product" /\ admin[a].loaded.product
      /\ products' = [products EXCEPT ![admin[a].code] =
           [products[admin[a].code] EXCEPT !.state = "inactive"]]
      /\ Goto(a, "retire_price")
      /\ UNCHANGED <<plans, prices, lastPrice, customers, shopper, historyVars>>
  BY DEF RetireProduct, At
<1>2. /\ products' \in [Codes -> Products] /\ products'[admin[a].code].state = "inactive"
      /\ \A c \in Codes : products[c].state = "inactive" => products'[c].state = "inactive"
  BY <1>1, Request DEF TypeOK, Products
<1>3. StripeGrows
  BY <1>1, <1>2, Request DEF StripeGrows, TypeOK
<1> QED
  BY <1>1, <1>2, <1>3, Updating DEF Creating

LEMMA RetirePriceInv ==
  ASSUME DInv, NEW a \in Admins, RetirePrice(a)
  PROVE  DInv'
<1>1. PICK p : p = admin[a].loaded.price
  OBVIOUS
<1>2. /\ admin[a].pc = "retire_price" /\ p # 0
      /\ prices' = [prices EXCEPT ![p] = [prices[p] EXCEPT !.active = FALSE]]
      /\ Goto(a, "mark")
      /\ UNCHANGED <<plans, products, lastPrice, customers, shopper, historyVars>>
  BY <1>1 DEF RetirePrice, At
<1>3. /\ prices' \in [Prices -> StripePrices]
      /\ \A i \in Prices : prices'[i].code = prices[i].code
  BY <1>2, Request DEF TypeOK, StripePrices
<1>4. admin[a].loaded.product /\ products'[admin[a].code].state = "inactive"
  BY <1>2, Request DEF RequestOK, Retired
<1>5. StripeGrows
  <2>1. lastPrice \in Nat /\ \A i \in 1 .. lastPrice : i \in Prices
    BY Request DEF TypeOK, Prices
  <2> QED
    BY <1>2, <1>3, <2>1, Request DEF StripeGrows, TypeOK
<1> QED
  BY <1>2, <1>3, <1>4, <1>5, Updating DEF Creating

LEMMA MarkDeletedInv ==
  ASSUME DInv, NEW a \in Admins, MarkDeleted(a)
  PROVE  DInv'
<1>r. PICK r : r = admin[a]
  OBVIOUS
<1>1. /\ r.pc = "mark"
      /\ Commit(r.code, Flush(plans[r.code], r.loaded, r.assigned))
      /\ deleted' = deleted \cup {r.code}
      /\ admin' = [admin EXCEPT ![a] = IdleAdmin]
      /\ UNCHANGED <<products, prices, lastPrice, customers, shopper, sold>>
  BY <1>r DEF MarkDeleted, At, Finish, stripeVars
<1>2. /\ RowsGrow /\ \A c \in Codes : c # r.code => plans'[c] = plans[c]
      /\ plans'[r.code].product = plans[r.code].product
  BY <1>r, <1>1, Flushed
<1>3. StripeGrows
  BY <1>1, Request, StripeStill DEF stripeVars
<1>4. \A b \in Admins \ {a} : admin[b].pc \in Creating => ~plans'[admin[b].code].product
  BY <1>2, Request DEF RequestOK
<1>5. IdleAdmin.pc \notin Creating
  BY Idle DEF Creating
<1>6. r.code \in Codes /\ plans[r.code].product /\ products[r.code].state = "inactive"
  BY <1>r, <1>1, Request DEF RequestOK, Retired
<1>7. /\ deleted' \subseteq Codes
      /\ \A c \in deleted' \ deleted : plans'[c].product /\ products'[c].state = "inactive"
  BY <1>1, <1>2, <1>6, Request DEF TypeOK
<1> QED
  BY <1>1, <1>2, <1>3, <1>4, <1>5, <1>7, Idle, Moved

LEMMA FailAdminInv ==
  ASSUME DInv, NEW a \in Admins, FailAdmin(a)
  PROVE  DInv'
<1>1. /\ admin' = [admin EXCEPT ![a] = IdleAdmin]
      /\ UNCHANGED <<plans, stripeVars, customers, shopper, historyVars>>
  BY DEF FailAdmin, Finish
<1>2. IdleAdmin.pc \notin Creating
  BY Idle DEF Creating
<1> QED
  BY <1>1, <1>2, Idle, MovedAlone

-----------------------------------------------------------------------------
(* Checkouts, and every step.                                              *)

LEMMA ShopperInv ==
  ASSUME DInv, NEW s \in Shoppers, ShopperStep(s)
  PROVE  DInv'
<1>1. UNCHANGED <<plans, products, prices, lastPrice, admin, shown, deleted>>
  BY DEF ShopperStep, Checkout, ByCode, EnsureCustomer, OpenSession, FailCheckout, stripeVars,
         historyVars
<1>t. TypeOK /\ PricesOK
  BY DEF DInv
<1>2. PICK k \in Checkouts : /\ shopper' = [shopper EXCEPT ![s] = k]
                             /\ PriceOf(k.code, k.price)
  <2>1. IdleShopper \in Checkouts /\ IdleShopper.price = 0
    BY IdleTypes DEF IdleShopper
  <2>2. CASE \E u \in Users, c \in Codes : Checkout(s, u, c)
    <3>1. PICK u \in Users, c \in Codes : Checkout(s, u, c)
      BY <2>2
    <3>2. [pc |-> "customer", code |-> c, user |-> u, price |-> plans[c].price] \in Checkouts
      BY <1>t DEF Checkouts, ShopperSteps, TypeOK, PlanRows
    <3>3. PriceOf(c, plans[c].price)
      BY <1>t DEF PricesOK
    <3> QED
      BY <3>1, <3>2, <3>3 DEF Checkout, ByCode
  <2>3. CASE EnsureCustomer(s)
    <3>1. CASE Leave(s)
      BY <2>1, <3>1 DEF Leave, PriceOf
    <3>2. CASE Proceed(s, "session")
      <4>1. shopper[s] \in Checkouts /\ PriceOf(shopper[s].code, shopper[s].price)
        BY <1>t DEF TypeOK, PricesOK
      <4>2. PICK k : k = [shopper[s] EXCEPT !.pc = "session"]
        OBVIOUS
      <4>3. k \in Checkouts /\ k.code = shopper[s].code /\ k.price = shopper[s].price
        BY <4>1, <4>2 DEF Checkouts, ShopperSteps
      <4> QED
        BY <3>2, <4>1, <4>2, <4>3 DEF Proceed
    <3> QED
      BY <2>3, <3>1, <3>2 DEF EnsureCustomer
  <2>4. CASE OpenSession(s) \/ FailCheckout(s)
    BY <2>1, <2>4 DEF OpenSession, FailCheckout, Leave, PriceOf
  <2> QED
    BY <2>2, <2>3, <2>4 DEF ShopperStep
<1>3. customers' \in [Users -> 0 .. MaxCustomers]
  <2>1. CASE UNCHANGED customers
    BY <1>t, <2>1 DEF TypeOK
  <2>2. CASE EnsureCustomer(s) /\ customers[shopper[s].user] < MaxCustomers
             /\ customers' = [customers EXCEPT ![shopper[s].user] =
                                customers[shopper[s].user] + 1]
    <3>1. customers[shopper[s].user] + 1 \in 0 .. MaxCustomers
      BY <1>t, <2>2 DEF TypeOK, Checkouts
    <3> QED
      BY <1>t, <2>2, <3>1 DEF TypeOK
  <2> QED
    BY <2>1, <2>2 DEF ShopperStep, Checkout, ByCode, EnsureCustomer, OpenSession, FailCheckout
<1>4. sold' \subseteq Codes \X Offers
  <2>1. CASE sold' = sold
    BY <1>t, <2>1 DEF TypeOK
  <2>2. CASE OpenSession(s)
    <3>1. /\ shopper[s] \in Checkouts /\ shopper[s].price # 0
          /\ sold' = sold \cup {<<shopper[s].code, Offer(prices[shopper[s].price])>>}
      BY <1>t, <2>2 DEF OpenSession, TypeOK
    <3>2. shopper[s].price \in Prices /\ shopper[s].code \in Codes
      BY <3>1 DEF Checkouts, Prices
    <3>3. Offer(prices[shopper[s].price]) \in Offers
      BY <1>t, <3>2 DEF TypeOK, StripePrices, Offer, Offers
    <3> QED
      BY <1>t, <3>1, <3>2, <3>3 DEF TypeOK
  <2> QED
    BY <2>1, <2>2 DEF ShopperStep, Checkout, ByCode, EnsureCustomer, OpenSession, FailCheckout,
                      historyVars
<1>5. TypeOK'
  BY <1>t, <1>1, <1>2, <1>3, <1>4 DEF TypeOK
<1>6. PricesOK'
  <2>1. \A x \in Shoppers : PriceOf(shopper[x].code, shopper[x].price)'
    BY <1>t, <1>1, <1>2 DEF PricesOK, PriceOf, TypeOK
  <2> QED
    BY <1>t, <1>1, <2>1 DEF PricesOK, PriceOf
<1>7. /\ \A a \in Admins : RequestOK(admin[a])'
      /\ CreatorsApart' /\ RowsOK' /\ DeletedOK'
  BY <1>1 DEF DInv, RequestOK, CreatorsApart, RowsOK, DeletedOK
<1> QED
  BY <1>5, <1>6, <1>7 DEF DInv

LEMMA DNext == DInv /\ [Next]_vars => DInv'
<1> SUFFICES ASSUME DInv, [Next]_vars PROVE DInv'
  OBVIOUS
<1>1. CASE UNCHANGED vars
  BY <1>1 DEF vars, DInv, TypeOK, PricesOK, PriceOf, RequestOK, CreatorsApart, RowsOK, DeletedOK
<1>2. ASSUME NEW a \in Admins, AdminStep(a) PROVE DInv'
  <2>1. CASE \E c \in Codes, row \in Fresh : CreatePlan(a, c, row)
    BY <2>1, CreatePlanInv
  <2>2. CASE \E c \in Codes, fields \in SUBSET Settable, body \in Fresh :
               UpdatePlan(a, c, fields, body)
    BY <2>2, UpdatePlanInv
  <2>3. CASE \E c \in Codes : SoftDeletePlan(a, c)
    BY <2>3, SoftDeletePlanInv
  <2>4. CASE SaveIds(a) \/ SaveUpdate(a)
    BY <2>4, SaveInv DEF SaveIds, SaveUpdate, At
  <2> QED
    BY <1>2, <2>1, <2>2, <2>3, <2>4, InsertPlanInv, CreateProductInv, CreatePriceInv,
       RenameInv, RepriceInv, RetireProductInv, RetirePriceInv, MarkDeletedInv, FailAdminInv
       DEF AdminStep
<1> QED
  BY <1>1, <1>2, ShopperInv DEF Next

LEMMA Inv == Spec => []DInv
BY InitInv, DNext, PTL DEF Spec

-----------------------------------------------------------------------------
(* Theorems.                                                               *)

\* The plans table, what Stripe holds and every request keep their types.
THEOREM TypeCorrect == Spec => []TypeOK
<1>1. DInv => TypeOK
  BY DEF DInv
<1> QED
  BY <1>1, Inv, PTL

\* A plan whose deletion was answered is sold no more: the deletion made its
\* product inactive before it was answered, no request of the code makes that
\* product active again, and a session takes an active product.
THEOREM DeletedNotSold == Spec => NoSaleAfterDelete
<1>1. DInv /\ [Next]_vars => [\A c \in deleted : SalesOf(c)' = SalesOf(c)]_vars
  <2> SUFFICES ASSUME DInv, Next, NEW c \in deleted PROVE SalesOf(c)' = SalesOf(c)
    OBVIOUS
  <2>t. TypeOK /\ PricesOK /\ DeletedOK
    BY DEF DInv
  <2>1. CASE sold' = sold
    BY <2>1 DEF SalesOf
  <2>2. ASSUME NEW s \in Shoppers, OpenSession(s) PROVE SalesOf(c)' = SalesOf(c)
    <3>1. /\ shopper[s].price # 0
          /\ products[prices[shopper[s].price].code].state = "active"
          /\ sold' = sold \cup {<<shopper[s].code, Offer(prices[shopper[s].price])>>}
      BY <2>2 DEF OpenSession
    <3>2. prices[shopper[s].price].code = shopper[s].code
      BY <2>t, <3>1 DEF PricesOK, PriceOf
    <3>3. shopper[s].code # c
      BY <2>t, <3>1, <3>2 DEF DeletedOK
    <3> QED
      BY <3>1, <3>3 DEF SalesOf
  <2> QED
    BY <2>1, <2>2 DEF Next, AdminStep, ShopperStep, CreatePlan, InsertPlan, CreateProduct,
       CreatePrice, NewPrice, SaveIds, Save, UpdatePlan, Rename, Reprice, SaveUpdate,
       SoftDeletePlan, RetireProduct, RetirePrice, MarkDeleted, FailAdmin, Checkout,
       EnsureCustomer, FailCheckout, historyVars
<1> QED
  BY <1>1, Inv, PTL DEF Spec, NoSaleAfterDelete

-----------------------------------------------------------------------------
(* One admin request at a time on each plan.                               *)

OffersKept == \A i \in 1 .. lastPrice : Offer(prices'[i]) = Offer(prices[i])

\* What a step of the request has to keep for rows and checkouts.
LEMMA LMoved ==
  ASSUME OneAdminPerPlan, LInv, DInv', NEW a \in Admins, NEW g,
         admin' = [admin EXCEPT ![a] = g],
         OffersKept, shown \subseteq shown', UNCHANGED shopper,
         \A c \in Codes : plans'[c] = plans[c] \/ (~At(a, "idle") /\ c = admin[a].code),
         \A c \in Codes : RowListed(c)', UpdateOK(g)'
  PROVE  LInv'
<1>1. DInv /\ TypeOK /\ PricesOK /\ CheckoutsShown
  BY DEF LInv, DInv
<1>2. \A b \in Admins : admin'[b] = IF b = a THEN g ELSE admin[b]
  BY <1>1 DEF TypeOK
<1>3. \A b \in Admins : UpdateOK(admin[b])'
  <2> TAKE b \in Admins
  <2>1. CASE b = a
    BY <1>2, <2>1 DEF UpdateOK, Priced, Retired
  <2>2. CASE b # a
    <3>r. PICK r : r = admin[b]
      OBVIOUS
    <3>1. /\ admin'[b] = r /\ r.code \in Codes /\ r.assigned \in PlanRows /\ UpdateOK(r)
          /\ PriceOf(r.code, r.assigned.price)
      BY <1>1, <1>2, <2>2, <3>r, Request DEF LInv
    <3>2. r.pc # "idle" => plans'[r.code] = plans[r.code]
      BY <2>2, <3>r, <3>1 DEF OneAdminPerPlan, At
    <3>3. Priced(r.assigned) => Priced(r.assigned)'
      <4>1. r.assigned.price # 0 => r.assigned.price \in 1 .. lastPrice
        BY <1>1, <3>1 DEF PriceOf, PlanRows, TypeOK
      <4> QED
        BY <4>1 DEF Priced, OffersKept, Offer
    <3>4. UpdateOK(r)'
      BY <3>1, <3>2, <3>3 DEF UpdateOK, Retired
    <3> QED
      BY <3>1, <3>4 DEF UpdateOK, Priced, Retired
  <2> QED
    BY <2>1, <2>2
<1>4. CheckoutsShown'
  <2> SUFFICES ASSUME NEW s \in Shoppers, shopper[s].price # 0
               PROVE  <<shopper[s].code, Offer(prices[shopper[s].price])'>> \in shown'
    BY DEF CheckoutsShown
  <2>1. shopper[s].price \in 1 .. lastPrice
    BY <1>1 DEF TypeOK, Checkouts, PricesOK, PriceOf
  <2> QED
    BY <1>1, <2>1 DEF CheckoutsShown, OffersKept, Offer
<1> QED
  BY <1>3, <1>4 DEF LInv

\* Rows stay listed when no row changes and offers at Stripe are kept.
LEMMA ListedStill ==
  ASSUME LInv, OffersKept, UNCHANGED <<plans, shown>>
  PROVE  /\ \A c \in Codes : RowListed(c)'
         /\ \A c \in Codes : plans[c].price # 0 => plans[c].price \in 1 .. lastPrice
<1>1. TypeOK /\ PricesOK
  BY DEF LInv, DInv
<1>2. \A c \in Codes : plans[c].price # 0 => plans[c].price \in 1 .. lastPrice
  BY <1>1 DEF TypeOK, PlanRows, PricesOK, PriceOf
<1> QED
  BY <1>2 DEF LInv, RowListed, Priced, OffersKept, Offer

\* A request's commit writes the row it means to write.
LEMMA Written ==
  ASSUME LInv, NEW a \in Admins, NEW r, r = admin[a], r.pc \notin {"idle", "insert"}
  PROVE  /\ Flush(plans[r.code], r.loaded, r.assigned) =
              [r.assigned EXCEPT !.stored = plans[r.code].stored]
         /\ plans[r.code].stored
         /\ r.loaded = plans[r.code]
<1>1. r.assigned \in PlanRows /\ r.loaded = plans[r.code] /\ plans[r.code].stored
  BY Request DEF LInv, UpdateOK
<1>2. Flush(r.loaded, r.loaded, r.assigned) =
        [stored |-> r.loaded.stored, name |-> r.assigned.name, amount |-> r.assigned.amount,
         currency |-> r.assigned.currency, period |-> r.assigned.period,
         active |-> r.assigned.active, product |-> r.assigned.product,
         price |-> r.assigned.price]
  BY DEF Flush, Keep
<1>3. [r.assigned EXCEPT !.stored = r.loaded.stored] =
        [stored |-> r.loaded.stored, name |-> r.assigned.name, amount |-> r.assigned.amount,
         currency |-> r.assigned.currency, period |-> r.assigned.period,
         active |-> r.assigned.active, product |-> r.assigned.product,
         price |-> r.assigned.price]
  BY <1>1 DEF PlanRows
<1> QED
  BY <1>1, <1>2, <1>3

LEMMA CommitListed ==
  ASSUME LInv, UNCHANGED <<prices, lastPrice>>, NEW c \in Codes, NEW row \in PlanRows,
         Commit(c, row), row.stored, Priced(row)
  PROVE  \A d \in Codes : RowListed(d)'
<1>1. \A d \in Codes : plans'[d] = IF d = c THEN row ELSE plans[d]
  BY DEF Commit, LInv, DInv, TypeOK
<1>2. shown' = shown \cup {<<c, Offer(row)>>}
  BY DEF Commit
<1> QED
  BY <1>1, <1>2 DEF LInv, RowListed, Priced, Offer

LEMMA IdleOK == UpdateOK(IdleAdmin) /\ UpdateOK(IdleAdmin)'
BY Idle DEF UpdateOK, Retired

\* The steps that commit a row.
LEMMA CommitStep ==
  ASSUME OneAdminPerPlan, LInv, DInv', NEW a \in Admins,
         InsertPlan(a) \/ SaveIds(a) \/ SaveUpdate(a) \/ MarkDeleted(a)
  PROVE  LInv'
<1>d. DInv
  BY DEF LInv
<1>1. UNCHANGED <<prices, lastPrice, shopper>> /\ OffersKept
  BY DEF InsertPlan, SaveIds, SaveUpdate, Save, MarkDeleted, OffersKept, stripeVars, Offer
<1>r. PICK r : r = admin[a]
  OBVIOUS
<1>c. \A c \in Codes : plans'[c] = plans[c] \/ (~At(a, "idle") /\ c = admin[a].code)
  BY <1>d DEF InsertPlan, SaveIds, SaveUpdate, Save, MarkDeleted, Commit, At, DInv, TypeOK
<1>2. r.code \in Codes /\ r.assigned \in PlanRows /\ RequestOK(r) /\ UpdateOK(r)
  BY <1>d, <1>r, Request DEF LInv
<1>3. CASE InsertPlan(a)
  <2>g. PICK g : g = [r EXCEPT !.pc = "product"]
    OBVIOUS
  <2>1. /\ r.pc = "insert" /\ Commit(r.code, r.assigned)
        /\ admin' = [admin EXCEPT ![a] = g]
    BY <1>3, <1>r, <2>g DEF InsertPlan, At, Goto
  <2>2. /\ r.assigned.stored /\ Priced(r.assigned) /\ r.assigned = r.loaded
    BY <1>2, <2>1 DEF RequestOK, UpdateOK, Priced
  <2>3. shown \subseteq shown' /\ plans'[r.code] = r.assigned
    BY <1>d, <1>2, <2>1 DEF Commit, DInv, TypeOK
  <2>4. g.pc = "product" /\ g.code = r.code /\ g.loaded = r.loaded /\ g.assigned = r.assigned
    BY <1>d, <1>r, <2>g, Request DEF AdminRequests
  <2>5. UpdateOK(g)'
    BY <2>2, <2>3, <2>4 DEF UpdateOK, Retired
  <2> QED
    BY <1>1, <1>2, <2>1, <2>2, <2>3, <2>5, CommitListed, <1>c, LMoved
<1>4. CASE SaveIds(a) \/ SaveUpdate(a) \/ MarkDeleted(a)
  <2>row. PICK row : row = Flush(plans[r.code], r.loaded, r.assigned)
    OBVIOUS
  <2>1. /\ r.pc \in {"save_ids", "save", "mark"} /\ Commit(r.code, row)
        /\ admin' = [admin EXCEPT ![a] = IdleAdmin]
    BY <1>4, <1>r, <2>row DEF SaveIds, SaveUpdate, Save, MarkDeleted, At, Finish
  <2>2. row = [r.assigned EXCEPT !.stored = plans[r.code].stored] /\ plans[r.code].stored
        /\ r.loaded = plans[r.code]
    BY <1>r, <2>row, <2>1, Written
  <2>3. /\ row \in PlanRows /\ row.stored /\ row.price = r.assigned.price
        /\ row.amount = r.assigned.amount /\ row.currency = r.assigned.currency
    BY <1>2, <2>2 DEF PlanRows
  <2>4. Priced(r.assigned)
    <3>1. CASE r.pc \in {"save_ids", "save"}
      BY <1>2, <3>1 DEF UpdateOK
    <3>2. CASE r.pc = "mark"
      <4>1. r.assigned = [plans[r.code] EXCEPT !.active = FALSE] /\ plans[r.code] \in PlanRows
        BY <1>d, <1>2, <2>2, <3>2, Request DEF UpdateOK, Retired
      <4>2. Priced(plans[r.code])
        BY <1>2 DEF LInv, RowListed
      <4> QED
        BY <4>1, <4>2 DEF Priced, Offer, PlanRows
    <3> QED
      BY <2>1, <3>1, <3>2
  <2>5. Priced(row)
    BY <2>3, <2>4 DEF Priced, Offer
  <2>6. shown \subseteq shown'
    BY <2>1 DEF Commit
  <2> QED
    BY <1>1, <1>2, <2>1, <2>3, <2>5, <2>6, CommitListed, IdleOK, <1>c, LMoved
<1> QED
  BY <1>3, <1>4

\* The steps that begin a request.
LEMMA BeginStep ==
  ASSUME OneAdminPerPlan, LInv, DInv', NEW a \in Admins, NEW c \in Codes,
         \/ \E row \in Fresh : CreatePlan(a, c, row)
         \/ \E fields \in SUBSET Settable, body \in Fresh : UpdatePlan(a, c, fields, body)
         \/ SoftDeletePlan(a, c)
  PROVE  LInv'
<1>d. DInv
  BY DEF LInv
<1>1. UNCHANGED <<plans, prices, lastPrice, shopper, shown>> /\ OffersKept
  BY DEF CreatePlan, UpdatePlan, SoftDeletePlan, OffersKept, stripeVars, historyVars, Offer
<1>2. plans[c] \in PlanRows /\ Priced(plans[c])
  BY <1>d, Request DEF LInv, RowListed
<1>3. PICK g : admin' = [admin EXCEPT ![a] = g] /\ UpdateOK(g)
  <2>1. CASE \E row \in Fresh : CreatePlan(a, c, row)
    <3>1. PICK row \in Fresh : CreatePlan(a, c, row)
      BY <2>1
    <3>2. PICK g : g = [IdleAdmin EXCEPT !.pc = "insert", !.code = c,
                                         !.loaded = row, !.assigned = row]
      OBVIOUS
    <3>3. g.pc = "insert" /\ g.loaded = row /\ g.assigned = row
      BY <3>2, IdleTypes DEF AdminRequests
    <3>4. UpdateOK(g)
      BY <3>3 DEF UpdateOK, Fresh, Retired
    <3> QED
      BY <3>1, <3>2, <3>4 DEF CreatePlan, Begin
  <2>2. CASE \E fields \in SUBSET Settable, body \in Fresh : UpdatePlan(a, c, fields, body)
    <3>1. PICK fields \in SUBSET Settable, body \in Fresh : UpdatePlan(a, c, fields, body)
      BY <2>2
    <3>2. PICK new : new = Requested(plans[c], fields, body)
      OBVIOUS
    <3>3. PICK g : g = [pc |-> IF "name" \in fields THEN "rename"
                               ELSE IF Repriced(fields) THEN "reprice" ELSE "save",
                        code |-> c, loaded |-> plans[c], assigned |-> new,
                        reprice |-> Repriced(fields)]
      OBVIOUS
    <3>4. plans[c].stored /\ admin' = [admin EXCEPT ![a] = g]
      BY <3>1, <3>2, <3>3 DEF UpdatePlan, Begin
    <3>5. ~Repriced(fields) => Priced(new)
      <4>1. ~Repriced(fields) => "amount" \notin fields /\ "currency" \notin fields
        BY DEF Repriced
      <4>2. /\ new.price = plans[c].price
            /\ ~Repriced(fields) => new.amount = plans[c].amount /\ new.currency = plans[c].currency
        BY <1>2, <3>2, <4>1 DEF Requested, PlanRows
      <4> QED
        BY <1>2, <4>2 DEF Priced, Offer
    <3>6. UpdateOK(g)
      BY <3>3, <3>4, <3>5 DEF UpdateOK, Retired
    <3> QED
      BY <3>4, <3>6
  <2>3. CASE SoftDeletePlan(a, c)
    <3>1. PICK g : g = [IdleAdmin EXCEPT !.pc = "retire_product", !.code = c,
                          !.loaded = plans[c], !.assigned = [plans[c] EXCEPT !.active = FALSE]]
      OBVIOUS
    <3>2. plans[c].stored /\ admin' = [admin EXCEPT ![a] = g]
      BY <2>3, <3>1 DEF SoftDeletePlan, Begin
    <3>3. /\ g.pc = "retire_product" /\ g.code = c /\ g.loaded = plans[c]
          /\ g.assigned = [plans[c] EXCEPT !.active = FALSE]
      BY <3>1, IdleTypes DEF AdminRequests
    <3>4. UpdateOK(g)
      BY <3>2, <3>3 DEF UpdateOK, Retired
    <3> QED
      BY <3>2, <3>4
  <2> QED
    BY <2>1, <2>2, <2>3
<1>4. UpdateOK(g)'
  BY <1>1, <1>3 DEF UpdateOK, Priced
<1> QED
  BY <1>1, <1>3, <1>4, ListedStill, LMoved

\* The steps at Stripe, and the end of a request.
LEMMA StripeStep ==
  ASSUME OneAdminPerPlan, LInv, DInv', NEW a \in Admins,
         \/ CreateProduct(a) \/ CreatePrice(a) \/ Rename(a) \/ Reprice(a)
         \/ RetireProduct(a) \/ RetirePrice(a) \/ FailAdmin(a)
  PROVE  LInv'
<1>d. DInv /\ TypeOK /\ PricesOK
  BY DEF LInv, DInv
<1>r. PICK r : r = admin[a]
  OBVIOUS
<1>1. UNCHANGED <<plans, shopper, shown>>
  BY DEF CreateProduct, CreatePrice, NewPrice, Rename, Reprice, RetireProduct, RetirePrice,
         FailAdmin, historyVars
<1>2. /\ r \in AdminRequests /\ r.assigned \in PlanRows /\ UpdateOK(r)
      /\ r.loaded \in PlanRows /\ PriceOf(r.code, r.loaded.price)
      /\ PriceOf(r.code, r.assigned.price)
  BY <1>d, <1>r, Request DEF LInv
<1>3. CASE CreateProduct(a)
  <2>g. PICK g : g = [r EXCEPT !.pc = "price", !.assigned.product = TRUE]
    OBVIOUS
  <2>1. /\ r.pc = "product" /\ admin' = [admin EXCEPT ![a] = g]
        /\ UNCHANGED <<prices, lastPrice>>
    BY <1>3, <1>r, <2>g DEF CreateProduct, At
  <2>2. g.pc = "price" /\ g.code = r.code /\ g.loaded = r.loaded
    BY <1>2, <2>g DEF AdminRequests
  <2>3. OffersKept
    BY <2>1 DEF OffersKept, Offer
  <2>4. UpdateOK(g)'
    BY <1>1, <1>2, <2>1, <2>2 DEF UpdateOK, Retired
  <2> QED
    BY <1>1, <2>1, <2>3, <2>4, ListedStill, LMoved
<1>4. CASE CreatePrice(a) \/ Reprice(a)
  <2>n. PICK n : n = lastPrice + 1
    OBVIOUS
  <2>pc. PICK pc \in {"save_ids", "save"} : \E i : NewPrice(a, i, pc)
    BY <1>4 DEF CreatePrice, Reprice
  <2>i. PICK interval : NewPrice(a, interval, pc)
    BY <2>pc
  <2>g. PICK g : g = [r EXCEPT !.pc = pc, !.assigned.price = n]
    OBVIOUS
  <2>1. /\ r.pc \in {"price", "reprice"} /\ admin' = [admin EXCEPT ![a] = g]
        /\ lastPrice < MaxPrices
        /\ prices' = [prices EXCEPT ![n] =
             [code |-> r.code, amount |-> r.assigned.amount,
              currency |-> r.assigned.currency, interval |-> interval, active |-> TRUE]]
    BY <1>4, <1>r, <2>n, <2>i, <2>g DEF CreatePrice, Reprice, NewPrice, At
  <2>2. n \in Prices /\ n \in Nat /\ lastPrice \in Nat /\ lastPrice < n
    BY <1>d, <2>n, <2>1 DEF TypeOK, Prices
  <2>3. OffersKept
    BY <1>d, <2>1, <2>2 DEF OffersKept, TypeOK
  <2>4. /\ prices'[n].amount = r.assigned.amount
        /\ prices'[n].currency = r.assigned.currency
    BY <1>d, <2>1, <2>2 DEF TypeOK
  <2>5. /\ g.pc = pc /\ g.code = r.code /\ g.loaded = r.loaded
        /\ g.assigned = [r.assigned EXCEPT !.price = n]
    BY <1>2, <2>g DEF AdminRequests
  <2>6. g.assigned.price = n /\ Offer(g.assigned) = Offer(prices'[n])
    BY <1>2, <2>4, <2>5 DEF PlanRows, Offer
  <2>7. UpdateOK(g)'
    BY <1>1, <1>2, <2>1, <2>5, <2>6 DEF UpdateOK, Priced, Retired, Offer
  <2> QED
    BY <1>1, <2>1, <2>3, <2>7, ListedStill, LMoved
<1>5. ASSUME NEW pc \in {"reprice", "save", "retire_price", "mark"}, Goto(a, pc),
             \A i \in Prices : Offer(prices'[i]) = Offer(prices[i]),
             pc \in Retired => r.pc \in {"retire_product", "retire_price"},
             pc \in {"reprice", "save"} => r.pc = "rename" /\ (pc = "save" => ~r.reprice)
      PROVE  LInv'
  <2>g. PICK g : g = [r EXCEPT !.pc = pc]
    OBVIOUS
  <2>1. /\ g.pc = pc /\ g.code = r.code /\ g.loaded = r.loaded /\ g.assigned = r.assigned
        /\ admin' = [admin EXCEPT ![a] = g]
    BY <1>2, <1>5, <1>r, <2>g DEF AdminRequests, Goto
  <2>2. \A i \in 1 .. lastPrice : i \in Prices
    BY <1>d DEF TypeOK, Prices
  <2>3. OffersKept
    BY <1>5, <2>2 DEF OffersKept
  <2>4. r.assigned.price # 0 => r.assigned.price \in Prices
    BY <1>2 DEF PlanRows, Prices
  <2>5. UpdateOK(g)'
    BY <1>1, <1>2, <1>5, <2>1, <2>4 DEF UpdateOK, Priced, Retired, Offer
  <2> QED
    BY <1>1, <2>1, <2>3, <2>5, ListedStill, LMoved
<1>6. CASE Rename(a)
  <2>1. PICK pc \in {"reprice", "save"} : pc = IF r.reprice THEN "reprice" ELSE "save"
    OBVIOUS
  <2>2. /\ r.pc = "rename" /\ Goto(a, pc) /\ UNCHANGED prices
    BY <1>6, <1>r, <2>1 DEF Rename, At
  <2> QED
    BY <1>5, <2>1, <2>2 DEF Retired, Offer
<1>7. CASE RetireProduct(a)
  BY <1>5, <1>7, <1>r DEF RetireProduct, At, Retired, Offer
<1>8. CASE RetirePrice(a)
  <2>1. \A i \in Prices : Offer(prices'[i]) = Offer(prices[i])
    BY <1>d, <1>8 DEF RetirePrice, TypeOK, StripePrices, Offer
  <2> QED
    BY <1>5, <1>8, <1>r, <2>1 DEF RetirePrice, At, Retired
<1>9. CASE FailAdmin(a)
  <2>1. admin' = [admin EXCEPT ![a] = IdleAdmin] /\ UNCHANGED <<prices, lastPrice>>
    BY <1>9 DEF FailAdmin, Finish, stripeVars
  <2>2. OffersKept
    BY <2>1 DEF OffersKept, Offer
  <2> QED
    BY <1>1, <2>1, <2>2, IdleOK, ListedStill, LMoved
<1> QED
  BY <1>3, <1>4, <1>6, <1>7, <1>8, <1>9

\* A checkout reads the row and takes the price with it.
LEMMA CheckoutStep ==
  ASSUME LInv, DInv', NEW s \in Shoppers, ShopperStep(s)
  PROVE  LInv'
<1>d. DInv /\ TypeOK /\ PricesOK
  BY DEF LInv, DInv
<1>1. UNCHANGED <<plans, prices, lastPrice, admin, shown>>
  BY DEF ShopperStep, Checkout, ByCode, EnsureCustomer, OpenSession, FailCheckout, stripeVars,
         historyVars
<1>2. /\ \A c \in Codes : RowListed(c)'
      /\ \A a \in Admins : UpdateOK(admin[a])'
  BY <1>1 DEF LInv, RowListed, Priced, UpdateOK
<1>3. PICK k : /\ shopper' = [shopper EXCEPT ![s] = k]
               /\ k.price # 0 => <<k.code, Offer(prices[k.price])>> \in shown
  <2>1. CASE \E u \in Users, c \in Codes : Checkout(s, u, c)
    <3>1. PICK u \in Users, c \in Codes : Checkout(s, u, c)
      BY <2>1
    <3>2. PICK k : k = [pc |-> "customer", code |-> c, user |-> u, price |-> plans[c].price]
      OBVIOUS
    <3>3. plans[c].price # 0 => <<c, Offer(prices[plans[c].price])>> \in shown
      BY DEF LInv, RowListed, Priced
    <3>4. shopper' = [shopper EXCEPT ![s] = k] /\ k.price = plans[c].price /\ k.code = c
      BY <3>1, <3>2 DEF Checkout, ByCode
    <3> QED
      BY <3>3, <3>4
  <2>2. CASE Leave(s)
    <3>1. PICK k : k = IdleShopper
      OBVIOUS
    <3>2. shopper' = [shopper EXCEPT ![s] = k] /\ k.price = 0
      BY <2>2, <3>1 DEF Leave, IdleShopper
    <3> QED
      BY <3>2
  <2>3. CASE Proceed(s, "session")
    <3>1. PICK k : k = [shopper[s] EXCEPT !.pc = "session"]
      OBVIOUS
    <3>2. shopper[s] \in Checkouts
      BY <1>d DEF TypeOK
    <3>3. k.price = shopper[s].price /\ k.code = shopper[s].code
      BY <3>1, <3>2 DEF CheckoutsShown
    <3> QED
      BY <2>3, <3>1, <3>3 DEF Proceed, LInv, CheckoutsShown
  <2> QED
    BY <2>1, <2>2, <2>3 DEF ShopperStep, EnsureCustomer, OpenSession, FailCheckout
<1>4. CheckoutsShown'
  BY <1>d, <1>1, <1>3 DEF CheckoutsShown, LInv, TypeOK, Offer
<1> QED
  BY <1>2, <1>4 DEF LInv

LEMMA LNext == OneAdminPerPlan /\ LInv /\ [Next]_vars => LInv'
<1> SUFFICES ASSUME OneAdminPerPlan, LInv, [Next]_vars PROVE LInv'
  OBVIOUS
<1>1. DInv /\ DInv'
  BY DNext DEF LInv
<1>2. CASE UNCHANGED vars
  BY <1>1, <1>2 DEF vars, LInv, RowListed, Priced, UpdateOK, CheckoutsShown, Offer
<1>3. ASSUME NEW a \in Admins, AdminStep(a) PROVE LInv'
  <2>1. CASE \E c \in Codes :
               \/ \E row \in Fresh : CreatePlan(a, c, row)
               \/ \E fields \in SUBSET Settable, body \in Fresh : UpdatePlan(a, c, fields, body)
               \/ SoftDeletePlan(a, c)
    BY <1>1, <2>1, BeginStep
  <2> QED
    BY <1>1, <1>3, <2>1, CommitStep, StripeStep DEF AdminStep
<1> QED
  BY <1>1, <1>2, <1>3, CheckoutStep DEF Next

LEMMA LInit == Init => LInv
<1> SUFFICES ASSUME Init PROVE LInv
  OBVIOUS
<1>1. DInv
  BY InitInv
<1>2. \A c \in Codes : RowListed(c)
  BY NoRowType DEF Init, RowListed, Priced
<1>3. \A a \in Admins : UpdateOK(admin[a])
  BY IdleOK DEF Init
<1>4. CheckoutsShown
  BY DEF Init, CheckoutsShown, IdleShopper
<1> QED
  BY <1>1, <1>2, <1>3, <1>4 DEF LInv

LEMMA ListInv == Spec /\ []OneAdminPerPlan => []LInv
BY LNext, LInit, PTL DEF Spec

\* While no two admin requests work on one plan at once, wherever requests fail, the price Stripe
\* holds for a plan is the price its row shows.
THEOREM PriceListed == Spec /\ []OneAdminPerPlan => []PriceAsListed
<1>1. LInv => PriceAsListed
  BY DEF LInv, RowListed, Priced, PriceAsListed
<1> QED
  BY <1>1, ListInv, PTL

LEMMA ListStep ==
  ASSUME LInv, LInv', [Next]_vars
  PROVE  [ShownPrices!Next]_<<shown, sold, deleted>>
<1>d. DInv /\ TypeOK /\ PricesOK /\ DeletedOK
  BY DEF LInv, DInv
<1>1. CASE UNCHANGED <<shown, sold, deleted>>
  BY <1>1
<1>2. ASSUME NEW a \in Admins, InsertPlan(a) \/ SaveIds(a) \/ SaveUpdate(a)
      PROVE  [ShownPrices!Next]_<<shown, sold, deleted>>
  <2>1. PICK c \in Codes, row \in PlanRows : Commit(c, row)
    BY <1>d, <1>2, Request, FlushType DEF InsertPlan, SaveIds, SaveUpdate, Save
  <2>2. Offer(row) \in Offers /\ shown' = shown \cup {<<c, Offer(row)>>}
    BY <2>1, OfferType DEF Commit
  <2>3. UNCHANGED <<sold, deleted>>
    BY <1>2 DEF InsertPlan, SaveIds, SaveUpdate, Save
  <2>4. ShownPrices!Show(c, Offer(row))
    BY <2>2, <2>3 DEF ShownPrices!Show
  <2> QED
    BY <2>2, <2>4 DEF ShownPrices!Next
<1>3. ASSUME NEW a \in Admins, MarkDeleted(a)
      PROVE  [ShownPrices!Next]_<<shown, sold, deleted>>
  <2>r. PICK r : r = admin[a]
    OBVIOUS
  <2>row. PICK row : row = Flush(plans[r.code], r.loaded, r.assigned)
    OBVIOUS
  <2>1. /\ r.pc = "mark" /\ shown' = shown \cup {<<r.code, Offer(row)>>}
        /\ deleted' = deleted \cup {r.code} /\ sold' = sold
    BY <1>3, <2>r, <2>row DEF MarkDeleted, At, Commit
  <2>2. r.code \in Codes /\ plans[r.code] \in PlanRows /\ UpdateOK(r)
    BY <1>d, <2>r, Request DEF LInv
  <2>3. /\ row = [r.assigned EXCEPT !.stored = plans[r.code].stored]
        /\ plans[r.code].stored /\ r.loaded = plans[r.code]
    BY <2>r, <2>row, <2>1, Written
  <2>4. r.assigned = [plans[r.code] EXCEPT !.active = FALSE]
    BY <2>1, <2>2, <2>3 DEF UpdateOK, Retired
  <2>5. Offer(row) = Offer(plans[r.code])
    BY <2>2, <2>3, <2>4 DEF Offer, PlanRows
  <2>6. shown' = shown
    BY <2>1, <2>2, <2>3, <2>5 DEF LInv, RowListed
  <2>7. ShownPrices!Withdraw(r.code)
    BY <2>1, <2>6 DEF ShownPrices!Withdraw
  <2> QED
    BY <2>2, <2>7 DEF ShownPrices!Next
<1>4. ASSUME NEW s \in Shoppers, OpenSession(s)
      PROVE  [ShownPrices!Next]_<<shown, sold, deleted>>
  <2>1. PICK c, i : c = shopper[s].code /\ i = shopper[s].price
    OBVIOUS
  <2>2. /\ i # 0 /\ products[prices[i].code].state = "active"
        /\ sold' = sold \cup {<<c, Offer(prices[i])>>}
        /\ UNCHANGED <<shown, deleted>>
    BY <1>4, <2>1 DEF OpenSession
  <2>3. prices[i].code = c /\ c \in Codes /\ i \in Prices
    BY <1>d, <2>1, <2>2 DEF PricesOK, PriceOf, TypeOK, Checkouts, Prices
  <2>4. c \notin deleted /\ <<c, Offer(prices[i])>> \in shown
    BY <1>d, <2>1, <2>2, <2>3 DEF DeletedOK, LInv, CheckoutsShown
  <2>5. Offer(prices[i]) \in Offers
    BY <1>d, <2>3 DEF TypeOK, StripePrices, Offer, Offers
  <2>6. ShownPrices!Sell(c, Offer(prices[i]))
    BY <2>2, <2>4 DEF ShownPrices!Sell
  <2> QED
    BY <2>3, <2>5, <2>6 DEF ShownPrices!Next
<1> QED
  BY <1>1, <1>2, <1>3, <1>4 DEF vars, historyVars, Next, AdminStep, ShopperStep, CreatePlan,
     CreateProduct, CreatePrice, NewPrice, UpdatePlan, Rename, Reprice, SoftDeletePlan,
     RetireProduct, RetirePrice, FailAdmin, Checkout, EnsureCustomer, FailCheckout

\* While no two admin requests work on one plan at once, nobody is charged a
\* price that was not on show for the plan, and no withdrawn plan is sold.
THEOREM ListImplemented == Spec /\ []OneAdminPerPlan => ImplementsPriceList
<1>1. Init => ShownPrices!Init
  BY DEF Init, ShownPrices!Init
<1>2. LInv /\ LInv' /\ [Next]_vars => [ShownPrices!Next]_<<shown, sold, deleted>>
  BY ListStep
<1> QED
  BY <1>1, <1>2, ListInv, PTL DEF Spec, ImplementsPriceList, ShownPrices!Spec
=============================================================================
