--------------------------- MODULE PlanGuarantees ---------------------------
(***************************************************************************)
(* What checkouts may charge however many admin requests overlap.          *)
(***************************************************************************)
EXTENDS PlanProofs

USE PlanAssumption

-----------------------------------------------------------------------------
(* One step of a request.                                                  *)

LEMMA AdvertisedKept ==
  ASSUME shown \subseteq shown', NEW c, NEW o, Advertised(c, o)
  PROVE  Advertised(c, o)'
BY DEF Advertised

LEMMA PriceShownKept ==
  ASSUME TypeOK, OffersKept, shown \subseteq shown', lastPrice <= lastPrice',
         NEW c, NEW i \in 0 .. lastPrice, PriceShown(c, i)
  PROVE  PriceShown(c, i)'
<1>o. PICK o : o = Offer(prices[i])
  OBVIOUS
<1>1. CASE i = 0
  BY <1>1 DEF PriceShown
<1>2. CASE i # 0
  <2>1. i \in 1 .. lastPrice
    BY <1>2 DEF TypeOK
  <2>2. Offer(prices'[i]) = o /\ Advertised(c, o)
    BY <1>o, <1>2, <2>1 DEF PriceShown, OffersKept
  <2>3. Advertised(c, o)'
    BY <2>2, AdvertisedKept
  <2> QED
    BY <2>2, <2>3 DEF PriceShown, Advertised, Offer
<1> QED
  BY <1>1, <1>2

\* What a step of one request has to keep for the others and for checkouts.
LEMMA AMoved ==
  ASSUME AInv, DInv', NEW a \in Admins, NEW g,
         admin' = [admin EXCEPT ![a] = g],
         OffersKept, lastPrice <= lastPrice', shown \subseteq shown',
         UNCHANGED <<shopper, sold>>,
         \A c \in Codes : RowShown(c)',
         RequestShown(g)'
  PROVE  AInv'
<1>1. DInv /\ TypeOK /\ PricesOK
  BY DEF AInv, DInv
<1>2. \A b \in Admins : admin'[b] = IF b = a THEN g ELSE admin[b]
  BY <1>1 DEF TypeOK
<1>3. \A b \in Admins : RequestShown(admin[b])'
  <2> TAKE b \in Admins
  <2>1. CASE b = a
    BY <1>2, <2>1 DEF RequestShown, Offer
  <2>2. CASE b # a
    <3>r. PICK r : r = admin[b]
      OBVIOUS
    <3>1. /\ admin'[b] = r /\ r.assigned \in PlanRows /\ RequestShown(r)
          /\ PriceOf(r.code, r.assigned.price)
      BY <1>1, <1>2, <2>2, <3>r, Request DEF AInv
    <3>2. r.assigned.price # 0 => r.assigned.price \in 1 .. lastPrice
      BY <1>1, <3>1 DEF PriceOf, PlanRows, TypeOK
    <3>3. RequestShown(r)'
      BY <3>1, <3>2 DEF RequestShown, OffersKept, Offer
    <3> QED
      BY <3>1, <3>3 DEF RequestShown, Offer
  <2> QED
    BY <2>1, <2>2
<1>4. \A s \in Shoppers : PriceShown(shopper[s].code, shopper[s].price)'
  <2> TAKE s \in Shoppers
  <2>1. PICK c, i : c = shopper[s].code /\ i = shopper[s].price
    OBVIOUS
  <2>2. i \in 0 .. lastPrice /\ PriceShown(c, i)
    BY <1>1, <2>1 DEF AInv, TypeOK, Checkouts, PricesOK, PriceOf
  <2>3. PriceShown(c, i)'
    BY <1>1, <2>2, PriceShownKept
  <2> QED
    BY <2>1, <2>3 DEF PriceShown, Advertised, Offer
<1>5. PartsShown'
  BY AdvertisedKept DEF AInv, PartsShown
<1> QED
  BY <1>3, <1>4, <1>5 DEF AInv

\* Rows that are left alone.
LEMMA ShownStill ==
  ASSUME AInv, OffersKept, lastPrice <= lastPrice', shown \subseteq shown'
  PROVE  \A c \in Codes : plans'[c] = plans[c] => RowShown(c)'
<1>1. DInv /\ TypeOK
  BY DEF AInv, DInv
<1> TAKE c \in Codes
<1> HAVE plans'[c] = plans[c]
<1>2. PICK i : i = plans[c].price
  OBVIOUS
<1>3. plans[c] \in PlanRows /\ PriceOf(c, i) /\ RowShown(c) /\ lastPrice \in Nat
  BY <1>1, <1>2 DEF AInv, DInv, PricesOK, TypeOK
<1>4. i \in 0 .. lastPrice /\ PriceShown(c, i)
  BY <1>2, <1>3 DEF PlanRows, PriceOf, RowShown
<1>5. PriceShown(c, i)'
  BY <1>1, <1>4, PriceShownKept
<1> QED
  BY <1>2, <1>3, <1>5 DEF RowShown, PriceShown, Advertised, Offer

LEMMA RequestShownIdle == RequestShown(IdleAdmin) /\ RequestShown(IdleAdmin)'
BY Idle DEF RequestShown

\* A commit shows the row it writes, and the values it kept were shown before.
LEMMA CommitShown ==
  ASSUME AInv, NEW a \in Admins, NEW r, r = admin[a], r.pc \notin {"idle", "insert"},
         Commit(r.code, Flush(plans[r.code], r.loaded, r.assigned)),
         UNCHANGED <<prices, lastPrice>>
  PROVE  \A c \in Codes : RowShown(c)'
<1>1. DInv /\ TypeOK
  BY DEF AInv, DInv
<1>2. /\ r.code \in Codes /\ r.assigned \in PlanRows /\ r.loaded \in PlanRows
      /\ plans[r.code] \in PlanRows /\ RequestShown(r) /\ RowShown(r.code)
      /\ PriceOf(r.code, r.assigned.price)
  BY <1>1, Request DEF AInv
<1>row. PICK row : row = Flush(plans[r.code], r.loaded, r.assigned)
  OBVIOUS
<1>3. /\ row \in PlanRows
      /\ row.price = Keep(plans[r.code].price, r.loaded.price, r.assigned.price)
      /\ row.amount = Keep(plans[r.code].amount, r.loaded.amount, r.assigned.amount)
      /\ row.currency = Keep(plans[r.code].currency, r.loaded.currency, r.assigned.currency)
  BY <1>2, <1>row, FlushType DEF Flush
<1>4. /\ shown' = shown \cup {<<r.code, Offer(row)>>}
      /\ \A c \in Codes : plans'[c] = IF c = r.code THEN row ELSE plans[c]
  BY <1>1, <1>row DEF Commit, TypeOK
<1>5. OffersKept /\ lastPrice <= lastPrice'
  BY <1>1 DEF OffersKept, Offer, TypeOK
<1>6. Offer(row) \in Offers /\ Offer(r.loaded) \in Offers
  BY <1>2, <1>3, OfferType
<1>7. PriceShown(r.code, row.price)'
  <2>1. CASE r.assigned.price = r.loaded.price
    <3>1. row.price = plans[r.code].price
      BY <1>3, <2>1 DEF Keep
    <3>2. PriceShown(r.code, row.price)
      BY <1>2, <3>1 DEF RowShown
    <3> QED
      BY <1>4, <3>2, AdvertisedKept DEF PriceShown
  <2>2. CASE r.assigned.price # r.loaded.price
    <3>p. PICK p : p = Offer(prices[row.price])
      OBVIOUS
    <3>1. p = Offer(r.assigned)
      BY <1>2, <1>3, <2>2, <3>p DEF Keep, RequestShown
    <3>2. /\ <<r.code, Offer(r.loaded)>> \in shown' /\ <<r.code, Offer(row)>> \in shown'
      BY <1>2, <1>4 DEF RequestShown
    <3>3. p.amount = Offer(r.loaded).amount \/ p.amount = Offer(row).amount
      BY <1>3, <3>1 DEF Offer, Keep
    <3>4. p.currency = Offer(r.loaded).currency \/ p.currency = Offer(row).currency
      BY <1>3, <3>1 DEF Offer, Keep
    <3>5. /\ \E m \in Offers : <<r.code, m>> \in shown' /\ m.amount = p.amount
          /\ \E m \in Offers : <<r.code, m>> \in shown' /\ m.currency = p.currency
      BY <1>6, <3>2, <3>3, <3>4
    <3> QED
      BY <3>p, <3>5 DEF PriceShown, Advertised, Offer
  <2> QED
    BY <2>1, <2>2
<1>8. RowShown(r.code)'
  BY <1>2, <1>4, <1>7 DEF RowShown, PriceShown, Advertised
<1> QED
  BY <1>4, <1>5, <1>8, ShownStill

-----------------------------------------------------------------------------
(* The steps of admin requests.                                            *)

\* The steps that begin a request.
LEMMA BeginShown ==
  ASSUME AInv, DInv', NEW a \in Admins, NEW c \in Codes,
         \/ \E row \in Fresh : CreatePlan(a, c, row)
         \/ \E fields \in SUBSET Settable, body \in Fresh : UpdatePlan(a, c, fields, body)
         \/ SoftDeletePlan(a, c)
  PROVE  AInv'
<1>1. DInv /\ TypeOK
  BY DEF AInv, DInv
<1>2. UNCHANGED <<plans, prices, lastPrice, shopper, shown, sold>>
  BY DEF CreatePlan, UpdatePlan, SoftDeletePlan, stripeVars, historyVars
<1>3. OffersKept /\ lastPrice <= lastPrice'
  BY <1>1, <1>2 DEF OffersKept, Offer, TypeOK
<1>4. plans[c] \in PlanRows /\ RowShown(c)
  BY <1>1, Request DEF AInv
<1>5. PICK g : admin' = [admin EXCEPT ![a] = g] /\ RequestShown(g)
  <2>1. CASE \E row \in Fresh : CreatePlan(a, c, row)
    <3>1. PICK row \in Fresh : CreatePlan(a, c, row)
      BY <2>1
    <3>2. PICK g : g = [IdleAdmin EXCEPT !.pc = "insert", !.code = c,
                                         !.loaded = row, !.assigned = row]
      OBVIOUS
    <3>3. g.pc = "insert" /\ g.loaded = row /\ g.assigned = row
      BY <3>2, IdleTypes DEF AdminRequests
    <3>4. RequestShown(g)
      BY <3>3 DEF RequestShown, Fresh
    <3> QED
      BY <3>1, <3>2, <3>4 DEF CreatePlan, Begin
  <2>2. CASE \E fields \in SUBSET Settable, body \in Fresh : UpdatePlan(a, c, fields, body)
    <3>1. PICK fields \in SUBSET Settable, body \in Fresh : UpdatePlan(a, c, fields, body)
      BY <2>2
    <3>2. PICK new : new = Requested(plans[c], fields, body)
      OBVIOUS
    <3>3. PICK g : g = [pc |-> IF "name" \in fields THEN "rename"
                               ELSE IF Repriced(fields) THEN "reprice" ELSE "save",
                        code |-> c, loaded |-> plans[c], assigned |-> new,
                        reprice |-> Repriced(fields)]
      OBVIOUS
    <3>4. plans[c].stored /\ admin' = [admin EXCEPT ![a] = g]
      BY <3>1, <3>2, <3>3 DEF UpdatePlan, Begin
    <3>5. new.price = plans[c].price
      BY <1>4, <3>2, RequestedType DEF Fresh
    <3>6. RequestShown(g)
      BY <1>4, <3>3, <3>4, <3>5 DEF RequestShown, RowShown
    <3> QED
      BY <3>4, <3>6
  <2>3. CASE SoftDeletePlan(a, c)
    <3>1. PICK g : g = [IdleAdmin EXCEPT !.pc = "retire_product", !.code = c,
                          !.loaded = plans[c], !.assigned = [plans[c] EXCEPT !.active = FALSE]]
      OBVIOUS
    <3>2. plans[c].stored /\ admin' = [admin EXCEPT ![a] = g]
      BY <2>3, <3>1 DEF SoftDeletePlan, Begin
    <3>3. /\ g.pc = "retire_product" /\ g.code = c /\ g.loaded = plans[c]
          /\ g.assigned.price = plans[c].price
      BY <1>4, <3>1, IdleTypes DEF AdminRequests, PlanRows
    <3>4. RequestShown(g)
      BY <1>4, <3>2, <3>3 DEF RequestShown, RowShown
    <3> QED
      BY <3>2, <3>4
  <2> QED
    BY <2>1, <2>2, <2>3
<1>6. RequestShown(g)'
  BY <1>2, <1>5 DEF RequestShown, Offer
<1>7. \A d \in Codes : RowShown(d)'
  BY <1>2, <1>3, ShownStill
<1> QED
  BY <1>2, <1>3, <1>5, <1>6, <1>7, AMoved

\* The steps that commit a row.
LEMMA CommitStepShown ==
  ASSUME AInv, DInv', NEW a \in Admins,
         InsertPlan(a) \/ SaveIds(a) \/ SaveUpdate(a) \/ MarkDeleted(a)
  PROVE  AInv'
<1>1. DInv /\ TypeOK
  BY DEF AInv, DInv
<1>r. PICK r : r = admin[a]
  OBVIOUS
<1>2. /\ r.code \in Codes /\ r.assigned \in PlanRows /\ RequestOK(r) /\ RequestShown(r)
      /\ r \in AdminRequests
  BY <1>1, <1>r, Request DEF AInv
<1>3. UNCHANGED <<prices, lastPrice, shopper, sold>> /\ shown \subseteq shown'
  BY DEF InsertPlan, SaveIds, SaveUpdate, Save, MarkDeleted, Commit, stripeVars
<1>4. OffersKept /\ lastPrice <= lastPrice'
  BY <1>1, <1>3 DEF OffersKept, Offer, TypeOK
<1>5. CASE InsertPlan(a)
  <2>g. PICK g : g = [r EXCEPT !.pc = "product"]
    OBVIOUS
  <2>1. /\ r.pc = "insert" /\ Commit(r.code, r.assigned)
        /\ admin' = [admin EXCEPT ![a] = g]
    BY <1>5, <1>r, <2>g DEF InsertPlan, At, Goto
  <2>2. r.assigned = r.loaded /\ g.pc = "product" /\ g.code = r.code
        /\ g.loaded = r.loaded /\ g.assigned = r.assigned
    BY <1>2, <2>1, <2>g DEF RequestShown, AdminRequests
  <2>3. shown' = shown \cup {<<r.code, Offer(r.assigned)>>}
    BY <2>1 DEF Commit
  <2>4. RequestShown(g)'
    BY <2>2, <2>3 DEF RequestShown
  <2>5. \A c \in Codes : plans'[c] = IF c = r.code THEN r.assigned ELSE plans[c]
    BY <1>1, <2>1 DEF Commit, TypeOK
  <2>6. plans'[r.code].price = 0
    BY <1>2, <2>1, <2>5 DEF RequestShown
  <2>7. RowShown(r.code)'
    BY <1>2, <2>3, <2>5, <2>6 DEF RowShown, PriceShown
  <2> QED
    BY <1>3, <1>4, <2>1, <2>4, <2>5, <2>7, ShownStill, AMoved
<1>6. CASE SaveIds(a) \/ SaveUpdate(a) \/ MarkDeleted(a)
  <2>1. /\ r.pc \in {"save_ids", "save", "mark"}
        /\ Commit(r.code, Flush(plans[r.code], r.loaded, r.assigned))
        /\ admin' = [admin EXCEPT ![a] = IdleAdmin]
    BY <1>6, <1>r DEF SaveIds, SaveUpdate, Save, MarkDeleted, At, Finish
  <2>2. \A c \in Codes : RowShown(c)'
    BY <1>3, <1>r, <2>1, CommitShown
  <2> QED
    BY <1>3, <1>4, <2>1, <2>2, RequestShownIdle, AMoved
<1> QED
  BY <1>5, <1>6

\* The steps at Stripe, and the end of a request.
LEMMA StripeShown ==
  ASSUME AInv, DInv', NEW a \in Admins,
         \/ CreateProduct(a) \/ CreatePrice(a) \/ Rename(a) \/ Reprice(a)
         \/ RetireProduct(a) \/ RetirePrice(a) \/ FailAdmin(a)
  PROVE  AInv'
<1>1. DInv /\ TypeOK
  BY DEF AInv, DInv
<1>r. PICK r : r = admin[a]
  OBVIOUS
<1>2. /\ r \in AdminRequests /\ r.assigned \in PlanRows /\ r.loaded \in PlanRows
      /\ RequestShown(r) /\ PriceOf(r.code, r.loaded.price)
  BY <1>1, <1>r, Request DEF AInv
<1>3. UNCHANGED <<plans, shopper, shown, sold>>
  BY DEF CreateProduct, CreatePrice, NewPrice, Rename, Reprice, RetireProduct, RetirePrice,
         FailAdmin, historyVars
<1>4. ASSUME OffersKept, lastPrice <= lastPrice', NEW g,
             admin' = [admin EXCEPT ![a] = g], RequestShown(g)'
      PROVE  AInv'
  BY <1>3, <1>4, ShownStill, AMoved
<1>5. CASE CreateProduct(a)
  <2>g. PICK g : g = [r EXCEPT !.pc = "price", !.assigned.product = TRUE]
    OBVIOUS
  <2>1. /\ r.pc = "product" /\ admin' = [admin EXCEPT ![a] = g]
        /\ UNCHANGED <<prices, lastPrice>>
    BY <1>5, <1>r, <2>g DEF CreateProduct, At
  <2>2. /\ g.pc = "price" /\ g.code = r.code /\ g.loaded = r.loaded
        /\ g.assigned = [r.assigned EXCEPT !.product = TRUE]
    BY <1>2, <2>g DEF AdminRequests
  <2>3. g.assigned.price = r.assigned.price /\ Offer(g.assigned) = Offer(r.assigned)
    BY <1>2, <2>2 DEF PlanRows, Offer
  <2>4. RequestShown(g)'
    BY <1>2, <1>3, <2>1, <2>2, <2>3 DEF RequestShown, Offer
  <2>5. OffersKept /\ lastPrice <= lastPrice'
    BY <1>1, <2>1 DEF OffersKept, Offer, TypeOK
  <2> QED
    BY <1>4, <2>1, <2>4, <2>5
<1>6. CASE CreatePrice(a) \/ Reprice(a)
  <2>n. PICK n : n = lastPrice + 1
    OBVIOUS
  <2>pc. PICK pc \in {"save_ids", "save"} : \E i : NewPrice(a, i, pc)
    BY <1>6 DEF CreatePrice, Reprice
  <2>i. PICK interval : NewPrice(a, interval, pc)
    BY <2>pc
  <2>g. PICK g : g = [r EXCEPT !.pc = pc, !.assigned.price = n]
    OBVIOUS
  <2>1. /\ r.pc \in {"price", "reprice"} /\ admin' = [admin EXCEPT ![a] = g]
        /\ lastPrice < MaxPrices /\ lastPrice' = n
        /\ prices' = [prices EXCEPT ![n] =
             [code |-> r.code, amount |-> r.assigned.amount,
              currency |-> r.assigned.currency, interval |-> interval, active |-> TRUE]]
    BY <1>6, <1>r, <2>n, <2>i, <2>g DEF CreatePrice, Reprice, NewPrice, At
  <2>2. n \in Prices /\ n \in Nat /\ lastPrice \in Nat /\ lastPrice < n
    BY <1>1, <2>n, <2>1 DEF TypeOK, Prices
  <2>3. OffersKept /\ lastPrice <= lastPrice'
    BY <1>1, <2>1, <2>2 DEF OffersKept, TypeOK
  <2>4. Offer(prices'[n]) = Offer(r.assigned)
    BY <1>1, <2>1, <2>2 DEF TypeOK, Offer
  <2>5. /\ g.pc = pc /\ g.code = r.code /\ g.loaded = r.loaded
        /\ g.assigned = [r.assigned EXCEPT !.price = n]
    BY <1>2, <2>g DEF AdminRequests
  <2>6. g.assigned.price = n /\ Offer(g.assigned) = Offer(r.assigned) /\ n # 0
    BY <1>2, <2>2, <2>5 DEF PlanRows, Offer
  <2>7. RequestShown(g)'
    BY <1>2, <1>3, <2>1, <2>4, <2>5, <2>6 DEF RequestShown, Offer
  <2> QED
    BY <1>4, <2>1, <2>3, <2>7
<1>7. ASSUME NEW pc \in {"reprice", "save", "retire_price", "mark"}, Goto(a, pc),
             r.pc \notin {"idle", "insert"},
             \A i \in Prices : Offer(prices'[i]) = Offer(prices[i]), UNCHANGED lastPrice
      PROVE  AInv'
  <2>g. PICK g : g = [r EXCEPT !.pc = pc]
    OBVIOUS
  <2>1. /\ g.pc = pc /\ g.code = r.code /\ g.loaded = r.loaded /\ g.assigned = r.assigned
        /\ admin' = [admin EXCEPT ![a] = g]
    BY <1>2, <1>7, <1>r, <2>g DEF AdminRequests, Goto
  <2>2. OffersKept /\ lastPrice <= lastPrice'
    BY <1>1, <1>7 DEF OffersKept, TypeOK, Prices
  <2>3. r.assigned.price # 0 => r.assigned.price \in Prices
    BY <1>2 DEF PlanRows, Prices
  <2>4. RequestShown(g)'
    BY <1>2, <1>3, <1>7, <2>1, <2>3 DEF RequestShown, Offer
  <2> QED
    BY <1>4, <2>1, <2>2, <2>4
<1>8. CASE Rename(a) \/ RetireProduct(a)
  <2>1. PICK pc \in {"reprice", "save", "retire_price"} : Goto(a, pc)
    BY <1>8 DEF Rename, RetireProduct
  <2> QED
    BY <1>7, <1>8, <1>r, <2>1 DEF Rename, RetireProduct, At, Offer
<1>9. CASE RetirePrice(a)
  <2>1. \A i \in Prices : Offer(prices'[i]) = Offer(prices[i])
    BY <1>1, <1>9 DEF RetirePrice, TypeOK, StripePrices, Offer
  <2> QED
    BY <1>7, <1>9, <1>r, <2>1 DEF RetirePrice, At
<1>10. CASE FailAdmin(a)
  <2>1. admin' = [admin EXCEPT ![a] = IdleAdmin] /\ UNCHANGED <<prices, lastPrice>>
    BY <1>10 DEF FailAdmin, Finish, stripeVars
  <2>2. OffersKept /\ lastPrice <= lastPrice'
    BY <1>1, <2>1 DEF OffersKept, Offer, TypeOK
  <2> QED
    BY <1>4, <2>1, <2>2, RequestShownIdle
<1> QED
  BY <1>5, <1>6, <1>8, <1>9, <1>10

-----------------------------------------------------------------------------
(* Checkouts.                                                              *)

LEMMA CheckoutShown ==
  ASSUME AInv, DInv', NEW s \in Shoppers, ShopperStep(s)
  PROVE  AInv'
<1>1. DInv /\ TypeOK /\ PricesOK
  BY DEF AInv, DInv
<1>2. UNCHANGED <<plans, prices, lastPrice, admin, shown>>
  BY DEF ShopperStep, Checkout, ByCode, EnsureCustomer, OpenSession, FailCheckout, stripeVars,
         historyVars
<1>3. /\ \A c \in Codes : RowShown(c)'
      /\ \A a \in Admins : RequestShown(admin[a])'
  BY <1>2 DEF AInv, RowShown, RequestShown, PriceShown, Advertised, Offer
<1>4. PICK k : shopper' = [shopper EXCEPT ![s] = k] /\ PriceShown(k.code, k.price)
  <2>1. CASE \E u \in Users, c \in Codes : Checkout(s, u, c)
    <3>1. PICK u \in Users, c \in Codes : Checkout(s, u, c)
      BY <2>1
    <3>2. PICK k : k = [pc |-> "customer", code |-> c, user |-> u, price |-> plans[c].price]
      OBVIOUS
    <3>3. k.price = plans[c].price /\ k.code = c /\ shopper' = [shopper EXCEPT ![s] = k]
      BY <3>1, <3>2 DEF Checkout
    <3> QED
      BY <3>3 DEF AInv, RowShown
  <2>2. CASE Leave(s)
    <3>1. PICK k : k = IdleShopper
      OBVIOUS
    <3>2. shopper' = [shopper EXCEPT ![s] = k] /\ k.price = 0
      BY <2>2, <3>1 DEF Leave, IdleShopper
    <3> QED
      BY <3>2 DEF PriceShown
  <2>3. CASE Proceed(s, "session")
    <3>1. PICK k : k = [shopper[s] EXCEPT !.pc = "session"]
      OBVIOUS
    <3>2. k.price = shopper[s].price /\ k.code = shopper[s].code
      BY <1>1, <3>1 DEF TypeOK, Checkouts
    <3> QED
      BY <2>3, <3>1, <3>2 DEF Proceed, AInv
  <2> QED
    BY <2>1, <2>2, <2>3 DEF ShopperStep, EnsureCustomer, OpenSession, FailCheckout
<1>5. \A t \in Shoppers : PriceShown(shopper[t].code, shopper[t].price)'
  <2>1. \A t \in Shoppers : shopper'[t] = IF t = s THEN k ELSE shopper[t]
    BY <1>1, <1>4 DEF TypeOK
  <2>2. \A t \in Shoppers : PriceShown(shopper'[t].code, shopper'[t].price)
    BY <1>4, <2>1 DEF AInv
  <2> QED
    BY <1>2, <2>2 DEF PriceShown, Advertised, Offer
<1>6. PartsShown'
  <2>1. CASE sold' = sold
    BY <1>2, <2>1 DEF AInv, PartsShown, Advertised
  <2>2. CASE OpenSession(s)
    <3>1. PICK c, o : /\ sold' = sold \cup {<<c, o>>} /\ Advertised(c, o)
      <4>1. PICK c, i : c = shopper[s].code /\ i = shopper[s].price
        OBVIOUS
      <4>2. i # 0 /\ sold' = sold \cup {<<c, Offer(prices[i])>>}
        BY <2>2, <4>1 DEF OpenSession
      <4>3. Advertised(c, Offer(prices[i]))
        BY <4>1, <4>2 DEF AInv, PriceShown
      <4> QED
        BY <4>2, <4>3
    <3> QED
      BY <1>2, <3>1 DEF AInv, PartsShown, Advertised
  <2> QED
    BY <2>1, <2>2 DEF ShopperStep, Checkout, EnsureCustomer, FailCheckout, historyVars
<1> QED
  BY <1>3, <1>5, <1>6 DEF AInv

-----------------------------------------------------------------------------
(* Every reachable state.                                                  *)

LEMMA ANext == AInv /\ [Next]_vars => AInv'
<1> SUFFICES ASSUME AInv, [Next]_vars PROVE AInv'
  OBVIOUS
<1>1. DInv /\ DInv'
  BY DNext DEF AInv
<1>2. CASE UNCHANGED vars
  <2>1. /\ \A c \in Codes : RowShown(c)'
        /\ \A s \in Shoppers : PriceShown(shopper[s].code, shopper[s].price)'
    BY <1>2 DEF vars, AInv, RowShown, PriceShown, Advertised, Offer
  <2>2. \A a \in Admins : RequestShown(admin[a])'
    BY <1>2 DEF vars, AInv, RequestShown, Offer
  <2>3. PartsShown'
    BY <1>2 DEF vars, AInv, PartsShown, Advertised
  <2> QED
    BY <1>1, <2>1, <2>2, <2>3 DEF AInv
<1>3. ASSUME NEW a \in Admins, AdminStep(a) PROVE AInv'
  <2>1. CASE \E c \in Codes :
               \/ \E row \in Fresh : CreatePlan(a, c, row)
               \/ \E fields \in SUBSET Settable, body \in Fresh : UpdatePlan(a, c, fields, body)
               \/ SoftDeletePlan(a, c)
    BY <1>1, <2>1, BeginShown
  <2> QED
    BY <1>1, <1>3, <2>1, CommitStepShown, StripeShown DEF AdminStep
<1> QED
  BY <1>1, <1>2, <1>3, CheckoutShown DEF Next

LEMMA AInit == Init => AInv
<1> SUFFICES ASSUME Init PROVE AInv
  OBVIOUS
<1>1. DInv
  BY InitInv
<1>2. \A c \in Codes : RowShown(c)
  BY NoRowType DEF Init, RowShown, PriceShown
<1>3. \A a \in Admins : RequestShown(admin[a])
  BY RequestShownIdle DEF Init
<1>4. \A s \in Shoppers : PriceShown(shopper[s].code, shopper[s].price)
  BY DEF Init, PriceShown, IdleShopper
<1>5. PartsShown
  BY DEF Init, PartsShown
<1> QED
  BY <1>1, <1>2, <1>3, <1>4, <1>5 DEF AInv

\* However many admin requests work on a plan at once, and wherever they fail, a
\* customer pays an amount and a currency that the plan's row has shown.
THEOREM ChargedAsShown == Spec => []PartsShown
<1>1. AInv => PartsShown
  BY DEF AInv
<1> QED
  BY <1>1, AInit, ANext, PTL DEF Spec
=============================================================================
