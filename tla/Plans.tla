-------------------------------- MODULE Plans --------------------------------
(***************************************************************************)
(* Plans: PlanService (src/src/billing/service.py) over the plans table,   *)
(* the Stripe product and prices behind a plan (StripeGateway), and the    *)
(* checkouts that sell it.                                                 *)
(*                                                                         *)
(* Every Stripe call and every commit of a request is a step of its own,   *)
(* and a request may end after any step: the process is killed, the        *)
(* database fails, or Stripe raises, also after it has done what it was    *)
(* asked.  Admin requests and checkouts run concurrently.                  *)
(***************************************************************************)
EXTENDS Naturals

CONSTANTS
  Codes,            \* plan codes; a row is known by its code, which is unique
  Names, Amounts, Currencies, Periods,
  StripeIntervals,  \* recurring.interval: what Stripe's API takes
  MaxPrices,        \* bound on prices created at Stripe
  Admins,           \* admin requests in flight
  Shoppers,         \* checkout requests in flight
  Users,
  Customers,        \* users whose row has a stripe_customer_id
  MaxCustomers      \* bound on the customers counted per user

ASSUME PlanAssumption ==
  /\ Codes # {} /\ Names # {} /\ Amounts # {} /\ Currencies # {} /\ Periods # {}
  /\ Users # {}
  /\ MaxPrices \in Nat
  /\ MaxCustomers \in Nat
  /\ Customers \subseteq Users

VARIABLES
  plans,      \* table plans
  products,   \* Stripe's products: at most one per plan is ever created
  prices,     \* Stripe's prices, numbered in the order of creation
  lastPrice,
  customers,  \* how many customers Stripe has been told to create for a user
  admin,      \* the admin requests in flight
  shopper,    \* the checkouts in flight
  shown,      \* what a plan's row has ever said it costs
  sold,       \* what checkout sessions were opened for
  deleted     \* plans whose deletion was answered 204

vars == <<plans, products, prices, lastPrice, customers, admin, shopper,
          shown, sold, deleted>>
stripeVars == <<products, prices, lastPrice>>
historyVars == <<shown, sold, deleted>>

-----------------------------------------------------------------------------
(* Rows and what Stripe keeps.                                             *)

Prices == 1 .. MaxPrices

\* product: stripe_product_id is set; price: stripe_price_id, 0 for NULL
PlanRows == [stored : BOOLEAN, name : Names, amount : Amounts, currency : Currencies,
             period : Periods, active : BOOLEAN, product : BOOLEAN, price : 0 .. MaxPrices]

NoRow == CHOOSE r \in PlanRows : ~r.stored /\ ~r.product /\ r.price = 0

\* The row a create request asks for
Fresh == {r \in PlanRows : r.stored /\ ~r.product /\ r.price = 0}

Products == [state : {"none", "active", "inactive"}, name : Names]

\* What recurring.interval is set to: create_plan sends "month" for every plan,
\* update_plan the billing period itself.
Intervals == {"month"} \cup Periods

StripePrices == [code : Codes, amount : Amounts, currency : Currencies,
                 interval : Intervals, active : BOOLEAN]

Offers == [amount : Amounts, currency : Currencies]
Offer(r) == [amount |-> r.amount, currency |-> r.currency]

\* UPDATE of the columns whose assigned value differs from the loaded one
Keep(stored, loaded, assigned) == IF assigned = loaded THEN stored ELSE assigned

Flush(stored, loaded, assigned) ==
  [stored   |-> stored.stored,
   name     |-> Keep(stored.name, loaded.name, assigned.name),
   amount   |-> Keep(stored.amount, loaded.amount, assigned.amount),
   currency |-> Keep(stored.currency, loaded.currency, assigned.currency),
   period   |-> Keep(stored.period, loaded.period, assigned.period),
   active   |-> Keep(stored.active, loaded.active, assigned.active),
   product  |-> Keep(stored.product, loaded.product, assigned.product),
   price    |-> Keep(stored.price, loaded.price, assigned.price)]

-----------------------------------------------------------------------------
(* Requests.                                                               *)

AdminSteps == {"idle", "insert", "product", "price", "save_ids",
               "rename", "reprice", "save", "retire_product", "retire_price", "mark"}

\* A request works on one plan, with the row as it loaded it and as it is to be.
AdminRequests == [pc : AdminSteps, code : Codes, loaded : PlanRows, assigned : PlanRows,
                  reprice : BOOLEAN]

ShopperSteps == {"idle", "customer", "session"}
Checkouts == [pc : ShopperSteps, code : Codes, user : Users, price : 0 .. MaxPrices]

TypeOK ==
  /\ plans \in [Codes -> PlanRows]
  /\ products \in [Codes -> Products]
  /\ prices \in [Prices -> StripePrices]
  /\ lastPrice \in 0 .. MaxPrices
  /\ customers \in [Users -> 0 .. MaxCustomers]
  /\ admin \in [Admins -> AdminRequests]
  /\ shopper \in [Shoppers -> Checkouts]
  /\ shown \subseteq Codes \X Offers
  /\ sold \subseteq Codes \X Offers
  /\ deleted \subseteq Codes

At(a, pc) == admin[a].pc = pc
AtShop(s, pc) == shopper[s].pc = pc

NoProduct == [state |-> "none", name |-> CHOOSE n \in Names : TRUE]

NoPrice == [code |-> CHOOSE c \in Codes : TRUE, amount |-> CHOOSE m \in Amounts : TRUE,
            currency |-> CHOOSE k \in Currencies : TRUE, interval |-> "month",
            active |-> FALSE]

IdleAdmin == [pc |-> "idle", code |-> CHOOSE c \in Codes : TRUE, loaded |-> NoRow,
              assigned |-> NoRow, reprice |-> FALSE]

IdleShopper == [pc |-> "idle", code |-> CHOOSE c \in Codes : TRUE,
                user |-> CHOOSE u \in Users : TRUE, price |-> 0]

Init ==
  /\ plans = [c \in Codes |-> NoRow]
  /\ products = [c \in Codes |-> NoProduct]
  /\ prices = [i \in Prices |-> NoPrice]
  /\ lastPrice = 0
  /\ customers = [u \in Users |-> 0]
  /\ admin = [a \in Admins |-> IdleAdmin]
  /\ shopper = [s \in Shoppers |-> IdleShopper]
  /\ shown = {}
  /\ sold = {}
  /\ deleted = {}

-----------------------------------------------------------------------------
\* get_by_code: active plans only
ByCode(c) == plans[c].stored /\ plans[c].active

Begin(a, r) == At(a, "idle") /\ admin' = [admin EXCEPT ![a] = r]
Goto(a, pc) == admin' = [admin EXCEPT ![a] = [@ EXCEPT !.pc = pc]]
Finish(a) == admin' = [admin EXCEPT ![a] = IdleAdmin]

\* Every commit of a row puts what it says on show.
Commit(c, row) ==
  /\ plans' = [plans EXCEPT ![c] = row]
  /\ shown' = shown \cup {<<c, Offer(row)>>}

\* stripe.Price.create on the plan's product; its id goes into the row to be.
NewPrice(a, interval, pc) ==
  LET r == admin[a] IN
  /\ products[r.code].state # "none"
  /\ interval \in StripeIntervals
  /\ lastPrice < MaxPrices
  /\ lastPrice' = lastPrice + 1
  /\ prices' = [prices EXCEPT ![lastPrice + 1] =
       [code |-> r.code, amount |-> r.assigned.amount, currency |-> r.assigned.currency,
        interval |-> interval, active |-> TRUE]]
  /\ admin' = [admin EXCEPT ![a] = [r EXCEPT !.pc = pc, !.assigned.price = lastPrice + 1]]
  /\ UNCHANGED <<plans, products, customers, shopper, historyVars>>

-----------------------------------------------------------------------------
(* create_plan.                                                            *)

\* The code of a deleted plan passes.
CreatePlan(a, c, row) ==
  /\ ~ByCode(c)
  /\ Begin(a, [IdleAdmin EXCEPT !.pc = "insert", !.code = c,
                                !.loaded = row, !.assigned = row])
  /\ UNCHANGED <<plans, stripeVars, customers, shopper, historyVars>>

\* The INSERT, which fails when the code is in the table.
InsertPlan(a) ==
  LET r == admin[a] IN
  /\ At(a, "insert")
  /\ ~plans[r.code].stored
  /\ Commit(r.code, r.assigned)
  /\ Goto(a, "product")
  /\ UNCHANGED <<stripeVars, customers, shopper, sold, deleted>>

\* stripe.Product.create; the id is set in memory only.
CreateProduct(a) ==
  LET r == admin[a] IN
  /\ At(a, "product")
  /\ products' = [products EXCEPT ![r.code] =
       [state |-> "active", name |-> r.assigned.name]]
  /\ admin' = [admin EXCEPT ![a] = [r EXCEPT !.pc = "price", !.assigned.product = TRUE]]
  /\ UNCHANGED <<plans, prices, lastPrice, customers, shopper, historyVars>>

CreatePrice(a) == At(a, "price") /\ NewPrice(a, "month", "save_ids")

Save(a) ==
  LET r == admin[a] IN
  /\ Commit(r.code, Flush(plans[r.code], r.loaded, r.assigned))
  /\ Finish(a)
  /\ UNCHANGED <<stripeVars, customers, shopper, sold, deleted>>

SaveIds(a) == At(a, "save_ids") /\ Save(a)

-----------------------------------------------------------------------------
(* update_plan.                                                            *)

Settable == {"name", "amount", "currency", "period", "active"}

\* Mutant: the row takes Stripe's name for the period
RequestedInterval(row, fields, body) ==
  [row EXCEPT !.period = IF "period" \in fields THEN "month" ELSE @,
              !.active = IF "active" \in fields THEN body.active ELSE @]

\* model_dump(exclude_unset=True): the fields in the request's body
Requested(row, fields, body) ==
  [row EXCEPT !.name     = IF "name" \in fields THEN body.name ELSE @,
              !.amount   = IF "amount" \in fields THEN body.amount ELSE @,
              !.currency = IF "currency" \in fields THEN body.currency ELSE @,
              !.period   = IF "period" \in fields THEN body.period ELSE @,
              !.active   = IF "active" \in fields THEN body.active ELSE @]

Repriced(fields) == fields \cap {"amount", "currency", "period"} # {}

UpdatePlan(a, c, fields, body) ==
  /\ plans[c].stored
  /\ Begin(a, [pc |-> IF "name" \in fields THEN "rename"
                      ELSE IF Repriced(fields) THEN "reprice" ELSE "save",
               code |-> c, loaded |-> plans[c],
               assigned |-> Requested(plans[c], fields, body),
               reprice |-> Repriced(fields)])
  /\ UNCHANGED <<plans, stripeVars, customers, shopper, historyVars>>

\* stripe.Product.update, which has no object to update without a product id
Rename(a) ==
  LET r == admin[a] IN
  /\ At(a, "rename")
  /\ r.loaded.product
  /\ products' = [products EXCEPT ![r.code] = [@ EXCEPT !.name = r.assigned.name]]
  /\ Goto(a, IF r.reprice THEN "reprice" ELSE "save")
  /\ UNCHANGED <<plans, prices, lastPrice, customers, shopper, historyVars>>

\* Mutant: the price is made of what the row said before
RepriceAsLoaded(a) ==
  LET r == admin[a] IN
  /\ At(a, "reprice")
  /\ r.loaded.product
  /\ lastPrice < MaxPrices
  /\ lastPrice' = lastPrice + 1
  /\ prices' = [prices EXCEPT ![lastPrice + 1] =
       [code |-> r.code, amount |-> r.loaded.amount, currency |-> r.loaded.currency,
        interval |-> r.assigned.period, active |-> TRUE]]
  /\ admin' = [admin EXCEPT ![a] = [r EXCEPT !.pc = "save", !.assigned.price = lastPrice + 1]]
  /\ UNCHANGED <<plans, products, customers, shopper, historyVars>>

\* Mutant: the row gets the new price's id before the rest of the update
RepriceAtOnce(a) ==
  /\ At(a, "reprice")
  /\ admin[a].loaded.product
  /\ lastPrice < MaxPrices
  /\ lastPrice' = lastPrice + 1
  /\ prices' = [prices EXCEPT ![lastPrice + 1] =
       [code |-> admin[a].code, amount |-> admin[a].assigned.amount,
        currency |-> admin[a].assigned.currency,
        interval |-> admin[a].assigned.period, active |-> TRUE]]
  /\ plans' = [plans EXCEPT ![admin[a].code] = [@ EXCEPT !.price = lastPrice + 1]]
  /\ Goto(a, "save")
  /\ UNCHANGED <<products, customers, shopper, historyVars>>

\* The price is made of the body's fields and, for the others, the loaded ones.
Reprice(a) ==
  /\ At(a, "reprice")
  /\ admin[a].loaded.product
  /\ NewPrice(a, admin[a].assigned.period, "save")

\* One commit of the body's fields and of the new price's id
SaveUpdate(a) == At(a, "save") /\ Save(a)

-----------------------------------------------------------------------------
(* soft_delete_plan.                                                       *)

SoftDeletePlan(a, c) ==
  /\ plans[c].stored
  /\ plans[c].active
  /\ Begin(a, [IdleAdmin EXCEPT !.pc = "retire_product", !.code = c, !.loaded = plans[c],
                                !.assigned = [plans[c] EXCEPT !.active = FALSE]])
  /\ UNCHANGED <<plans, stripeVars, customers, shopper, historyVars>>

\* Mutant: the product is left on sale
RetireProductSkipped(a) ==
  /\ At(a, "retire_product")
  /\ admin[a].loaded.product
  /\ Goto(a, "retire_price")
  /\ UNCHANGED <<plans, stripeVars, customers, shopper, historyVars>>

RetireProduct(a) ==
  LET r == admin[a] IN
  /\ At(a, "retire_product")
  /\ r.loaded.product
  /\ products' = [products EXCEPT ![r.code] = [@ EXCEPT !.state = "inactive"]]
  /\ Goto(a, "retire_price")
  /\ UNCHANGED <<plans, prices, lastPrice, customers, shopper, historyVars>>

\* The loaded price; one a concurrent update has made meanwhile is left alone.
RetirePrice(a) ==
  LET p == admin[a].loaded.price IN
  /\ At(a, "retire_price")
  /\ p # 0
  /\ prices' = [prices EXCEPT ![p] = [@ EXCEPT !.active = FALSE]]
  /\ Goto(a, "mark")
  /\ UNCHANGED <<plans, products, lastPrice, customers, shopper, historyVars>>

MarkDeleted(a) ==
  LET r == admin[a] IN
  /\ At(a, "mark")
  /\ Commit(r.code, Flush(plans[r.code], r.loaded, r.assigned))
  /\ deleted' = deleted \cup {r.code}
  /\ Finish(a)
  /\ UNCHANGED <<stripeVars, customers, shopper, sold>>

\* Stripe or the database raises, or the process is killed.
FailAdmin(a) ==
  /\ ~At(a, "idle")
  /\ Finish(a)
  /\ UNCHANGED <<plans, stripeVars, customers, shopper, historyVars>>

-----------------------------------------------------------------------------
(* Checkout: subscribe_user_to_plan and upgrade_subscription, from the     *)
(* plan they load to the session they open.                                *)

Proceed(s, pc) == shopper' = [shopper EXCEPT ![s] = [@ EXCEPT !.pc = pc]]
Leave(s) == shopper' = [shopper EXCEPT ![s] = IdleShopper]

Checkout(s, u, c) ==
  /\ AtShop(s, "idle")
  /\ ByCode(c)
  /\ shopper' = [shopper EXCEPT ![s] =
       [pc |-> "customer", code |-> c, user |-> u, price |-> plans[c].price]]
  /\ UNCHANGED <<plans, stripeVars, customers, admin, historyVars>>

\* ensure_customer.  The service is given a User for its user_repo
\* (billing/dependencies.py), so storing the id of the new customer raises.
EnsureCustomer(s) ==
  LET u == shopper[s].user IN
  /\ AtShop(s, "customer")
  /\ \/ u \in Customers /\ Proceed(s, "session") /\ UNCHANGED customers
     \/ /\ u \notin Customers
        /\ customers[u] < MaxCustomers
        /\ customers' = [customers EXCEPT ![u] = @ + 1]
        /\ Leave(s)
  /\ UNCHANGED <<plans, stripeVars, admin, historyVars>>

\* Stripe opens sessions for active prices of active products only.
OpenSession(s) ==
  LET r == shopper[s] p == prices[r.price] IN
  /\ AtShop(s, "session")
  /\ r.price # 0
  /\ p.active
  /\ products[p.code].state = "active"
  /\ sold' = sold \cup {<<r.code, Offer(p)>>}
  /\ Leave(s)
  /\ UNCHANGED <<plans, stripeVars, customers, admin, shown, deleted>>

FailCheckout(s) ==
  /\ ~AtShop(s, "idle")
  /\ Leave(s)
  /\ UNCHANGED <<plans, stripeVars, customers, admin, historyVars>>

-----------------------------------------------------------------------------
AdminStep(a) ==
  \/ \E c \in Codes :
       \/ \E row \in Fresh : CreatePlan(a, c, row)
       \/ \E fields \in SUBSET Settable, body \in Fresh : UpdatePlan(a, c, fields, body)
       \/ SoftDeletePlan(a, c)
  \/ InsertPlan(a) \/ CreateProduct(a) \/ CreatePrice(a) \/ SaveIds(a)
  \/ Rename(a) \/ Reprice(a) \/ SaveUpdate(a)
  \/ RetireProduct(a) \/ RetirePrice(a) \/ MarkDeleted(a)
  \/ FailAdmin(a)

ShopperStep(s) ==
  \/ \E u \in Users, c \in Codes : Checkout(s, u, c)
  \/ EnsureCustomer(s) \/ OpenSession(s) \/ FailCheckout(s)

Next == (\E a \in Admins : AdminStep(a)) \/ (\E s \in Shoppers : ShopperStep(s))

Spec == Init /\ [][Next]_vars
=============================================================================
