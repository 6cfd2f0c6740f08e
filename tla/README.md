# A TLA+ model of fastapi-saas-prototype

The repository is a FastAPI backend with accounts, sessions, Stripe
subscriptions, an admin panel and Celery e-mail tasks. This directory models
the parts of it whose correctness depends on the order in which requests,
webhooks and database commits happen, checks them with TLC on small instances
and proves their safety properties for all instances with TLAPS.

Paths below are relative to the repository. `src/src` is the Python package,
so `billing/service.py` stands for `src/src/billing/service.py`.

## 1. The system

One ASGI application serves every router. Each request gets an SQLAlchemy
`AsyncSession` of its own (`database.py`) with `expire_on_commit=False`.
Repository methods commit by themselves, so one request is several transactions
and anything may happen between two of them. Requests interact only through
PostgreSQL, through Stripe, and through the Celery queue.

| Component | State | Operations | What is hard | What must hold |
|---|---|---|---|---|
| Subscription lifecycle (`billing/service.py`, `billing/stripe_gateway.py`) | `subscriptions` rows: status and period end | subscribe, upgrade, cancel, four webhook events | webhooks arrive late, twice, reordered, concurrently; the process may die between two commits or between a commit and a Stripe call | access only for a collected invoice and never past Stripe's period; access never taken away without a cause; an event answered 200 is in the tables (its period not always); every event is answered in the end |
| Payments ledger (`PaymentRepository`, `record_invoice_payment`) | `payments` rows, unique invoice id | record a payment, enqueue a receipt | redelivery | an invoice recorded once, receipted at most once, never before it is collected |
| Stripe | sessions, subscriptions, invoices, events | external | at-least-once, unordered events | assumed |
| Plans (`PlanService`, `PlanRepository`) | `plans` rows, Stripe products and prices | create, update, soft delete, checkout | a local commit and Stripe calls, any of which may fail alone; checkouts with a plan loaded before | nobody is charged a price that was not on show; a deleted plan is not sold again |
| Stripe customers (`ensure_customer`) | `users.stripe_customer_id` | create on first checkout | the Stripe call precedes the local commit | one customer per user (it is not so) |
| Sessions (`auth/service.py`, `utils.py`, `repository.py`, `jwt.py`) | `refresh_tokens` rows | login, refresh | revoke and insert are separate commits; two requests with one token | a login ends the older sessions, also while they are being refreshed; a new token only when the old one is dead; no order of requests logs the user out |
| Login codes (`auth/service.py`, `auth/repository.py`) | `login_codes` rows | request a code, log in with it | check, verify and delete are separate steps | a used code is never found again; ideally it works once |
| Accounts (`auth/service.py`, `auth/utils.py`) | `users` rows, codes of identity providers | register, verify, reset and change password, OAuth login, deactivate | check then insert; requests write rows loaded earlier; lost answers of the provider | unique addresses and names; no request undoes another's change; one code, one login; every request ends |
| Request authentication (`auth_bearer.py`, `hashing.py`) | none | bearer token checks | the row it loads is the one the request changes | see Accounts |
| Admin panel (`admin/`, `paginate.py`) | `users`, `admin_audit_logs` | change a user, list, paginate | change and audit entry are two commits; listings move while they are read | the log explains every role; a walk misses no more than what moved |
| Admin AI assistant | none | tool loop around a language model | termination | - |
| E-mail tasks (`billing/tasks.py`) | Celery queue | send with retries, hourly expiry task | retries after a partial failure | a mail is sent |
| Application shell, migrations, templates, front end | none at run time | - | - | - |

`PROJECT.json` lists the same components with their sources and, under
`hazards`, the places in the code where order matters, line by line.

## 2. Modules

| Module | Models |
|---|---|
| `StripeApi` | Stripe as the gateway uses it (external): sessions, subscriptions with a current period, invoices, events |
| `SubscriptionStore` | a `subscriptions` row and what each repository statement does to it |
| `Billing` | composes the two: every webhook handler and user request of the subscription lifecycle |
| `PaymentLedger` | abstract specification: collect, record, receipt |
| `BillingProperties` | fairness, safety and liveness properties, the refinement of `PaymentLedger`, the documented claims the code does not keep |
| `BillingInvariant` | the inductive invariant and what no step takes back |
| `BillingProofs`, `BillingGuarantees` | TLAPS proofs: the invariant and what it contains; what follows from it |
| `MCBilling` | instances for TLC |
| `Sessions` | logins, refresh-token rotation and login codes over `refresh_tokens` and `login_codes` |
| `SessionLines` | abstract specification: lines of tokens as clients see them |
| `SessionProperties` | what sessions and codes guarantee, and a documented claim that holds for one request at a time only |
| `SessionInvariant` | their inductive invariant |
| `SessionProofs`, `SessionGuarantees` | TLAPS proofs: the invariant and what it contains; what follows from it |
| `MCSessions` | instances for TLC |
| `Plans` | plans, their Stripe products and prices, and the checkouts that sell them |
| `PriceList` | abstract specification: a price is shown, then sold, until the plan is withdrawn |
| `PlanProperties`, `PlanInvariant`, `PlanProofs`, `PlanGuarantees`, `MCPlans` | properties, inductive invariants, proofs, instances |
| `Accounts` | registration, social login, a user's own changes and the panel's, with the audit log |
| `AccountRules` | abstract specification: who may open an account and what may change in it |
| `AccountProperties`, `AccountInvariant`, `AccountProofs`, `MCAccounts` | properties, inductive invariant, proofs, instances |
| `Pages` | the panel's listings, and a walk from page to page while rows move |
| `PageProofs`, `MCPages` | proofs, instance |

The five models share no variables; they touch as follows. `Billing` takes
plans as constants, for the handlers read of a plan only its id. A checkout of
`Plans` ends with the session that `Billing` calls `Subscribe` or `Upgrade`. A
social login of `Accounts` ends where `Sessions` begins it (`LoginSocial`); the
flag `is_active`, which both read, is a free variable in `Sessions`. `Pages`
takes the changes of the others as rows that enter, leave or move.

### How `Billing` corresponds to the code

*State.* `rows[s]` is the row with `provider_subscription_id = s`, reduced to
`status` and `current_period_end`, the columns the access query reads.
`payments` is the set of paid-invoice events whose invoice has a row
(`uq_provider_invoice_id`), `mailed` counts enqueued receipts, `acked` the
events answered 200. `handler[w]` is a request in flight: its step, its event
and the local variables it will read again.

*Steps.* A handler is cut at every `await` after which it touches something
another request can change: a `SELECT` and the `COMMIT` that follows it, and
every Stripe call, are separate steps. The steps of one delivery of
`checkout.session.completed` are `UserSubscribe` (retrieve, look at
`upgrade_from_subscription_id`), for an upgrade `DropOld`
(`stripe.Subscription.delete`), `LoadOld` and `CancelOld` (the two halves of
`cancel_subscription`), then `Find`, `LoadAccess` and `Insert`
(`create_subscription`). A paid invoice runs `PaymentSucceeded`, `LoadPeriod`,
`SetPeriod` (or `LoadAccess`, `Insert` when it precedes the checkout), `Pay`,
`Notify`. A deletion runs `SubscriptionDeleted`, `CancelNow`, `Notify`; a
failed payment `PaymentFailed`, `SetPastDue`, `Notify`. Of the user's requests
only the cancellation writes a row: `UserCancel` loads it, `CancelRemote` is
`Subscription.modify`, `UserCancelCommit` the commit. `Subscribe` and `Upgrade`
only name a new session.

*ORM writes.* SQLAlchemy writes the attributes whose value differs from the
loaded one. `Flush(stored, loaded, assigned)` is that rule; a commit can
therefore mix its columns with another request's. The session's identity map
keeps attributes of a row loaded earlier in the request, which is why `Insert`
compares the old row's status *in memory* (`StatusInMemory`).

*Failure.* A handler that raises (`Fail`), one that is killed and one whose
broker or database is unreachable (`Crash`) leave what they committed and are
not answered 200. Stripe keeps the event.

*Time.* A clock both sides read. A handler that ends a row reads it before it
loads the row and carries the value to its commit (`period`); the comparison `current_period_end > now` is strict as in the query.

### Left out of `Billing`, and why

`started_at` and `canceled_at` are read by no branch. `cancel_at_period_end`
and `cancel_immediately` of the repository have no callers. `Provider` has one
value with behaviour. An event with a bad signature is answered before any
handler runs and one of another type changes nothing; nor does an event of an
invoice without lines or subscription, which the handlers refuse before they
touch anything. Every modelled invoice has the `billing_reason`
`subscription_create` or `subscription_cycle`, the two that send a receipt:
the others come from changing a subscription's items, which no call in the
package does. With the pinned
`stripe==14.0.1` the object `Subscription.modify` returns has no top-level
`current_period_end`, so a cancellation at the period's end keeps the period it
loaded (`Canceled`). Plans are constants: a plan is never removed
from its table, so the lookups the handlers make succeed.

### How `Sessions` corresponds to the code

*State.* `tokens[j]` is the row with jti `j`: live, revoked or deleted.
`parent` is the token it was rotated from; the column `replaced_by_jti` is the
same link in the other direction and is read by nothing. `handed` holds the
tokens clients have received. Codes are numbered by `created_at`, the order
`get_latest_for_user` sorts by; `mailed` are those sent, `uses` counts
acceptances. `handler[w]` is a request in flight with its local variables.

*Steps.* Each repository method commits on its own, so
`store_refresh_token_in_db` is `RevokeAll`, `Store`, `ConfirmLogin` and
`revoke_refresh_token` is `Rotate`, `ConfirmNew`, `Retire`, `ConfirmOld`. The
`Confirm` steps are the `refresh` after a commit: it raises when another
request has deleted the row meanwhile, and the client then gets an error
instead of a token. `Retire` is an `UPDATE` by primary key, for which the ORM
raises `StaleDataError` when the row is gone. `LoginCode` to `MailCode` request
a code, with the moment `created_at` is set (`StampCode`) before the moment the
row is visible (`StoreCode`); `LoginWithCode` to `SpendCode` use one and then
go on as any login.

*Failure.* `Crash` kills a request between two steps; what it committed stays.

*Left out.* A token whose JWT has expired is refused before the table is read,
as if it had not been sent. Hashes and signatures are perfect; two codes of a
user are taken to differ. A social login may create the account first, which
belongs to the accounts component. No route deletes a user or logs out.

### How `Plans` corresponds to the code

*State.* `plans[c]` is the row with code `c` (the column is unique and a row is
never removed), `products` and `prices` are Stripe's. `admin[a]` is an admin
request with the row as it loaded it and as it is to be; `shopper[s]` a
checkout with the price id it loaded. `shown`, `sold` and `deleted` record what
rows have said, what sessions were opened for, and which deletions were
answered 204.

*Steps.* A creation is `CreatePlan` (`get_by_code`, which sees active plans
only), `InsertPlan`, `CreateProduct`, `CreatePrice`, `SaveIds`. An update
is `UpdatePlan`, then `Rename` and `Reprice` as its body demands, then
`SaveUpdate`: one commit of the body's fields and the new price id. A deletion
is `SoftDeletePlan`, `RetireProduct`, `RetirePrice`, `MarkDeleted`. A checkout,
new or an upgrade, is `Checkout`, `EnsureCustomer`, `OpenSession`. `FailAdmin`
and `FailCheckout` end a request after any step, so a Stripe call that fails
after it took effect is the step followed by the failure.

*External.* Stripe opens sessions only for active prices of active products,
and takes the intervals in `StripeIntervals`. Stripe itself knows `day`,
`week`, `month` and `year`, while `update_plan_in_stripe` sends `monthly` or
`yearly`: with the real set `Reprice` is never possible and every update of a
price is refused. The runs take the lenient Stripe of the repository's tests,
which has all behaviours of the strict one.

*What reading the code showed.* `create_plan` sends `month` for yearly plans
too. A plan whose creation failed at Stripe keeps its code and is never
synchronised again. An update may set `is_active`, but the product of a deleted
plan stays inactive, so the plan is listed and cannot be sold. Two overlapping
updates of one plan mix their columns, and then the row's price is not Stripe's:
one sets the amount, the other the currency, and its price is made of the amount
it had loaded. The properties about the price are for one admin request per plan
at a time; `PartsShown` is what remains of them when requests overlap. And
`SubscriptionService` receives a `User` where it expects a `UserRepository`
(`billing/dependencies.py:49`): `ensure_customer` creates the customer and then
fails, so a user without a customer id never reaches a session.

*Left out.* Tiers and ids of plans, and the checks of `subscribe_user_to_plan`
and `upgrade_subscription` on the user's subscription, which are in `Billing`.

### How `Accounts` corresponds to the code

*State.* `users[e]` is the row with address `e`; `log` the audit entries with
the changed column and its two values. `request[q]` is a request, made once,
with the row it loaded (`loaded`) and that row as it has changed it in memory
(`assigned`). `linked` holds the addresses a link was mailed to: the links for
verification and for a new password carry a token of one kind, with the user's
id only, so either serves both routes, again and again until it expires.
`spent` are codes the provider has exchanged; `asked` records every change a
request was admitted with.

*Steps.* `Register`, `CheckName`, `Insert` are a registration; `SocialCallback`,
`Exchange`, `Profile`, `Insert` a social login that opens an account. `Exchange`
covers up to three tries; a lost answer leaves open whether the provider has
dealt with the request. `ValidateUser`, `NewPassword`, `ChangePassword` and
`DeactivateUser` load a row and change it in memory, `Write` is the commit. The
panel's requests are `UpdateUser`, `Load`, `Write`, `Reread` (the refresh after
the commit) and `Log`, a commit of its own. An administrator who changes the
own account works on the row authentication loaded, for the session keeps one
instance per row. `Flush` writes the columns whose value differs from the
loaded one; a new hash always differs.

*Failure.* `Fail` ends a request after any step; one that fails between its
change and its entry ends `unlogged`.

*What reading the code showed.* `README.md:375` says the panel's changes are
recorded; one that dies between its two commits is not, and with two
administrators at once the recorded `after` may be the other's value, since it
is read after the commit. `change_password` compares the old password with the
row loaded by authentication, so a reset meanwhile is overwritten. A retry
after a lost answer finds the code spent and is refused. A GitHub login whose
name is already a username can never be given an account. A social account has
no password, so verifying one raises. A user id that does not exist makes the
panel's updates raise.

*Left out.* Profiles, timestamps and the provider flag, which no branch reads;
expiry of links; the state cookie, which is checked before anything is touched.

### How `Pages` corresponds to the code

*State.* `rows` are the timestamps of the rows that satisfy a listing's
filters, newest first: `created_at` for users and payments, `started_at` for
subscriptions. The walk (`phase`, `offset`, `total`) is the panel following
`next_offset`. `owed` and `seen` record what it should show and has shown.

*Steps.* `Count` and `Page` are the two queries of `paginate`, in separate
statements, between which others commit. `Follow` is the panel's next link.
`Enter` is an insert or a change that makes a row pass the filters; timestamps
are set before the commit, so the row may appear anywhere. `Leave` is a change
that makes it fail them. `Renew` is `update_subscription_period`, which sets
`started_at` and so moves the row to the front. `Open` starts at any offset the
route accepts.

*Left out.* Rows with equal timestamps have no order in the query; they are
taken to differ. `prev_offset` is `None` when `0 < offset < limit`, a case the
panel's own links never lead to. The statistics of the dashboard are three
counts.

## 3. Runs

### Subscriptions

Bounds: `MaxTime` (clock), `MaxInvoices` (per subscription), `MaxFailures`
(failed payments), `MaxCrashes`, and `MaxMails = 2`, which tells a second
receipt from the first. Two workers are two requests at once; by then every
pair of handlers interleaves, and a third handler adds no new pair of accesses
to one row.

| Run | Instance | Shows |
|---|---|---|
| `renewal` | 1 subscription, 2 periods, 1 failure, 1 crash, 2 workers | `TypeOK`, `ReceiptAtMostOnce`, `AckMeansRecorded`, `AccessBacked`, `ImplementsLedger`, `RevocationHasCause`, `GrantHasCause` under every order of events |
| `upgrade` | 1 user, 2 subscriptions on 2 plans, 2 workers, 1 crash | second checkouts and upgrades neither give unpaid access nor take access away (`AccessBacked`, `RevocationHasCause`), also when a handler is killed anywhere and its event redelivered (`AckMeansRecorded`); no subscription is replaced by two handlers at once (`ReplacedByOne`), and what Stripe has deleted is not replaced again (`ReplacedOnce`) |
| `progress` | 1 subscription, fair | every event is eventually answered 200 (`EveryEventAcked`) |

Two periods are the least in which a delivery can be overtaken by a renewal;
two subscriptions the least for an upgrade. `upgrade` needs no clock because
its subject is the order of commits; time passes in `renewal`, and the proofs
cover both together. Workers are symmetric. So is `upgrade` under exchanging
the two subscriptions *together with* their plans (`PairSymmetry`): both belong
to one user and each has the plan that bears its number, so the exchange leaves
`Owner` and `PlanOf` as they are.

*Fairness.* Stripe redelivers an event until it is answered 200, so delivery of
each event is strongly fair (`SF` because another handler may occupy the
worker again and again); a handler that has started runs on (`WF` on its
steps); the hourly task runs. Nothing obliges users, Stripe or crashes.

*Claims the code does not keep.* Each run below checks one sentence of the
repository's documents or comments and TLC shows how the code departs from it;
`PROJECT.json` `findings` quotes the sentence.

| Run | Behaviour TLC finds |
|---|---|
| `duplicate` | two sessions opened before either is completed give one user two rows with access; the access query then raises |
| `early` | a paid event handled before the checkout is answered 200 and its period is in no row |
| `resurrect` | a paid event handled after the deletion makes the row ACTIVE again |

Reading the code for the model showed more than the runs check. The webhook
route shares a dependency that demands a bearer token
(`billing/dependencies.py:49`), which Stripe does not send: with
`DeliveriesAuthenticated = FALSE` the action `Accept` is never enabled and, as
`UnauthenticatedWebhooks` proves, no payment is ever recorded and no access
given; all runs assume a sender that adds the token. `SetPeriod` grants the
period the subscription has when the event is handled, so the late paid event
of an earlier invoice grants a renewal whose payment failed. Nothing sets
`cancel_at_period_end`, so a second cancellation is accepted. The hourly task
does nothing. And `DropOld` of a redelivered upgrade asks Stripe to delete a
subscription it has already deleted, Stripe refuses, and so the checkout of an
upgrade that died half-way is never answered 200 (proved: `AbandonedForGood`).
The same refusal is what keeps a subscription from being replaced twice. A
cancellation that waits for Stripe while a payment fails commits `CANCELED`
over the mark `PAST_DUE`, and the access is back; `GrantHasCause` names this as
the only way to access other than a paid invoice. `progress` has no upgrades. A
handler killed after `Pay` leaves a payment whose receipt no redelivery sends,
although `README.md:48` says e-mails are queued for payments.

What an answered paid event is sure to have left are the row, the payment and
the receipt (`AckMeansRecorded`), not the period. `docs.md:47` and
`features.md:53` say that the period is updated, and `AckMeansApplied` states
that. The run `early` refutes it: the event finds no row, the row it inserts
ends now (`repository.py:135`), the period read from Stripe is dropped, and the
user has no access until the next renewal. A period is lost in one other way,
by a handler that read the older period before a renewal and commits after the
newer one was written; `RevocationHasCause` counts it among the causes
(*overtaken*) and so does not object to it. That there is no third way is
proved (`PaidPeriodApplied`).

### Sessions and login codes

Bounds: the sets `Jtis` and `Workers`, `MaxCodes`, `MaxCrashes`, and
`MaxUses = 2`, which tells a code used twice from one used once.

| Run | Instance | Shows |
|---|---|---|
| `sessions` | 1 user, 3 tokens, 2 codes, 2 requests, 1 crash | `TypeOK`, `LoginEndsSessions`, `OldTokenDead`, `SessionKept`, `SpentCodeNotTaken`, `ImplementsLines` |
| `two_uses` | violation | one code logs in twice |

More races are in the model and no run asks about them. Two refreshes with one
token both find it unrevoked and both return a new one (`docs.md:28` and the
test of the route expect the second to be refused; `OldTokenDead` says only
that the old token is dead after each). Both this and the second use of a code
need two requests that have passed their check before either writes: the proofs
(`TokenExchangedOnce`, `CodeOnce`) show that there is no other way. Two logins
at once both delete first and insert afterwards, so both sessions live. Using a
code deletes all of the user's, also one stored meanwhile and then mailed in
vain.

All queries select by one user, so one user suffices: requests of different
users touch different rows. Two requests let a refresh race with a login and
two logins with each other; with three tokens a session is rotated and
replaced. Two codes are the least for "latest" to mean something. The sets of
requests and of tokens are symmetric. The proofs below need none of these
bounds.

What the guarantees rest on is not evident from the code. A refresh that
overlaps a login may store its new token *after* the login's deletion, so a row
of the old session survives; that it is harmless depends on the old row being
updated last, by an ORM that raises when it is gone. `LoginEndsSessions` states
the result. `SessionKept` states the converse: since the new token is stored
before the old one is revoked, a user who was logged in has a live token in a
client's hands or in a request about to return it, unless a request is killed.
`ImplementsLines` says the same from outside: it forgets requests and
rows and sees only tokens that clients hold, which form lines begun by logins;
a token comes into hand only in place of one that is dead and that no login has
ended.

### Plans

Bounds: `MaxPrices` (prices created at Stripe) and `MaxCustomers` (customers
counted per user).

| Run | Instance | Shows |
|---|---|---|
| `plans` | 1 plan, 2 amounts, 3 prices, 1 admin request and 1 checkout at a time, 2 users of whom one has a customer id | `TypeOK`, `PriceAsListed`, `NoSaleAfterDelete`, `ImplementsPriceList` |
| `customer` | violation: 1 user without a customer id, 2 checkouts | `features.md:51` says the id is saved on the user; TLC finds two customers of one user |

Plans do not touch each other's rows, products or prices. Three prices let a
plan be created, repriced and repriced again after its deletion. One admin
request per plan at a time is what the two properties about prices need; that
the others hold when requests overlap, and what is left of these two, is proved.

### Accounts

`MaxTries` is the code's own three tries, not a bound of the model. `users`
begins with an administrator (they are made by hand) and a user.

| Run | Instance | Shows |
|---|---|---|
| `accounts` | 2 requests of any kind at once; an administrator, a user and a free address; 3 names; 2 passwords; 1 code | `TypeOK`, `RoleExplained`, `VerifiedExplained`, `CodeLetsInOnce`, `ImplementsAccountRules`, `Settles` |

Two requests show every pair of accesses to one row. Requests are made once,
so the system may stop and deadlock is not checked.

*Fairness.* `Settles` assumes that every request in flight goes on
(`WF_vars(Proceed(q))`): the event loop resumes it, queries return, and the
exchange with the provider gives up after three time-outs. Nothing obliges
anybody to make a request or a provider to answer.

`ImplementsAccountRules` is the statement that stale rows do no harm: whatever
requests interleave, each commit changes one column, to a value somebody
entitled to it had asked for, and an address or name found free by two
requests goes to one. `RoleExplained` compares the log with the table: roles
matter most, and the entries are written later than the change and out of
order. `VerifiedExplained` asks of every verified address who vouched for it: a
mailed link, the provider that exchanged a code, or an administrator. The
column never becomes `FALSE` again, so stale rows cannot touch it; that they
harm no column is `ImplementsAccountRules`. `RoleExplained` exempts the
requests that die between their two commits, although `README.md:375` says such
changes are recorded.

### Pages

Bounds: `MaxOffset`, `MaxMoves` and `MaxLate`, the rows that leave or change
places during a walk and that come between the last count and its page.

| Run | Instance | Shows |
|---|---|---|
| `pages` | up to 6 rows in pages of 2, walks from offset 0 or 1, 2 moves, 1 late row | `TypeOK`, `WalkComplete` |

Six rows make three pages, so that a row can slip in front of a page behind
which there is another. `WalkComplete` bounds what a walk can miss: without
moves and late rows nothing, although offsets count from a head that grows. A
walk is not obliged to end while rows keep coming, so nothing is claimed of
that.

## 4. Proofs

### Subscriptions

`BillingProofs` proves, for any sets of users, plans, subscriptions and workers
and any bounds (assumptions `StripeAssumption` and `BillingAssumption`, both
evaluated by TLC in every run):

| Theorem | Says |
|---|---|
| `Invariant` | `Spec => []IInv` |
| `TypeCorrect`, `AccessIsBacked`, `AckIsRecorded`, `ReceiptOnce` | the safety properties of the runs |
| `NeverUndone` | Stripe's decisions and the handlers' commits are only added to |
| `LedgerImplemented` | `Billing` implements `PaymentLedger` |
| `RevocationCaused` | `RevocationHasCause` |

`BillingGuarantees` adds, under the same assumptions:

| Theorem | Says |
|---|---|
| `GuaranteesInvariant` | `Spec => []GInv` |
| `GrantsCaused` | `GrantHasCause` |
| `OneReplacement`, `ReplacedOnlyOnce` | `ReplacedByOne`, `ReplacedOnce` |
| `AbandonedForGood` | an upgrade whose old subscription Stripe has deleted without its handler going on stays so, and its checkout is never answered |
| `PaidPeriodApplied` | `AckMeansApplied`, which a run refutes, holds under `CheckoutFirst` (no handler of a paid event finds the row missing) and `PeriodsCurrent` (what a handler carries to its commit is Stripe's current period) |
| `UnauthenticatedWebhooks` | without `DeliveriesAuthenticated` nothing ever happens |

The properties speak of tables; what makes them inductive is what a suspended
handler relies on. `IInv` adds to them: events only of subscriptions whose
checkout was completed (`EventsOfStarted`), for each handler the kind of event
it works on, that the rows it loaded still exist, that a subscription it
replaced is gone at Stripe and that the period it carries is one Stripe had
(`HandlersOK`), and that at most one handler stands between a payment and its
receipt (`ReceiptPending`). The argument has two halves. `NothingUndone`
collects what every step keeps, whoever takes it: Stripe's clock, periods and
deletions, existing rows, payments, answers. `HandlerKept` derives from it that
no step of one handler invalidates what another relies on. With that, each
conjunct of `IInv` needs the few actions that write what it reads, and the
action properties of `BillingProofs` follow from `IInv` without further
invariants.

`GInv` strengthens `IInv` by what `GrantHasCause` and the replacement of
subscriptions rest on: a row that is `PAST_DUE` although no payment failed is
as its checkout made it and grants nothing (`MarksOK`), a cancellation has
loaded a row that gave access (`CancelsLoaded`), and, since Stripe deletes a
subscription once, one handler at most stands between that deletion and the new
row (`ReplacedByOne`).

`PInv` is what `PaidPeriodApplied` adds: Stripe has numbered every invoice it
sent (`InvoicesKnown`), the row reaches the end of every invoice whose handler
is past its commit (`PeriodsWritten`), and a handler that has loaded the period
it is about to write, and so will leave the column alone, finds the row reaching
it (`PeriodsLoaded`). The two hypotheses exclude the two races and nothing else:
deliveries may still be repeated, concurrent and killed.

### Sessions and login codes

`SessionProofs` proves, for any users, tokens, concurrent requests and bounds
(assumption `SessionAssumption`):

| Theorem | Says |
|---|---|
| `SInvHolds` | `Spec => []SInv` |
| `SessionTypes`, `LoginEnds`, `OldTokenIsDead`, `SessionIsKept` | the safety properties of `sessions` |
| `SpentNotTaken` | `SpentCodeNotTaken` |

and `SessionGuarantees`:

| Theorem | Says |
|---|---|
| `LinesImplemented` | `Sessions` implements `SessionLines` |
| `CodeOnce` | `CodeUsedOnce`, which a run refutes, holds under `OneVerifies`: no two requests have verified one code at the same time |
| `TokenExchangedOnce` | `ExchangedOnce`, what `docs.md:28` promises, holds under `OneRotates`: no two requests are rotating one token |

`SInv` adds to the properties what a request relies on between two commits. A
token being created is no other request's and in nobody's hands
(`TokensApart`, `RequestOK`), so only deletion can change it; while the token
it replaces is still stored, it is live, and once the old one is revoked it can
only disappear together with the new one (`RotationOK`). This carries
`LoginEndsSessions`, `OldTokenDead` and `SessionKept`. A code is numbered after
all others when it is made and stored before it is mailed (`CodeOK`,
`CodeRequestOK`), so a code that was used is never put back. Each conjunct is
proved per action; `QuietTokens`, `QuietCodes` and `KeptAlong` deal once with
the steps that do not concern it.

The refinement needs one more fact, that a token is revoked only after it was
in a client's hands (`RevokedHanded`); with it the step that hands a token over
is the abstract `Replace` or `Begin`, a login's deletion is `EndLines`, and the
rest stutters. `UsedOnce` and `Exchanged` say that a used code or exchanged
token is in no other request's hands. Their hypotheses exclude the race and
nothing else: one request at a time satisfies them, and so do any number on
different codes and tokens.

### Plans

`PlanProofs` proves, for any codes, amounts, requests, checkouts and bounds
(`PlanAssumption`):

| Theorem | Says |
|---|---|
| `TypeCorrect`, `DeletedNotSold` | `TypeOK`, `NoSaleAfterDelete` of `Spec`, with any number of admin requests at once |
| `PriceListed`, `ListImplemented` | `PriceAsListed`, `ImplementsPriceList`, under `OneAdminPerPlan`: no two admin requests on one plan at once |
| `ChargedAsShown` (`PlanGuarantees`) | `PartsShown`: without that assumption, the amount and the currency of every price sold were each on show for the plan |

That a deleted plan is not sold rests on its product, not on its prices: `DInv`
says that a product is created by the one request that inserted the row
(`CreatorsApart`, `RequestOK`), and that whatever retires a product has loaded
its id, which comes after the creation. So no request can make the product
active again, whatever it does to the row. `LInv` adds what a request that has
a plan to itself relies on: the row it loaded is the row stored (`UpdateOK`),
and the price a checkout has loaded was on show (`CheckoutsShown`). The
assumption is needed: two overlapping updates break both properties. `AInv` is
what survives them: what a request has loaded was on show (`RequestShown`), so
a price is made of parts that were or, when the commit shows them together with
the price id, will be on show before anybody can load it.

### Accounts

`AccountProofs` proves, for any addresses, names, passwords, codes and requests
and any initial table with distinct names (`AccountAssumption`): `TypeCorrect`,
`RolesExplained`, `CodesLetInOnce` and `RulesImplemented`
(`ImplementsAccountRules`), and:

| Theorem | Says |
|---|---|
| `VerifiedForAReason` | `VerifiedExplained` |
| `NamesOwned` | no two accounts have one name |
| `RightsComeFromAdmins` | a table without an administrator never gets one, and there a deactivation is final |
| `RequestsBounded` | every step of a request brings it nearer to its end, `MaxTries + 4` steps away at most |

`AInv` says of a request before its commit that what it will write is its
loaded row with one column changed to a value asked for (`Ready`), so that
`Flush` changes that column at most, whatever the row has become (`RequestOK`);
that whoever was let in with a code has had it exchanged (`CodesOK`); and that
an account's role, when it is not the first, is recorded or is known to a
request that had loaded the other one (`PendingBy`). The last is why
overlapping updates cannot leave a role unexplained: the one that changed the
value had loaded a different one, and finds the new one or a later one.

`NamesOwned` needs only the rules: it follows from `ImplementsAccountRules`,
step by step (`RulesStep`). `VInv` adds to `AInv` that a request about to
verify an address has somebody to vouch for it (`VouchedRequest`), which links
and spent codes, never taken back, keep true. `NoRights` adds what no request
has been admitted with. `RequestsBounded` is the half of `Settles` that is a
safety property: with it, a request that keeps going on ends.

### Pages

`PageProofs` proves, for any finite set of timestamps, page size and bounds
(`PageAssumption`), `TypeCorrect` and `WalksComplete`. `WInv` counts the rows
that have slipped in front of the page to be fetched without being shown
(`Behind`): a departure or a renewal moves others by one place at most
(`PositionAfterLeave`, `PositionAfterRenew`) and an arrival moves rows only
away from the head, so there are at most `moves` of them. The rest is what the
last page leaves behind, at most `late`.

### Not proved

Liveness (`EveryEventAcked`, `Settles`) is only model-checked: it needs
`ENABLED` and reasoning under fairness, which is beyond the prover. The claims
that runs refute are false as they stand; for `CodeUsedOnce` and
`AckMeansApplied` the conditions under which they hold are proved.

## 5. Not modelled

- The AI assistant is a loop around a language model over read-only queries.
  It writes nothing, and whether it ends is the model's decision.
- E-mail tasks: enqueueing is part of the handlers; the retries of a task are
  Celery's, around one SMTP call. The hourly task's body is `pass`.
- `require_plan` is used by no route; look-ups by id, the list of plans and of
  payments are single queries.
- Rate limiting, logging, settings, token cryptography, migrations, templates,
  deployment and the front end keep no state a model could say more about than
  their code.

What could still be added: plans with the strict `StripeIntervals`, and the
composition of `Plans` with `Billing`, in which the price of the session is the
price of the invoices.
