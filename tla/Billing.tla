------------------------------- MODULE Billing -------------------------------
(***************************************************************************)
(* The subscription lifecycle: SubscriptionService and StripeGateway       *)
(* (src/src/billing/service.py, stripe_gateway.py) over the subscriptions  *)
(* and payments tables, driven by users and by Stripe's webhook events.    *)
(*                                                                         *)
(* Handlers run concurrently, one per element of Workers.  A handler is    *)
(* cut at every await after which it reads or writes something another     *)
(* handler can change: a SELECT and the COMMIT that follows it are         *)
(* different steps, each repository method commits on its own, and every   *)
(* Stripe call is a step.  A handler that raises answers 4xx or 5xx, and   *)
(* one that is killed answers nothing: in both cases Stripe keeps the      *)
(* event and delivers it again.                                            *)
(***************************************************************************)
EXTENDS StripeApi, SubscriptionStore

CONSTANTS
  Workers,                  \* webhook deliveries and requests in flight
  Customers,                \* users whose stripe_customer_id is set
  DeliveriesAuthenticated,  \* does the sender of webhooks add a bearer token?
  MaxCrashes                \* bound on handlers killed half-way

ASSUME BillingAssumption ==
  /\ Customers \subseteq Users
  /\ DeliveriesAuthenticated \in BOOLEAN
  /\ MaxCrashes \in Nat

VARIABLES
  rows,      \* table subscriptions: [Subs -> row or Absent]
  payments,  \* table payments: the paid events whose invoice is recorded
  mailed,    \* receipt e-mails enqueued per paid event, counted up to MaxMails
  acked,     \* events the endpoint has answered 200
  handler,   \* the handlers in flight
  crashes

localVars == <<rows, payments, mailed, acked, handler, crashes>>
vars == <<stripeVars, localVars>>

\* A second receipt for an invoice is told apart from one, a third is not.
MaxMails == 2

PaidEvents == [type : {"paid"}, sub : Subs, inv : InvoiceNo]

\* A handler's own state: where it is, what it handles, the loaded copy of the
\* row it is about to write, the row create_subscription found with access and
\* that row's status in memory, and the period end it is about to write: the one
\* Stripe returned, or the clock as cancel_immediately read it.
Request(s) == Event("cancel", s, 0)
NoTask == Event("none", NoSub, 0)
Tasks == Events \cup [type : {"cancel"}, sub : Subs, inv : {0}]

Idle == [pc |-> "idle", task |-> NoTask, loaded |-> Absent,
         old |-> NoSub, oldStatus |-> "NONE", period |-> 0]

Steps == {"drop_old", "load_old", "cancel_old", "find", "load_access", "insert",
          "load_period", "set_period", "pay", "notify", "cancel_now",
          "past_due", "modify", "user_cancel"}

Handlers == [pc : Steps \cup {"idle"}, task : Tasks \cup {NoTask},
             loaded : Rows \cup {Absent}, old : Subs \cup {NoSub},
             oldStatus : Statuses \cup {"NONE"}, period : Nat]

TypeOK ==
  /\ StripeTypeOK
  /\ rows \in [Subs -> Rows \cup {Absent}]
  /\ payments \subseteq PaidEvents
  /\ mailed \in [PaidEvents -> 0 .. MaxMails]
  /\ acked \subseteq Events
  /\ handler \in [Workers -> Handlers]
  /\ crashes \in 0 .. MaxCrashes

Init ==
  /\ StripeInit
  /\ rows = [s \in Subs |-> Absent]
  /\ payments = {}
  /\ mailed = [e \in PaidEvents |-> 0]
  /\ acked = {}
  /\ handler = [w \in Workers |-> Idle]
  /\ crashes = 0

-----------------------------------------------------------------------------
(* What the handlers share.                                                *)

Access(s) == GrantsAccess(rows[s], now)

\* get_subscription_with_access: with two rows or more, scalar_one_or_none
\* raises MultipleResultsFound and the request ends with a 500.
WithAccess(u) == {s \in Subs : Owner[s] = u /\ Access(s)}

At(w, pc) == handler[w].pc = pc

\* On to the next step with what is in memory, or with only the task when
\* nothing of it is read again.
Goto(w, pc) == handler' = [handler EXCEPT ![w].pc = pc]
Forget(w, pc) == handler' = [handler EXCEPT ![w] =
                               [Idle EXCEPT !.pc = pc, !.task = handler[w].task]]

\* Mutant: every exception is caught and answered 200
FailAnswered(w) ==
  /\ handler' = [handler EXCEPT ![w] = Idle]
  /\ acked' = acked \cup ({handler[w].task} \cap Events)
  /\ UNCHANGED <<stripeVars, rows, payments, mailed, crashes>>

\* The handler raised: nothing but its own state is lost.
Fail(w) ==
  /\ handler' = [handler EXCEPT ![w] = Idle]
  /\ UNCHANGED <<stripeVars, rows, payments, mailed, acked, crashes>>

\* The handler returned and the endpoint answers 200.
Answer(w) ==
  /\ handler' = [handler EXCEPT ![w] = Idle]
  /\ acked' = acked \cup {handler[w].task}

\* get_subscription_service depends on get_user: a delivery without a bearer
\* token is refused before the handler runs and changes nothing.
Accept(w, e, pc, loaded, period) ==
  /\ DeliveriesAuthenticated
  /\ At(w, "idle")
  /\ e \in sent
  /\ handler' = [handler EXCEPT ![w] =
       [Idle EXCEPT !.pc = pc, !.task = e, !.loaded = loaded, !.period = period]]
  /\ UNCHANGED <<stripeVars, rows, payments, mailed, acked, crashes>>

-----------------------------------------------------------------------------
(* checkout.session.completed: StripeGateway.user_subscribe.  The metadata *)
(* Subscription.retrieve returns never changes, and plans are never        *)
(* deleted, so the plan lookup succeeds.                                   *)

\* Mutant: the upgrade metadata is not looked at
UserSubscribeAfresh(w, s) == Accept(w, Checkout(s), "find", Absent, 0)

UserSubscribe(w, s) ==
  Accept(w, Checkout(s), IF upgradeFrom[s] = NoSub THEN "find" ELSE "drop_old",
         Absent, 0)

\* Mutant: a subscription that is gone is taken for one just deleted
DropOldTolerant(w) ==
  LET old == upgradeFrom[handler[w].task.sub] IN
  /\ At(w, "drop_old")
  /\ Goto(w, "load_old")
  /\ \/ DeleteRemote(old)
     \/ remote[old].state # "active" /\ UNCHANGED stripeVars
  /\ UNCHANGED <<rows, payments, mailed, acked, crashes>>

\* stripe.Subscription.delete(old) raises when the subscription is gone
DropOld(w) ==
  LET old == upgradeFrom[handler[w].task.sub] IN
  /\ At(w, "drop_old")
  /\ \/ /\ DeleteRemote(old)
        /\ Goto(w, "load_old")
        /\ UNCHANGED <<rows, payments, mailed, acked, crashes>>
     \/ /\ remote[old].state # "active"
        /\ Fail(w)

\* cancel_immediately: the new end of the period is the time before the SELECT.
LoadOld(w) ==
  LET old == upgradeFrom[handler[w].task.sub] IN
  /\ At(w, "load_old")
  /\ \/ /\ rows[old] = Absent
        /\ Goto(w, "find")
     \/ /\ rows[old] # Absent
        /\ handler' = [handler EXCEPT ![w] =
             [@ EXCEPT !.pc = "cancel_old", !.loaded = rows[old], !.period = now]]
  /\ UNCHANGED <<stripeVars, rows, payments, mailed, acked, crashes>>

\* Commit, then refresh: the object in memory is the row as committed.
CancelOld(w) ==
  LET old == upgradeFrom[handler[w].task.sub]
      row == CanceledNow(rows[old], handler[w].loaded, handler[w].period)
  IN
  /\ At(w, "cancel_old")
  /\ rows' = [rows EXCEPT ![old] = row]
  /\ handler' = [handler EXCEPT ![w] = [@ EXCEPT !.pc = "find", !.loaded = row, !.period = 0]]
  /\ UNCHANGED <<stripeVars, payments, mailed, acked, crashes>>

Find(w) ==
  /\ At(w, "find")
  /\ \/ /\ rows[handler[w].task.sub] # Absent
        /\ Answer(w)
     \/ /\ rows[handler[w].task.sub] = Absent
        /\ Goto(w, "load_access")
        /\ UNCHANGED acked
  /\ UNCHANGED <<stripeVars, rows, payments, mailed, crashes>>

-----------------------------------------------------------------------------
(* SubscriptionRepoistory.create_subscription, for a checkout with status  *)
(* PAST_DUE and for a paid invoice without a row with status ACTIVE.       *)

\* Mutant: rows start in a status no query knows
InsertStatusPending(e) == "PENDING"

InsertStatus(e) == IF e.type = "checkout" THEN "PAST_DUE" ELSE "ACTIVE"

\* A row this request has already loaded keeps its attributes in memory (the
\* session's identity map), whatever the SELECT finds in the table.
StatusInMemory(w, s) ==
  IF s = upgradeFrom[handler[w].task.sub] /\ handler[w].loaded # Absent
  THEN handler[w].loaded.status
  ELSE rows[s].status

LoadAccess(w) ==
  LET found == WithAccess(Owner[handler[w].task.sub]) IN
  /\ At(w, "load_access")
  /\ \/ /\ found = {}
        /\ Goto(w, "insert")
     \/ \E old \in Subs :
          /\ found = {old}
          /\ handler' = [handler EXCEPT ![w] =
               [@ EXCEPT !.pc = "insert", !.old = old,
                         !.oldStatus = StatusInMemory(w, old)]]
     \/ /\ \E s, t \in found : s # t
        /\ handler' = [handler EXCEPT ![w] = Idle]
  /\ UNCHANGED <<stripeVars, rows, payments, mailed, acked, crashes>>

\* Mutant: the replaced row loses its period too (cancel_immediately)
InsertEndingOld(w) ==
  LET s == handler[w].task.sub IN
  /\ At(w, "insert")
  /\ rows[s] = Absent
  /\ rows' = [t \in Subs |->
       CASE t = s -> NewRow(InsertStatus(handler[w].task), now)
         [] t = handler[w].old -> [status |-> "CANCELED", end |-> now]
         [] OTHER -> rows[t]]
  /\ \/ handler[w].task.type = "checkout" /\ Answer(w)
     \/ handler[w].task.type = "paid" /\ Forget(w, "pay") /\ UNCHANGED acked
  /\ UNCHANGED <<stripeVars, payments, mailed, crashes>>

\* One commit: the old row's status and the new row, or neither when
\* provider_subscription_id is taken.
Insert(w) ==
  LET s == handler[w].task.sub
      old == handler[w].old
  IN
  /\ At(w, "insert")
  /\ \/ /\ rows[s] = Absent
        /\ rows' = [t \in Subs |->
             CASE t = s -> NewRow(InsertStatus(handler[w].task), now)
               [] t = old /\ handler[w].oldStatus # "CANCELED"
                    -> [rows[t] EXCEPT !.status = "CANCELED"]
               [] OTHER -> rows[t]]
        /\ \/ handler[w].task.type = "checkout" /\ Answer(w)
           \/ handler[w].task.type = "paid" /\ Forget(w, "pay") /\ UNCHANGED acked
        /\ UNCHANGED <<stripeVars, payments, mailed, crashes>>
     \/ /\ rows[s] # Absent
        /\ Fail(w)

-----------------------------------------------------------------------------
(* invoice.payment_succeeded: handle_invoice_payment_succeeded and then    *)
(* record_invoice_payment and the e-mail task.  The period is the one the  *)
(* Stripe subscription has when the delivery is handled.                   *)

PaymentSucceeded(w, s, i) ==
  Accept(w, Paid(s, i), "load_period", Absent, remote[s].end)

LoadPeriod(w) ==
  LET row == rows[handler[w].task.sub] IN
  /\ At(w, "load_period")
  /\ \/ /\ row = Absent
        /\ Forget(w, "load_access")
     \/ /\ row # Absent
        /\ handler' = [handler EXCEPT ![w] = [@ EXCEPT !.pc = "set_period", !.loaded = row]]
  /\ UNCHANGED <<stripeVars, rows, payments, mailed, acked, crashes>>

\* Mutant: the receipt is sent without recording the payment
SetPeriodUnrecorded(w) ==
  LET s == handler[w].task.sub IN
  /\ At(w, "set_period")
  /\ rows' = [rows EXCEPT ![s] =
                WithPeriod(@, handler[w].loaded, handler[w].period)]
  /\ Forget(w, "notify")
  /\ UNCHANGED <<stripeVars, payments, mailed, acked, crashes>>

SetPeriod(w) ==
  LET s == handler[w].task.sub IN
  /\ At(w, "set_period")
  /\ rows' = [rows EXCEPT ![s] =
                WithPeriod(@, handler[w].loaded, handler[w].period)]
  /\ Forget(w, "pay")
  /\ UNCHANGED <<stripeVars, payments, mailed, acked, crashes>>

\* Mutant: no unique constraint on the provider's invoice id
PayAgain(w) ==
  /\ At(w, "pay")
  /\ payments' = payments \cup {handler[w].task}
  /\ Forget(w, "notify")
  /\ UNCHANGED <<stripeVars, rows, mailed, acked, crashes>>

\* uq_provider_invoice_id: recording an invoice twice raises IntegrityError
Pay(w) ==
  LET e == handler[w].task IN
  /\ At(w, "pay")
  /\ \/ /\ e \notin payments
        /\ payments' = payments \cup {e}
        /\ Forget(w, "notify")
        /\ UNCHANGED <<stripeVars, rows, mailed, acked, crashes>>
     \/ /\ e \in payments
        /\ Fail(w)

-----------------------------------------------------------------------------
(* customer.subscription.deleted and invoice.payment_failed.               *)

\* Without a row the handler raises 400: the delivery leaves no trace.
SubscriptionDeleted(w, s) ==
  /\ rows[s] # Absent
  /\ Accept(w, Deleted(s), "cancel_now", rows[s], now)

\* Mutant: the row is cancelled as a user does it, with the period it has
CancelNowKeepingPeriod(w) ==
  LET s == handler[w].task.sub IN
  /\ At(w, "cancel_now")
  /\ rows' = [rows EXCEPT ![s] = Canceled(@, handler[w].loaded)]
  /\ Forget(w, "notify")
  /\ UNCHANGED <<stripeVars, payments, mailed, acked, crashes>>

CancelNow(w) ==
  LET s == handler[w].task.sub IN
  /\ At(w, "cancel_now")
  /\ rows' = [rows EXCEPT ![s] = CanceledNow(@, handler[w].loaded, handler[w].period)]
  /\ Forget(w, "notify")
  /\ UNCHANGED <<stripeVars, payments, mailed, acked, crashes>>

\* Mutant: a row that is not to be marked raises 400, as for deletions
PaymentFailedStrict(w, s, i) ==
  /\ rows[s].status \notin {"NONE", "CANCELED"}
  /\ Accept(w, Failed(s, i), "past_due", rows[s], 0)

\* update_sub_status leaves a missing or CANCELED row alone, and the event is
\* answered 200 without an e-mail.
PaymentFailed(w, s, i) ==
  \/ /\ rows[s].status \notin {"NONE", "CANCELED"}
     /\ Accept(w, Failed(s, i), "past_due", rows[s], 0)
  \/ /\ rows[s].status \in {"NONE", "CANCELED"}
     /\ DeliveriesAuthenticated
     /\ At(w, "idle")
     /\ Failed(s, i) \in sent
     /\ acked' = acked \cup {Failed(s, i)}
     /\ UNCHANGED <<stripeVars, rows, payments, mailed, handler, crashes>>

SetPastDue(w) ==
  LET s == handler[w].task.sub IN
  /\ At(w, "past_due")
  /\ rows' = [rows EXCEPT ![s] = PastDue(@, handler[w].loaded)]
  /\ Forget(w, "notify")
  /\ UNCHANGED <<stripeVars, payments, mailed, acked, crashes>>

\* task.delay(...), then 200.  The notices of a cancellation and of a failed
\* payment are enqueued here too; only receipts are counted.
Notify(w) ==
  LET e == handler[w].task IN
  /\ At(w, "notify")
  /\ mailed' = [p \in PaidEvents |->
       IF p = e /\ mailed[p] < MaxMails THEN mailed[p] + 1 ELSE mailed[p]]
  /\ Answer(w)
  /\ UNCHANGED <<stripeVars, rows, payments, crashes>>

-----------------------------------------------------------------------------
(* Requests of users.                                                      *)

\* subscribe_user_to_plan.  The check and the creation of the session are one
\* step: no later step reads the check's result, and creating a session only
\* names a subscription nobody else uses yet.
Subscribe(s) ==
  /\ Owner[s] \in Customers
  /\ WithAccess(Owner[s]) = {}
  /\ CreateSession(s, NoSub)
  /\ UNCHANGED localVars

\* upgrade_subscription
Upgrade(s, old) ==
  /\ Owner[s] \in Customers
  /\ WithAccess(Owner[s]) = {old}
  /\ PlanOf[s] # PlanOf[old]
  /\ CreateSession(s, old)
  /\ UNCHANGED localVars

\* cancel_subscription_at_end_of_period: the row is loaded here, CancelRemote
\* tells Stripe and UserCancelCommit writes the row.
UserCancel(w, s) ==
  /\ At(w, "idle")
  /\ WithAccess(Owner[s]) = {s}
  /\ handler' = [handler EXCEPT ![w] =
       [Idle EXCEPT !.pc = "modify", !.task = Request(s), !.loaded = rows[s]]]
  /\ UNCHANGED <<stripeVars, rows, payments, mailed, acked, crashes>>

\* Nothing sets the column cancel_at_period_end, so the check for it never
\* refuses.  Subscription.modify raises when the subscription is gone.
CancelRemote(w) ==
  LET s == handler[w].task.sub IN
  /\ At(w, "modify")
  /\ \/ /\ CancelRemoteAtPeriodEnd(s)
        /\ Goto(w, "user_cancel")
        /\ UNCHANGED <<rows, payments, mailed, acked, crashes>>
     \/ /\ remote[s].state # "active"
        /\ Fail(w)

\* Mutant: cancelling ends the period at once
UserCancelCommitNow(w) ==
  LET s == handler[w].task.sub IN
  /\ At(w, "user_cancel")
  /\ rows' = [rows EXCEPT ![s] = CanceledNow(@, handler[w].loaded, now)]
  /\ handler' = [handler EXCEPT ![w] = Idle]
  /\ UNCHANGED <<stripeVars, payments, mailed, acked, crashes>>

\* current_period_end is the loaded one and is not written again
UserCancelCommit(w) ==
  LET s == handler[w].task.sub IN
  /\ At(w, "user_cancel")
  /\ rows' = [rows EXCEPT ![s] = Canceled(@, handler[w].loaded)]
  /\ handler' = [handler EXCEPT ![w] = Idle]
  /\ UNCHANGED <<stripeVars, payments, mailed, acked, crashes>>

-----------------------------------------------------------------------------
\* The hourly task: its body is pass
ExpireSubscriptions == UNCHANGED vars

\* The process running a handler is killed, or the broker or the database is
\* unreachable: what was committed stays, the answer is not 200.
Crash(w) ==
  /\ ~At(w, "idle")
  /\ crashes < MaxCrashes
  /\ crashes' = crashes + 1
  /\ handler' = [handler EXCEPT ![w] = Idle]
  /\ UNCHANGED <<stripeVars, rows, payments, mailed, acked>>

StripeStep ==
  /\ \/ \E s \in Subs : \/ CompleteCheckout(s)
                        \/ Renew(s)
                        \/ PayInvoice(s)
                        \/ FailInvoice(s)
                        \/ DeleteRemote(s)
     \/ Tick
  /\ UNCHANGED localVars

UserStep ==
  \E s \in Subs : \/ Subscribe(s)
                  \/ \E old \in Subs : Upgrade(s, old)
                  \/ \E w \in Workers : UserCancel(w, s)

Deliver(w, s) ==
  \/ UserSubscribe(w, s)
  \/ SubscriptionDeleted(w, s)
  \/ \E i \in InvoiceNo : PaymentSucceeded(w, s, i) \/ PaymentFailed(w, s, i)

Step(w) ==
  \/ DropOld(w)    \/ LoadOld(w)   \/ CancelOld(w)  \/ Find(w)
  \/ LoadAccess(w) \/ Insert(w)    \/ LoadPeriod(w) \/ SetPeriod(w)
  \/ Pay(w)        \/ CancelNow(w) \/ SetPastDue(w) \/ Notify(w)
  \/ CancelRemote(w) \/ UserCancelCommit(w)

Next ==
  \/ StripeStep
  \/ UserStep
  \/ \E w \in Workers : (\E s \in Subs : Deliver(w, s)) \/ Step(w) \/ Crash(w)
  \/ ExpireSubscriptions

Spec == Init /\ [][Next]_vars
=============================================================================
