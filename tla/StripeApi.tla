------------------------------ MODULE StripeApi ------------------------------
(***************************************************************************)
(* Stripe as the billing code uses it: checkout sessions, subscriptions    *)
(* with a current period, invoices, and the webhook events they give rise  *)
(* to.  Everything in this module is outside src/: it is modelled from the *)
(* calls in src/src/billing/stripe_gateway.py and from the event fields    *)
(* that file reads.                                                        *)
(*                                                                         *)
(* A Stripe subscription is named when its checkout session is created:    *)
(* one session gives at most one subscription, whose owner and plan are    *)
(* fixed by the session's metadata, so both are constants.                 *)
(***************************************************************************)
EXTENDS Integers, FiniteSets

CONSTANTS
  Users,        \* local users, i.e. client_reference_id / metadata.user_id
  Plans,        \* local plans, i.e. metadata.plan_id
  Subs,         \* Stripe subscriptions (provider_subscription_id)
  NoSub,        \* no subscription
  Owner,        \* the user a subscription's metadata names
  PlanOf,       \* the plan a subscription's metadata names
  Period,       \* length of a billing period, in clock ticks
  MaxTime,      \* bound on the clock
  MaxInvoices,  \* bound on the invoices of one subscription
  MaxFailures   \* bound on the invoices whose payment fails at first

ASSUME StripeAssumption ==
  /\ NoSub \notin Subs
  /\ Owner \in [Subs -> Users]
  /\ PlanOf \in [Subs -> Plans]
  /\ Period \in Nat \ {0}
  /\ MaxTime \in Nat
  /\ MaxInvoices \in Nat \ {0}
  /\ MaxFailures \in Nat

(***************************************************************************)
(* A webhook event.  inv is the ordinal of the invoice within its          *)
(* subscription: invoice 1 has billing_reason subscription_create, the     *)
(* later ones subscription_cycle.                                          *)
(***************************************************************************)
Event(type, s, inv) == [type |-> type, sub |-> s, inv |-> inv]

Checkout(s)  == Event("checkout", s, 0)   \* checkout.session.completed
Deleted(s)   == Event("deleted", s, 0)    \* customer.subscription.deleted
Paid(s, i)   == Event("paid", s, i)       \* invoice.payment_succeeded
Failed(s, i) == Event("failed", s, i)     \* invoice.payment_failed

InvoiceNo == 1 .. MaxInvoices

Events ==
  [type : {"checkout", "deleted"}, sub : Subs, inv : {0}]
    \cup [type : {"paid", "failed"}, sub : Subs, inv : InvoiceNo]

VARIABLES
  now,          \* the clock both sides read
  remote,       \* Stripe's subscription objects
  upgradeFrom,  \* metadata.upgrade_from_subscription_id of each session
  sent          \* events Stripe has emitted; each may be delivered any number
                \* of times, in any order, from then on

stripeVars == <<now, remote, upgradeFrom, sent>>

RemoteStates == {"none", "checkout", "active", "deleted"}

StripeTypeOK ==
  /\ now \in 0 .. MaxTime
  /\ remote \in [Subs -> [state : RemoteStates, end : Nat,
                          invoices : 0 .. MaxInvoices, atPeriodEnd : BOOLEAN]]
  /\ upgradeFrom \in [Subs -> Subs \cup {NoSub}]
  /\ sent \subseteq Events

StripeInit ==
  /\ now = 0
  /\ remote = [s \in Subs |-> [state |-> "none", end |-> 0,
                               invoices |-> 0, atPeriodEnd |-> FALSE]]
  /\ upgradeFrom = [s \in Subs |-> NoSub]
  /\ sent = {}

-----------------------------------------------------------------------------
(* Calls the backend makes.                                                *)

\* stripe.checkout.Session.create; from is metadata.upgrade_from_subscription_id
CreateSession(s, from) ==
  /\ remote[s].state = "none"
  /\ remote' = [remote EXCEPT ![s].state = "checkout"]
  /\ upgradeFrom' = [upgradeFrom EXCEPT ![s] = from]
  /\ UNCHANGED <<now, sent>>

\* stripe.Subscription.delete; also what Stripe does itself when dunning gives
\* up, when an operator deletes the subscription, or at the end of a period
\* that is the last one.  Refused for a subscription already deleted.
DeleteRemote(s) ==
  /\ remote[s].state = "active"
  /\ remote' = [remote EXCEPT ![s].state = "deleted"]
  /\ sent' = sent \cup {Deleted(s)}
  /\ UNCHANGED <<now, upgradeFrom>>

\* stripe.Subscription.modify(cancel_at_period_end=True)
CancelRemoteAtPeriodEnd(s) ==
  /\ remote[s].state = "active"
  /\ remote' = [remote EXCEPT ![s].atPeriodEnd = TRUE]
  /\ UNCHANGED <<now, upgradeFrom, sent>>

-----------------------------------------------------------------------------
(* Steps Stripe takes by itself.                                           *)

\* The customer completes the checkout page.  The first invoice is open; it
\* may be paid later (delayed payment methods).
CompleteCheckout(s) ==
  /\ remote[s].state = "checkout"
  /\ remote' = [remote EXCEPT ![s] = [state |-> "active", end |-> now + Period,
                                      invoices |-> 1, atPeriodEnd |-> FALSE]]
  /\ sent' = sent \cup {Checkout(s)}
  /\ UNCHANGED <<now, upgradeFrom>>

\* A new period begins and its invoice opens, before that invoice is paid.
Renew(s) ==
  /\ remote[s].state = "active"
  /\ ~remote[s].atPeriodEnd
  /\ remote[s].end <= now
  /\ remote[s].invoices < MaxInvoices
  /\ remote' = [remote EXCEPT ![s].end = @ + Period, ![s].invoices = @ + 1]
  /\ UNCHANGED <<now, upgradeFrom, sent>>

\* The open invoice of the current period is collected, or an attempt fails.
SettleInvoice(s, type) ==
  LET i == remote[s].invoices IN
  /\ remote[s].state = "active"
  /\ Paid(s, i) \notin sent
  /\ sent' = sent \cup {Event(type, s, i)}
  /\ UNCHANGED <<now, remote, upgradeFrom>>

PayInvoice(s)  == SettleInvoice(s, "paid")
FailInvoice(s) ==
  /\ Failed(s, remote[s].invoices) \notin sent
  /\ Cardinality({e \in sent : e.type = "failed"}) < MaxFailures
  /\ SettleInvoice(s, "failed")

Tick == now < MaxTime /\ now' = now + 1 /\ UNCHANGED <<remote, upgradeFrom, sent>>

\* The invoices of s that Stripe has collected.
Collected(s) == {i \in InvoiceNo : Paid(s, i) \in sent}
=============================================================================
