-------------------------- MODULE BillingProperties --------------------------
(***************************************************************************)
(* What the subscription lifecycle is expected to guarantee.               *)
(***************************************************************************)
EXTENDS Billing

(***************************************************************************)
(* Fairness.  Stripe redelivers an event until it is acknowledged, so a    *)
(* delivery that is possible again and again happens again and again; a    *)
(* handler that has started runs on, as the event loop guarantees.  Users, *)
(* Stripe's own decisions and crashes are not obliged to happen.           *)
(***************************************************************************)
DeliverEvent(e) ==
  /\ \E w \in Workers : Deliver(w, e.sub)
  /\ \/ e \in acked'
     \/ \E w \in Workers : At(w, "idle") /\ handler'[w].task = e

Fairness ==
  /\ \A e \in Events : SF_vars(DeliverEvent(e))
  /\ \A w \in Workers : WF_vars(Step(w))
  /\ WF_vars(ExpireSubscriptions)

FairSpec == Spec /\ Fairness

Quiet == \A w \in Workers : At(w, "idle")

-----------------------------------------------------------------------------
(* Guarantees.                                                             *)

\* The webhook handlers implement the payment ledger: whatever is delivered
\* twice, late, concurrently or half-way, an invoice is recorded once and only
\* if Stripe collected it, and a receipt is only enqueued for a recorded one.
Ledger == INSTANCE PaymentLedger WITH
  Invoices  <- PaidEvents,
  collected <- sent \cap PaidEvents,
  recorded  <- payments,
  receipted <- {e \in PaidEvents : mailed[e] > 0}

ImplementsLedger == Ledger!LedgerSpec

\* The receipt e-mail of an invoice is enqueued at most once: the unique
\* payment row is what keeps redelivered and concurrent events from mailing
\* the customer again (service.py stripe_webhook).
ReceiptAtMostOnce == \A e \in PaidEvents : mailed[e] <= 1

\* An event answered 200 is never delivered again on its own account, so what
\* it stands for must be in the tables by then.  Recorded is the part the code
\* keeps: the row of a completed checkout (and the end of the subscription it
\* replaces, or the customer pays twice), the row, payment and receipt of a paid
\* invoice, and the row a deletion is about.
Recorded(e) ==
  /\ e.type # "failed" => rows[e.sub] # Absent
  /\ e.type = "checkout" /\ upgradeFrom[e.sub] # NoSub
       => remote[upgradeFrom[e.sub]].state = "deleted"
  /\ e.type = "paid" => e \in payments /\ mailed[e] > 0

AckMeansRecorded == \A e \in acked : Recorded(e)

\* Access in the database never reaches further than the period of the Stripe
\* subscription, and a subscription none of whose invoices was ever collected
\* gives none: "New subscriptions start PAST_DUE until webhook confirmation".
AccessBacked ==
  \A s \in Subs :
    rows[s].end > now => /\ Collected(s) # {}
                         /\ rows[s].end <= remote[s].end

\* Other than by the passing of time, a user loses access through a
\* subscription only if Stripe has deleted it, one of its invoices failed, or
\* a delivery of its own paid invoice is writing a period that has been
\* renewed meanwhile.  In particular no checkout, cancellation or event of
\* another subscription takes it away.
RevocationCause(s) ==
  \/ remote[s].state = "deleted"
  \/ \E i \in InvoiceNo : Failed(s, i) \in sent
  \/ \E w \in Workers : /\ At(w, "set_period")
                        /\ handler[w].task.sub = s
                        /\ handler[w].period < remote[s].end

RevocationHasCause ==
  [][\A s \in Subs :
       Access(s) /\ ~Access(s)' /\ now' = now => RevocationCause(s)]_vars

\* Access is only gained by a delivery of the subscription's own paid invoice
\* that writes a period.  One exception: the mark a failed payment leaves is
\* lifted by a cancellation, or a replacement, that had loaded the row before.
\* No checkout, deletion, failed payment or event of another subscription gives
\* access, however stale the rows its handler works on.
GrantCause(s) ==
  \/ \E w \in Workers : At(w, "set_period") /\ handler[w].task.sub = s
  \/ /\ rows[s].status = "PAST_DUE"
     /\ \E i \in InvoiceNo : Failed(s, i) \in sent
     /\ \E w \in Workers :
          \/ /\ At(w, "user_cancel")
             /\ handler[w].task.sub = s
             /\ handler[w].loaded.status = "ACTIVE"
          \/ At(w, "insert") /\ handler[w].old = s

GrantHasCause == [][\A s \in Subs : ~Access(s) /\ Access(s)' => GrantCause(s)]_vars

\* Stripe deletes a subscription once and refuses to do so again: that is what
\* keeps redelivered and concurrent checkout events of an upgrade, and those of
\* two upgrades of one subscription, from replacing it twice.
AfterDrop == {"load_old", "cancel_old", "find", "load_access", "insert"}

Replacing(old) == {w \in Workers : /\ handler[w].task.type = "checkout"
                                   /\ handler[w].pc \in AfterDrop
                                   /\ upgradeFrom[handler[w].task.sub] = old}

ReplacedByOne == \A old \in Subs : \A v, w \in Replacing(old) : v = w

\* It is also what loses an upgrade: once the old subscription is deleted, by the
\* upgrade's own handler, which then died, or before it, nobody takes it up again.
ReplacedOnce ==
  [][\A old \in Subs :
       remote[old].state = "deleted" => Replacing(old)' \subseteq Replacing(old)]_vars

\* When no handler is killed and webhooks get through, every event Stripe
\* emits is eventually answered 200, in whatever order they arrive.
EveryEventAcked == \A e \in Events : e \in sent ~> e \in acked

-----------------------------------------------------------------------------
(* Claims of the documentation and of comments that the code does not      *)
(* keep.  Each is refuted by a run of its own.                             *)

\* docs.md:38 "Duplicate active subs are blocked."
NoDuplicateAccess == \A u \in Users : Cardinality(WithAccess(u)) <= 1

\* docs.md:47 "`invoice.payment_succeeded`: retrieves subscription, updates
\* period start/end, records payment": once the event of a paid invoice is
\* answered 200, the row reaches the end of the period that invoice pays for,
\* as long as the subscription lives.
PeriodEnd(s, i) == remote[s].end - (remote[s].invoices - i) * Period

PeriodApplied(s, i) ==
  remote[s].state = "active" => rows[s].end >= PeriodEnd(s, i)

Applied(e) == Recorded(e) /\ (e.type = "paid" => PeriodApplied(e.sub, e.inv))

AckMeansApplied == \A e \in acked : Applied(e)

\* stripe_gateway.py:416, on the deletion handler: "Current period end changes
\* to now so user has no access to the deleted plan"
NoAccessAfterDeletion ==
  \A s \in Subs : Deleted(s) \in acked /\ Quiet => ~Access(s)
=============================================================================
