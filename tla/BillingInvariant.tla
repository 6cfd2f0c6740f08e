-------------------------- MODULE BillingInvariant --------------------------
(***************************************************************************)
(* The inductive invariant behind the safety properties of the             *)
(* subscription lifecycle.  The properties say what is in the tables; what *)
(* makes them inductive is what a handler half-way through may rely on.    *)
(***************************************************************************)
EXTENDS BillingProperties

\* Only subscriptions whose checkout was completed have events, periods and
\* invoices, so the upgrade metadata of an event's subscription is fixed; a
\* deletion is announced only when it has happened.
Started(s) == remote[s].state \in {"active", "deleted"}

EventsOfStarted ==
  /\ \A e \in sent : Started(e.sub)
  /\ \A s \in Subs : IF Started(s) THEN remote[s].invoices > 0
                                    ELSE remote[s].end = 0
  /\ \A s \in Subs : Deleted(s) \in sent => remote[s].state = "deleted"

\* The kind of event a handler is in the middle of, by step.
TypesAt(pc) ==
  CASE pc \in {"drop_old", "load_old", "cancel_old", "find"} -> {"checkout"}
    [] pc \in {"load_access", "insert"} -> {"checkout", "paid"}
    [] pc \in {"load_period", "set_period", "pay"} -> {"paid"}
    [] pc = "cancel_now" -> {"deleted"}
    [] pc = "past_due" -> {"failed"}
    [] pc = "notify" -> {"paid", "deleted", "failed"}
    [] pc \in {"modify", "user_cancel"} -> {"cancel"}
    [] OTHER -> {"none"}

\* A handler works on an event Stripe has sent, or on a user's request.
TaskKnown(h) ==
  /\ h.task.type \in TypesAt(h.pc)
  /\ h.pc \notin {"idle", "modify", "user_cancel"} => h.task \in sent

\* Rows are never deleted: what a handler has loaded is still there, and the
\* upgrade steps have a subscription to replace.
RowsLoaded(h) ==
  /\ h.pc \in {"set_period", "pay", "cancel_now", "past_due", "modify", "user_cancel"}
       => rows[h.task.sub] \in Rows
  /\ h.pc = "notify" /\ h.task.type # "failed" => rows[h.task.sub] \in Rows
  /\ h.pc \in {"set_period", "cancel_now", "past_due", "modify", "user_cancel",
               "cancel_old"}
       => h.loaded \in Rows
  /\ h.pc \in {"drop_old", "load_old", "cancel_old"}
       => upgradeFrom[h.task.sub] \in Subs
  /\ h.pc = "cancel_old" => rows[upgradeFrom[h.task.sub]] \in Rows
  /\ h.old # NoSub => rows[h.old] \in Rows

\* From the Stripe call on, a replaced subscription is gone at Stripe.
OldDropped(h) ==
  /\ h.pc \in {"load_old", "cancel_old", "find", "load_access", "insert"}
  /\ h.task.type = "checkout"
  /\ upgradeFrom[h.task.sub] # NoSub
  => remote[upgradeFrom[h.task.sub]].state = "deleted"

\* The period a handler carries is one Stripe had, maybe renewed since, or a
\* time that has come.
PeriodKnown(h) ==
  /\ h.pc \in {"load_period", "set_period"} => h.period <= remote[h.task.sub].end
  /\ h.pc \in {"cancel_old", "cancel_now"} => h.period <= now

HandlerOK(h) == TaskKnown(h) /\ RowsLoaded(h) /\ OldDropped(h) /\ PeriodKnown(h)

HandlersOK == \A w \in Workers : HandlerOK(handler[w])

\* Between recording a payment and enqueueing its receipt there is exactly one
\* handler, and no receipt yet.
ReceiptPending ==
  /\ \A e \in PaidEvents : mailed[e] > 0 => e \in payments
  /\ \A w \in Workers :
       /\ At(w, "notify")
       /\ handler[w].task.type = "paid"
       => /\ handler[w].task \in payments
          /\ mailed[handler[w].task] = 0
          /\ \A v \in Workers \ {w} :
               At(v, "notify") => handler[v].task # handler[w].task

IInv ==
  /\ TypeOK
  /\ EventsOfStarted
  /\ HandlersOK
  /\ acked \subseteq sent
  /\ payments \subseteq sent
  /\ AccessBacked
  /\ AckMeansRecorded
  /\ ReceiptPending
  /\ ReceiptAtMostOnce

-----------------------------------------------------------------------------
(* What GrantHasCause and ReplacedOnce need besides.                       *)

\* A row that is PAST_DUE though no invoice failed is as its checkout made it:
\* it grants nothing, and a handler about to write its period has seen it so,
\* and will make it ACTIVE.
Unmarked(s) ==
  rows[s].status = "PAST_DUE" /\ \A i \in InvoiceNo : Failed(s, i) \notin sent

MarksOK ==
  \A s \in Subs : Unmarked(s) =>
    /\ rows[s].end <= now
    /\ \A w \in Workers : At(w, "set_period") /\ handler[w].task.sub = s
                            => handler[w].loaded.status = "PAST_DUE"

\* Only a subscription that gave access was cancelled by its user.
CancelsLoaded ==
  \A w \in Workers :
    handler[w].pc \in {"modify", "user_cancel"} => handler[w].loaded.status # "PAST_DUE"

GInv == IInv /\ MarksOK /\ CancelsLoaded /\ ReplacedByOne

-----------------------------------------------------------------------------
(* What every step keeps, which is why a handler may rely on what it saw   *)
(* before an await.                                                        *)

\* Stripe's clock and periods advance, its deletions are final and the upgrade
\* metadata of a completed checkout is fixed.
StripeAdvances ==
  /\ now <= now'
  /\ sent \subseteq sent'
  /\ \A s \in Subs :
       /\ remote[s].end <= remote'[s].end
       /\ Started(s) => Started(s)' /\ upgradeFrom'[s] = upgradeFrom[s]
       /\ remote[s].state = "deleted" => remote'[s].state = "deleted"

\* Rows, payments, receipts and answers stay.
NothingUndone ==
  /\ StripeAdvances
  /\ \A s \in Subs : rows[s] \in Rows => rows'[s] \in Rows
  /\ payments \subseteq payments'
  /\ \A e \in PaidEvents : mailed[e] <= mailed'[e]
  /\ acked \subseteq acked'
=============================================================================
