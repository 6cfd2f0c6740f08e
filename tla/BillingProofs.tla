---------------------------- MODULE BillingProofs ----------------------------
(***************************************************************************)
(* Machine-checked proofs of the safety properties of the subscription     *)
(* lifecycle, for every set of users, subscriptions and handlers and every *)
(* value of the bounds.                                                    *)
(***************************************************************************)
EXTENDS BillingInvariant, TLAPS

-----------------------------------------------------------------------------
(* Events and what a handler may hold.                                     *)

\* The four kinds of webhook event, and the requests, are of their type.
LEMMA EventTypes ==
  /\ \A s \in Subs : /\ Checkout(s) \in Events
                     /\ Deleted(s) \in Events
                     /\ Request(s) \in Tasks
  /\ \A s \in Subs, i \in InvoiceNo : Paid(s, i) \in PaidEvents /\ Failed(s, i) \in Events
  /\ PaidEvents \subseteq Events
  /\ Events \subseteq Tasks
BY DEF Checkout, Deleted, Request, Paid, Failed, Event, Events, PaidEvents, Tasks

\* An idle handler is of the type of handlers.
LEMMA IdleType == Idle \in Handlers
BY DEF Idle, Handlers, Absent, NoTask

\* What each step's commit writes is again a row.
LEMMA RowTypes ==
  /\ \A stored, loaded \in Rows, n \in Nat :
       /\ WithPeriod(stored, loaded, n) \in Rows
       /\ Canceled(stored, loaded) \in Rows
       /\ CanceledNow(stored, loaded, n) \in Rows
       /\ PastDue(stored, loaded) \in Rows
  /\ \A status \in Statuses, n \in Nat : NewRow(status, n) \in Rows
  /\ Absent \notin Rows
BY DEF WithPeriod, Canceled, CanceledNow, PastDue, NewRow, Flush, Rows, Statuses, Absent

LEMMA InitInv == Init => IInv
<1> SUFFICES ASSUME Init PROVE IInv
  OBVIOUS
<1>1. TypeOK
  BY StripeAssumption, BillingAssumption, IdleType
  DEF Init, StripeInit, TypeOK, StripeTypeOK, RemoteStates, Events, MaxMails
<1>2. EventsOfStarted /\ acked \subseteq sent /\ payments \subseteq sent
  BY DEF Init, StripeInit, EventsOfStarted, Started
<1>3. HandlersOK
  BY DEF Init, HandlersOK, HandlerOK, Idle, NoTask, Event, TaskKnown, TypesAt, RowsLoaded,
         OldDropped, PeriodKnown
<1>4. AccessBacked
  BY DEF Init, StripeInit, AccessBacked, Absent
<1>5. AckMeansRecorded
  BY DEF Init, AckMeansRecorded, Recorded
<1>6. ReceiptPending /\ ReceiptAtMostOnce
  BY DEF Init, ReceiptPending, ReceiptAtMostOnce, At, Idle
<1> QED
  BY <1>1, <1>2, <1>3, <1>4, <1>5, <1>6 DEF IInv

-----------------------------------------------------------------------------
(* Type correctness.                                                       *)

USE DEF stripeVars, localVars, vars

\* Every step keeps the variables in their types.
LEMMA TypeStripe == ASSUME IInv, StripeStep PROVE TypeOK'
<1> USE StripeAssumption, BillingAssumption, EventTypes DEF IInv, TypeOK, StripeTypeOK, RemoteStates
<1>1. ASSUME NEW s \in Subs, CompleteCheckout(s), UNCHANGED localVars PROVE TypeOK'
  BY <1>1 DEF CompleteCheckout
<1>2. ASSUME NEW s \in Subs, Renew(s), UNCHANGED localVars PROVE TypeOK'
  BY <1>2 DEF Renew
<1>3. ASSUME NEW s \in Subs, PayInvoice(s) \/ FailInvoice(s), UNCHANGED localVars
      PROVE  TypeOK'
  <2>1. remote[s].invoices \in InvoiceNo
    BY <1>3 DEF PayInvoice, FailInvoice, SettleInvoice, InvoiceNo, EventsOfStarted, Started
  <2> QED
    BY <1>3, <2>1 DEF PayInvoice, FailInvoice, SettleInvoice, Paid, Failed
<1>4. ASSUME NEW s \in Subs, DeleteRemote(s), UNCHANGED localVars PROVE TypeOK'
  BY <1>4 DEF DeleteRemote
<1>5. ASSUME Tick, UNCHANGED localVars PROVE TypeOK'
  BY <1>5 DEF Tick
<1> QED
  BY <1>1, <1>2, <1>3, <1>4, <1>5 DEF StripeStep

\* What the invariant says of the handler that takes a step.
LEMMA HandlerFacts ==
  ASSUME IInv, NEW w \in Workers
  PROVE  /\ handler[w] \in Handlers
         /\ TaskKnown(handler[w])
         /\ RowsLoaded(handler[w])
         /\ OldDropped(handler[w])
         /\ PeriodKnown(handler[w])
         /\ ~At(w, "idle") => handler[w].task \in Tasks /\ handler[w].task.sub \in Subs
         /\ handler[w].pc \notin {"idle", "modify", "user_cancel"} =>
              /\ handler[w].task \in sent
              /\ handler[w].task \in Events
              /\ handler[w].task.type = "paid" => handler[w].task \in PaidEvents
<1>1. /\ handler[w] \in Handlers
      /\ TaskKnown(handler[w])
      /\ RowsLoaded(handler[w])
      /\ OldDropped(handler[w])
      /\ PeriodKnown(handler[w])
  BY DEF IInv, TypeOK, HandlersOK, HandlerOK
<1>2. \A e \in Events : e.type = "paid" => e \in PaidEvents
  BY DEF Events, PaidEvents
<1>3. ~At(w, "idle") => handler[w].task # NoTask
  BY <1>1 DEF At, TaskKnown, TypesAt, NoTask, Event, Handlers, Steps
<1> QED
  BY <1>1, <1>2, <1>3 DEF At, TaskKnown, Handlers, Tasks, Events, IInv, TypeOK, StripeTypeOK

LEMMA TypeAccept ==
  ASSUME IInv, NEW w \in Workers, NEW e \in Events, NEW pc \in Steps,
         NEW loaded \in Rows \cup {Absent}, NEW period \in Nat,
         Accept(w, e, pc, loaded, period)
  PROVE  TypeOK'
BY EventTypes, IdleType DEF Accept, IInv, TypeOK, StripeTypeOK, Handlers, Idle

LEMMA TypeDeliver == ASSUME IInv, NEW w \in Workers, NEW s \in Subs, Deliver(w, s) PROVE TypeOK'
<1> USE EventTypes
<1>1. CASE UserSubscribe(w, s)
  BY <1>1, TypeAccept DEF UserSubscribe, Steps
<1>2. CASE SubscriptionDeleted(w, s)
  <2>1. now \in Nat /\ rows[s] \in Rows \cup {Absent}
    BY StripeAssumption DEF IInv, TypeOK, StripeTypeOK
  <2> QED
    BY <1>2, <2>1, TypeAccept DEF SubscriptionDeleted, Steps
<1>3. ASSUME NEW i \in InvoiceNo, PaymentSucceeded(w, s, i) PROVE TypeOK'
  BY <1>3, TypeAccept DEF PaymentSucceeded, Steps, IInv, TypeOK, StripeTypeOK
<1>4. ASSUME NEW i \in InvoiceNo, PaymentFailed(w, s, i) PROVE TypeOK'
  <2>1. CASE Accept(w, Failed(s, i), "past_due", rows[s], 0)
    BY <2>1, TypeAccept DEF Steps, IInv, TypeOK
  <2> QED
    BY <1>4, <2>1 DEF PaymentFailed, IInv, TypeOK, StripeTypeOK
<1> QED
  BY <1>1, <1>2, <1>3, <1>4 DEF Deliver

LEMMA TypeUser == ASSUME IInv, UserStep PROVE TypeOK'
<1> USE StripeAssumption DEF IInv, TypeOK, StripeTypeOK, RemoteStates
<1>1. ASSUME NEW s \in Subs, NEW old \in Subs \cup {NoSub}, CreateSession(s, old),
             UNCHANGED localVars
      PROVE  TypeOK'
  BY <1>1 DEF CreateSession
<1>2. ASSUME NEW s \in Subs, NEW w \in Workers, UserCancel(w, s) PROVE TypeOK'
  <2>1. handler' \in [Workers -> Handlers]
    BY <1>2, EventTypes, IdleType DEF UserCancel, Handlers, Steps, Idle
  <2> QED
    BY <1>2, <2>1 DEF UserCancel
<1> QED
  BY <1>1, <1>2 DEF UserStep, Subscribe, Upgrade

\* The ways a handler's own record changes keep it a handler.
LEMMA MoveTypes ==
  ASSUME IInv, NEW w \in Workers, NEW pc \in Steps
  PROVE  /\ handler' = [handler EXCEPT ![w] = Idle] => handler' \in [Workers -> Handlers]
         /\ Answer(w) \/ Fail(w) => handler' \in [Workers -> Handlers]
         /\ Goto(w, pc) \/ Forget(w, pc) => handler' \in [Workers -> Handlers]
<1>1. handler \in [Workers -> Handlers]
  BY DEF IInv, TypeOK
<1>2. [handler[w] EXCEPT !.pc = pc] \in Handlers
  BY <1>1 DEF Handlers
<1>3. [Idle EXCEPT !.pc = pc, !.task = handler[w].task] \in Handlers
  BY <1>1 DEF Handlers, Idle, Absent
<1>4. Goto(w, pc) => handler' = [handler EXCEPT ![w] = [handler[w] EXCEPT !.pc = pc]]
  BY <1>1 DEF Goto
<1> QED
  BY <1>1, <1>2, <1>3, <1>4, IdleType DEF Answer, Fail, Forget

\* What they leave in it.
LEMMA Ends ==
  ASSUME IInv, NEW w \in Workers
  PROVE  /\ Answer(w) => handler'[w] = Idle
         /\ Fail(w) => handler'[w] = Idle
         /\ handler' = [handler EXCEPT ![w] = Idle] => handler'[w] = Idle
         /\ Idle.pc = "idle" /\ Idle.task = NoTask
<1>1. handler \in [Workers -> Handlers]
  BY DEF IInv, TypeOK
<1> QED
  BY <1>1 DEF Answer, Fail, Idle

LEMMA Moves ==
  ASSUME IInv, NEW w \in Workers, NEW pc \in Steps
  PROVE  /\ Goto(w, pc) => handler'[w] = [handler[w] EXCEPT !.pc = pc]
         /\ Goto(w, pc) => handler'[w].pc = pc /\ handler'[w].task = handler[w].task
         /\ Forget(w, pc) => handler'[w] = [Idle EXCEPT !.pc = pc, !.task = handler[w].task]
         /\ Forget(w, pc) => handler'[w].pc = pc /\ handler'[w].task = handler[w].task
<1>1. handler \in [Workers -> Handlers] /\ handler[w] \in Handlers
  BY DEF IInv, TypeOK
<1>2. Goto(w, pc) => handler'[w] = [handler[w] EXCEPT !.pc = pc]
  BY <1>1 DEF Goto
<1>3. /\ [handler[w] EXCEPT !.pc = pc].pc = pc
      /\ [handler[w] EXCEPT !.pc = pc].task = handler[w].task
  BY <1>1 DEF Handlers
<1>4. Forget(w, pc) => handler'[w] = [Idle EXCEPT !.pc = pc, !.task = handler[w].task]
  BY <1>1 DEF Forget
<1>5. Forget(w, pc) => handler'[w].pc = pc /\ handler'[w].task = handler[w].task
  BY <1>4 DEF Idle
<1> QED
  BY <1>2, <1>3, <1>4, <1>5

\* Where the lookup of the row to replace leads.
LEMMA LoadAccessMoves ==
  ASSUME IInv, NEW w \in Workers, LoadAccess(w)
  PROVE  \/ handler'[w] = Idle
         \/ \E x \in Subs \cup {NoSub}, y \in Statuses \cup {"NONE"} :
              /\ handler'[w] = [handler[w] EXCEPT !.pc = "insert", !.old = x, !.oldStatus = y]
              /\ x = handler[w].old \/ (x \in Subs /\ Access(x))
<1> DEFINE h == handler[w]
           found == WithAccess(Owner[h.task.sub])
<1>1. handler \in [Workers -> Handlers] /\ h \in Handlers
  BY DEF IInv, TypeOK
<1>2. CASE found = {} /\ Goto(w, "insert")
  <2>1. h.old \in Subs \cup {NoSub} /\ h.oldStatus \in Statuses \cup {"NONE"}
    BY <1>1 DEF Handlers
  <2>2. handler'[w] = [h EXCEPT !.pc = "insert"]
    BY <1>2, Moves DEF Steps
  <2>3. [h EXCEPT !.pc = "insert"]
          = [h EXCEPT !.pc = "insert", !.old = h.old, !.oldStatus = h.oldStatus]
    BY <1>1 DEF Handlers
  <2> QED
    BY <2>1, <2>2, <2>3
<1>3. ASSUME NEW old \in Subs, found = {old},
             handler' = [handler EXCEPT ![w] = [@ EXCEPT !.pc = "insert", !.old = old,
                                                  !.oldStatus = StatusInMemory(w, old)]]
      PROVE  \E x \in Subs \cup {NoSub}, y \in Statuses \cup {"NONE"} :
               /\ handler'[w] = [h EXCEPT !.pc = "insert", !.old = x, !.oldStatus = y]
               /\ x = h.old \/ (x \in Subs /\ Access(x))
  <2>1. handler'[w] = [h EXCEPT !.pc = "insert", !.old = old,
                                !.oldStatus = StatusInMemory(w, old)]
    BY <1>1, <1>3
  <2>2. Access(old)
    BY <1>3 DEF WithAccess
  <2>3. StatusInMemory(w, old) \in Statuses
    BY <1>1, <2>2 DEF Access, GrantsAccess, StatusInMemory, Rows, Absent, Statuses, Handlers,
                      IInv, TypeOK
  <2> QED
    BY <2>1, <2>2, <2>3
<1>4. CASE handler' = [handler EXCEPT ![w] = Idle]
  BY <1>1, <1>4
<1> QED
  BY <1>2, <1>3, <1>4 DEF LoadAccess

\* What an insertion leaves in the table.
LEMMA InsertTypes ==
  ASSUME IInv, NEW w \in Workers, Insert(w)
  PROVE  rows' \in [Subs -> Rows \cup {Absent}]
<1> DEFINE s == handler[w].task.sub
           old == handler[w].old
<1>1. rows \in [Subs -> Rows \cup {Absent}] /\ now \in Nat
  BY StripeAssumption DEF IInv, TypeOK, StripeTypeOK
<1>2. CASE rows' = rows
  BY <1>1, <1>2
<1>3. CASE rows' = [t \in Subs |->
             CASE t = s -> NewRow(InsertStatus(handler[w].task), now)
               [] t = old /\ handler[w].oldStatus # "CANCELED"
                    -> [rows[t] EXCEPT !.status = "CANCELED"]
               [] OTHER -> rows[t]]
  <2>1. NewRow(InsertStatus(handler[w].task), now) \in Rows
    BY <1>1, RowTypes DEF InsertStatus, Statuses
  <2>2. ASSUME NEW t \in Subs, t = old PROVE [rows[t] EXCEPT !.status = "CANCELED"] \in Rows
    <3>1. rows[t] \in Rows
      BY <2>2, HandlerFacts, StripeAssumption DEF RowsLoaded
    <3> QED
      BY <3>1 DEF Rows, Statuses
  <2> QED
    BY <1>1, <1>3, <2>1, <2>2
<1> QED
  BY <1>2, <1>3 DEF Insert, Fail

LEMMA TypeStep == ASSUME IInv, NEW w \in Workers, Step(w) PROVE TypeOK'
<1> DEFINE h == handler[w]
<1>a. TypeOK /\ StripeTypeOK /\ now \in Nat
  BY StripeAssumption DEF IInv, TypeOK, StripeTypeOK
<1>b. h \in Handlers /\ TaskKnown(h) /\ RowsLoaded(h)
  BY HandlerFacts
<1>c. h.pc # "idle" => h.task.sub \in Subs
  BY HandlerFacts DEF At
<1>d. h.pc \notin {"idle", "modify", "user_cancel"} =>
        h.task \in Events /\ (h.task.type = "paid" => h.task \in PaidEvents)
  BY HandlerFacts DEF At
<1> HIDE DEF h
<1> USE DEF At, TypeOK, StripeTypeOK, Steps
<1>1. CASE DropOld(w)
  <2>1. upgradeFrom[h.task.sub] \in Subs
    BY <1>1, <1>b DEF DropOld, RowsLoaded, h
  <2>2. StripeTypeOK'
    BY <1>1, <1>a, <2>1, EventTypes DEF DropOld, DeleteRemote, Fail, RemoteStates, h
  <2> QED
    BY <1>1, <1>a, <2>2, MoveTypes DEF DropOld, Fail
<1>2. CASE LoadOld(w)
  <2>1. rows[upgradeFrom[h.task.sub]] \in Rows \cup {Absent}
    BY <1>2, <1>a, <1>b DEF LoadOld, RowsLoaded, h
  <2>2. [h EXCEPT !.pc = "cancel_old", !.loaded = rows[upgradeFrom[h.task.sub]],
                  !.period = now] \in Handlers
    BY <1>a, <1>b, <2>1 DEF Handlers
  <2> QED
    BY <1>2, <1>a, <2>2, MoveTypes DEF LoadOld, h
<1>3. CASE CancelOld(w)
  <2>1. CanceledNow(rows[upgradeFrom[h.task.sub]], h.loaded, h.period) \in Rows
    BY <1>3, <1>a, <1>b, RowTypes DEF CancelOld, RowsLoaded, Handlers, h
  <2> QED
    BY <1>3, <1>a, <1>b, <2>1 DEF CancelOld, Handlers, h
<1>4. CASE Find(w)
  BY <1>4, <1>a, <1>d, MoveTypes DEF Find, Answer, h
<1>5. CASE LoadAccess(w)
  <2>1. \A old \in Subs : Access(old) => StatusInMemory(w, old) \in Statuses
    BY <1>a, <1>b DEF Access, GrantsAccess, StatusInMemory, Rows, Absent, Statuses, Handlers, h
  <2>2. handler' \in [Workers -> Handlers]
    <3>1. ASSUME NEW old \in Subs, Access(old)
          PROVE  [h EXCEPT !.pc = "insert", !.old = old, !.oldStatus = StatusInMemory(w, old)]
                   \in Handlers
      BY <1>b, <2>1, <3>1 DEF Handlers
    <3>2. ASSUME NEW old \in Subs, WithAccess(Owner[h.task.sub]) = {old}
          PROVE  Access(old)
      BY <3>2 DEF WithAccess
    <3> QED
      BY <1>5, <1>a, <3>1, <3>2, MoveTypes DEF LoadAccess, h
  <2> QED
    BY <1>5, <1>a, <2>2 DEF LoadAccess
<1>6. CASE Insert(w)
  BY <1>6, <1>a, <1>d, InsertTypes, MoveTypes DEF Insert, Answer, Fail, h
<1>7. CASE LoadPeriod(w)
  <2>1. [h EXCEPT !.pc = "set_period", !.loaded = rows[h.task.sub]] \in Handlers
    BY <1>7, <1>a, <1>b, <1>c DEF LoadPeriod, Handlers, h
  <2> QED
    BY <1>7, <1>a, <2>1, MoveTypes DEF LoadPeriod, h
<1>8. CASE SetPeriod(w)
  <2>1. WithPeriod(rows[h.task.sub], h.loaded, h.period) \in Rows
    BY <1>8, <1>b, RowTypes DEF SetPeriod, RowsLoaded, Handlers, h
  <2> QED
    BY <1>8, <1>a, <2>1, MoveTypes DEF SetPeriod, h
<1>9. CASE Pay(w)
  BY <1>9, <1>a, <1>b, <1>d, MoveTypes DEF Pay, Fail, TaskKnown, TypesAt, h
<1>10. CASE CancelNow(w)
  <2>1. CanceledNow(rows[h.task.sub], h.loaded, h.period) \in Rows
    BY <1>10, <1>a, <1>b, RowTypes DEF CancelNow, RowsLoaded, Handlers, h
  <2> QED
    BY <1>10, <1>a, <2>1, MoveTypes DEF CancelNow, h
<1>11. CASE SetPastDue(w)
  <2>1. PastDue(rows[h.task.sub], h.loaded) \in Rows
    BY <1>11, <1>b, RowTypes DEF SetPastDue, RowsLoaded, h
  <2> QED
    BY <1>11, <1>a, <2>1, MoveTypes DEF SetPastDue, h
<1>12. CASE Notify(w)
  <2>1. mailed' \in [PaidEvents -> 0 .. MaxMails]
    BY <1>12, <1>a DEF Notify, MaxMails
  <2> QED
    BY <1>12, <1>a, <1>d, <2>1, MoveTypes DEF Notify, Answer, h
<1>13. CASE UserCancelCommit(w)
  <2>1. Canceled(rows[h.task.sub], h.loaded) \in Rows
    BY <1>13, <1>b, RowTypes DEF UserCancelCommit, RowsLoaded, h
  <2> QED
    BY <1>13, <1>a, <2>1, MoveTypes DEF UserCancelCommit, h
<1>14. CASE CancelRemote(w)
  <2>1. h.task.sub \in Subs
    BY <1>14, <1>c DEF CancelRemote, h
  <2>2. ASSUME CancelRemoteAtPeriodEnd(h.task.sub) PROVE StripeTypeOK'
    BY <1>a, <2>1, <2>2 DEF CancelRemoteAtPeriodEnd
  <2>3. ASSUME UNCHANGED stripeVars PROVE StripeTypeOK'
    BY <1>a, <2>3
  <2> HIDE DEF StripeTypeOK
  <2>4. StripeTypeOK'
    BY <1>14, <2>2, <2>3 DEF CancelRemote, Fail, h
  <2> QED
    BY <1>14, <1>a, <2>4, MoveTypes DEF CancelRemote, Fail
<1> QED
  BY <1>1, <1>2, <1>3, <1>4, <1>5, <1>6, <1>7, <1>8, <1>9, <1>10, <1>11, <1>12, <1>13, <1>14
     DEF Step

\* Every step keeps the variables in their types.
LEMMA TypeNext == IInv /\ [Next]_vars => TypeOK'
<1> SUFFICES ASSUME IInv, [Next]_vars PROVE TypeOK'
  OBVIOUS
<1>1. ASSUME NEW w \in Workers, Crash(w) PROVE TypeOK'
  BY <1>1, IdleType, BillingAssumption DEF Crash, IInv, TypeOK, StripeTypeOK
<1>2. CASE UNCHANGED vars
  BY <1>2 DEF IInv, TypeOK, StripeTypeOK
<1> QED
  BY <1>1, <1>2, TypeStripe, TypeUser, TypeDeliver, TypeStep DEF Next, ExpireSubscriptions

-----------------------------------------------------------------------------
(* What every step keeps.                                                  *)

\* A step writes a row with a period that is over, with the one it had, or,
\* in set_period, with the one the handler carries.
LEMMA RowWritten ==
  ASSUME IInv, NEW w \in Workers, Step(w), NEW s \in Subs, rows'[s] # rows[s]
  PROVE  /\ rows'[s] \in Rows
         /\ \/ rows'[s].end <= now
            \/ rows[s] \in Rows /\ rows'[s].end = rows[s].end
            \/ /\ At(w, "set_period")
               /\ handler[w].task.sub = s
               /\ rows'[s].end = handler[w].period
<1> DEFINE h == handler[w]
<1>a. rows \in [Subs -> Rows \cup {Absent}] /\ now \in Nat
  BY StripeAssumption DEF IInv, TypeOK, StripeTypeOK
<1>b. h \in Handlers /\ RowsLoaded(h) /\ PeriodKnown(h)
  BY HandlerFacts
<1>c. h.period \in Nat
  BY <1>b DEF Handlers
<1>d. \A stored, loaded \in Rows :
        /\ CanceledNow(stored, loaded, h.period).end = h.period
        /\ Canceled(stored, loaded).end = stored.end
        /\ PastDue(stored, loaded).end = stored.end
        /\ WithPeriod(stored, loaded, h.period).end \in {stored.end, h.period}
  BY DEF CanceledNow, Canceled, PastDue, WithPeriod, Flush, Rows
<1> HIDE DEF h
<1> USE DEF At
<1>1. CASE CancelOld(w)
  <2>0. s = upgradeFrom[h.task.sub]
    BY <1>1, <1>a DEF CancelOld, h
  <2>1. rows'[s] = CanceledNow(rows[s], h.loaded, h.period)
    BY <1>1, <1>a, <2>0 DEF CancelOld, h
  <2>2. rows[s] \in Rows /\ h.loaded \in Rows /\ h.period <= now
    BY <1>1, <1>b, <2>0 DEF CancelOld, RowsLoaded, PeriodKnown, h
  <2>3. rows'[s].end = h.period
    BY <1>d, <2>1, <2>2
  <2>4. CanceledNow(rows[s], h.loaded, h.period) \in Rows
    BY <1>c, <2>2, RowTypes
  <2> QED
    BY <2>1, <2>2, <2>3, <2>4
<1>2. CASE Insert(w)
  <2>1. rows'[s] \in Rows
    <3>1. rows'[s] # Absent
      <4>1. \A n \in Nat : NewRow(InsertStatus(h.task), n) # Absent
        BY DEF NewRow, InsertStatus, Absent
      <4>2. [rows[s] EXCEPT !.status = "CANCELED"] # Absent
        BY <1>a DEF Rows, Absent
      <4> QED
        BY <1>2, <1>a, <4>1, <4>2 DEF Insert, Fail, h
    <3> QED
      BY <1>2, <3>1, InsertTypes
  <2>2. CASE s = h.task.sub
    <3>1. rows[s] = Absent
      BY <1>2, <2>2 DEF Insert, Fail, h
    <3>2. s # h.old
      BY <1>b, <3>1, RowTypes, StripeAssumption DEF RowsLoaded
    <3>3. rows'[s] = NewRow(InsertStatus(h.task), now)
      BY <1>2, <2>2, <3>1, <3>2 DEF Insert, Fail, h
    <3> QED
      BY <1>a, <2>1, <3>3 DEF NewRow
  <2>3. CASE s # h.task.sub
    <3>1. s = h.old /\ rows'[s] = [rows[s] EXCEPT !.status = "CANCELED"]
      BY <1>2, <1>a, <2>3 DEF Insert, Fail, h
    <3>2. rows[s] \in Rows
      BY <1>b, <3>1, StripeAssumption DEF RowsLoaded
    <3> QED
      BY <2>1, <3>1, <3>2 DEF Rows
  <2> QED
    BY <2>2, <2>3
<1>3. CASE SetPeriod(w)
  <2>1. s = h.task.sub /\ rows'[s] = WithPeriod(rows[s], h.loaded, h.period)
    BY <1>3, <1>a DEF SetPeriod, h
  <2>2. rows[s] \in Rows /\ h.loaded \in Rows
    BY <1>3, <1>b, <2>1 DEF SetPeriod, RowsLoaded, h
  <2>3. rows'[s].end \in {rows[s].end, h.period}
    BY <1>d, <2>1, <2>2
  <2>4. WithPeriod(rows[s], h.loaded, h.period) \in Rows
    BY <1>c, <2>2, RowTypes
  <2> QED
    BY <1>3, <2>1, <2>2, <2>3, <2>4 DEF SetPeriod, h
<1>4. CASE CancelNow(w)
  <2>1. s = h.task.sub /\ rows'[s] = CanceledNow(rows[s], h.loaded, h.period)
    BY <1>4, <1>a DEF CancelNow, h
  <2>2. rows[s] \in Rows /\ h.loaded \in Rows /\ h.period <= now
    BY <1>4, <1>b, <2>1 DEF CancelNow, RowsLoaded, PeriodKnown, h
  <2>3. rows'[s].end = h.period
    BY <1>d, <2>1, <2>2
  <2>4. CanceledNow(rows[s], h.loaded, h.period) \in Rows
    BY <1>c, <2>2, RowTypes
  <2> QED
    BY <2>1, <2>2, <2>3, <2>4
<1>5. CASE SetPastDue(w)
  <2>1. s = h.task.sub /\ rows'[s] = PastDue(rows[s], h.loaded)
    BY <1>5, <1>a DEF SetPastDue, h
  <2>2. rows[s] \in Rows /\ h.loaded \in Rows
    BY <1>5, <1>b, <2>1 DEF SetPastDue, RowsLoaded, h
  <2>3. rows'[s].end = rows[s].end
    BY <1>d, <2>1, <2>2
  <2>4. PastDue(rows[s], h.loaded) \in Rows
    BY <2>2, RowTypes
  <2> QED
    BY <2>1, <2>2, <2>3, <2>4
<1>6. CASE UserCancelCommit(w)
  <2>1. s = h.task.sub /\ rows'[s] = Canceled(rows[s], h.loaded)
    BY <1>6, <1>a DEF UserCancelCommit, h
  <2>2. rows[s] \in Rows /\ h.loaded \in Rows
    BY <1>6, <1>b, <2>1 DEF UserCancelCommit, RowsLoaded, h
  <2>3. rows'[s].end = rows[s].end
    BY <1>d, <2>1, <2>2
  <2>4. Canceled(rows[s], h.loaded) \in Rows
    BY <2>2, RowTypes
  <2> QED
    BY <2>1, <2>2, <2>3, <2>4
<1> QED
  BY <1>1, <1>2, <1>3, <1>4, <1>5, <1>6
     DEF Step, DropOld, LoadOld, Find, LoadAccess, LoadPeriod, Pay, Notify, CancelRemote, Fail

\* Steps of Stripe and calls to Stripe only ever advance Stripe's state.
LEMMA StripeAdvancesNext == IInv /\ [Next]_vars => StripeAdvances
<1> SUFFICES ASSUME IInv, [Next]_vars PROVE StripeAdvances
  OBVIOUS
<1> USE StripeAssumption DEF StripeAdvances, Started
<1>a. StripeTypeOK
  BY DEF IInv, TypeOK
<1> USE <1>a DEF StripeTypeOK
<1>1. CASE UNCHANGED stripeVars
  BY <1>1
<1>2. ASSUME NEW s \in Subs, DeleteRemote(s) PROVE StripeAdvances
  BY <1>2 DEF DeleteRemote
<1>3. ASSUME NEW s \in Subs, NEW old, CreateSession(s, old) PROVE StripeAdvances
  BY <1>3 DEF CreateSession
<1>4. ASSUME NEW s \in Subs, CancelRemoteAtPeriodEnd(s) PROVE StripeAdvances
  BY <1>4 DEF CancelRemoteAtPeriodEnd
<1>5. ASSUME NEW s \in Subs, CompleteCheckout(s) PROVE StripeAdvances
  <2>1. remote[s].end = 0
    BY <1>5 DEF CompleteCheckout, IInv, EventsOfStarted
  <2> QED
    BY <1>5, <2>1 DEF CompleteCheckout
<1>6. ASSUME NEW s \in Subs, Renew(s) PROVE StripeAdvances
  BY <1>6 DEF Renew
<1>7. ASSUME NEW s \in Subs, NEW type, SettleInvoice(s, type) PROVE StripeAdvances
  BY <1>7 DEF SettleInvoice
<1>8. CASE Tick
  BY <1>8 DEF Tick
<1>9. ASSUME NEW w \in Workers, Step(w) PROVE StripeAdvances
  <2>1. CASE DropOld(w)
    <3>1. upgradeFrom[handler[w].task.sub] \in Subs
      BY <2>1, HandlerFacts DEF DropOld, At, RowsLoaded
    <3> QED
      BY <1>1, <1>2, <2>1, <3>1 DEF DropOld, Fail
  <2>2. CASE CancelRemote(w)
    BY <1>1, <1>4, <2>2, HandlerFacts DEF CancelRemote, At, Fail
  <2> QED
    BY <1>1, <1>9, <2>1, <2>2 DEF Step, LoadOld, CancelOld, Find, LoadAccess, Insert,
         LoadPeriod, SetPeriod, Pay, CancelNow, SetPastDue, Notify, UserCancelCommit, Fail
<1>10. ASSUME NEW w \in Workers, NEW s \in Subs, Deliver(w, s) PROVE UNCHANGED stripeVars
  BY <1>10 DEF Deliver, UserSubscribe, SubscriptionDeleted, PaymentSucceeded,
               PaymentFailed, Accept
<1>11. CASE UserStep
  BY <1>1, <1>3, <1>11 DEF UserStep, Subscribe, Upgrade, UserCancel
<1>12. CASE StripeStep
  BY <1>2, <1>5, <1>6, <1>7, <1>8, <1>12 DEF StripeStep, PayInvoice, FailInvoice
<1> QED
  BY <1>1, <1>9, <1>10, <1>11, <1>12 DEF Next, Crash, ExpireSubscriptions

\* No step undoes what another one has committed.
LEMMA NothingUndoneNext == IInv /\ [Next]_vars => NothingUndone
<1> SUFFICES ASSUME IInv, [Next]_vars PROVE NothingUndone
  OBVIOUS
<1>1. mailed \in [PaidEvents -> Nat]
  BY DEF IInv, TypeOK, MaxMails
<1>2. CASE UNCHANGED <<rows, payments, mailed, acked>>
  BY <1>1, <1>2, StripeAdvancesNext DEF NothingUndone
<1>3. ASSUME NEW w \in Workers, Step(w) PROVE NothingUndone
  <2>1. \A s \in Subs : rows[s] \in Rows => rows'[s] \in Rows
    BY <1>3, RowWritten
  <2>2. payments \subseteq payments' /\ acked \subseteq acked'
    BY <1>3 DEF Step, DropOld, LoadOld, CancelOld, Find, LoadAccess, Insert, LoadPeriod,
         SetPeriod, Pay, CancelNow, SetPastDue, Notify, CancelRemote, UserCancelCommit, Fail, Answer
  <2>3. \A e \in PaidEvents : mailed[e] <= mailed'[e]
    <3>1. CASE Notify(w)
      BY <1>1, <3>1 DEF Notify
    <3>2. CASE mailed' = mailed
      BY <1>1, <3>2
    <3> QED
      BY <1>3, <3>1, <3>2 DEF Step, DropOld, LoadOld, CancelOld, Find, LoadAccess, Insert,
         LoadPeriod, SetPeriod, Pay, CancelNow, SetPastDue, CancelRemote, UserCancelCommit, Fail
  <2> QED
    BY <2>1, <2>2, <2>3, StripeAdvancesNext DEF NothingUndone
<1>4. ASSUME NEW w \in Workers, NEW s \in Subs, Deliver(w, s) PROVE NothingUndone
  <2>1. UNCHANGED <<rows, payments, mailed>> /\ acked \subseteq acked'
    BY <1>4 DEF Deliver, UserSubscribe, SubscriptionDeleted, PaymentSucceeded,
                PaymentFailed, Accept
  <2> QED
    BY <1>1, <2>1, StripeAdvancesNext DEF NothingUndone
<1>5. UserStep \/ StripeStep => UNCHANGED <<rows, payments, mailed, acked>>
  BY DEF UserStep, StripeStep, Subscribe, Upgrade, UserCancel
<1> QED
  BY <1>2, <1>3, <1>4, <1>5 DEF Next, Crash, ExpireSubscriptions

-----------------------------------------------------------------------------
(* The invariant, conjunct by conjunct.                                    *)

\* Events come from started subscriptions.
LEMMA EventsNext == IInv /\ [Next]_vars => EventsOfStarted'
<1> SUFFICES ASSUME IInv, [Next]_vars PROVE EventsOfStarted'
  OBVIOUS
<1> USE StripeAssumption DEF EventsOfStarted, Started
<1>a. StripeTypeOK /\ EventsOfStarted
  BY DEF IInv, TypeOK
<1>b. \A e \in Events : e.sub \in Subs
  BY DEF Events
<1> USE <1>a, <1>b DEF StripeTypeOK
<1>1. CASE UNCHANGED stripeVars
  BY <1>1
<1>2. ASSUME NEW s \in Subs, DeleteRemote(s) PROVE EventsOfStarted'
  BY <1>2 DEF DeleteRemote, Deleted, Event
<1>3. ASSUME NEW s \in Subs, NEW old, CreateSession(s, old) PROVE EventsOfStarted'
  BY <1>3 DEF CreateSession
<1>4. ASSUME NEW s \in Subs, CancelRemoteAtPeriodEnd(s) PROVE EventsOfStarted'
  BY <1>4 DEF CancelRemoteAtPeriodEnd
<1>5. ASSUME NEW s \in Subs, CompleteCheckout(s) PROVE EventsOfStarted'
  BY <1>5 DEF CompleteCheckout, Checkout, Deleted, Event
<1>6. ASSUME NEW s \in Subs, Renew(s) PROVE EventsOfStarted'
  BY <1>6 DEF Renew
<1>7. ASSUME NEW s \in Subs, NEW type \in {"paid", "failed"}, SettleInvoice(s, type)
      PROVE  EventsOfStarted'
  BY <1>7 DEF SettleInvoice, Deleted, Event
<1>8. CASE Tick
  BY <1>8 DEF Tick
<1>9. ASSUME NEW w \in Workers, Step(w) PROVE EventsOfStarted'
  <2>1. CASE DropOld(w)
    <3>1. upgradeFrom[handler[w].task.sub] \in Subs
      BY <2>1, HandlerFacts DEF DropOld, At, RowsLoaded
    <3> QED
      BY <1>1, <1>2, <2>1, <3>1 DEF DropOld, Fail
  <2>2. CASE CancelRemote(w)
    BY <1>1, <1>4, <2>2, HandlerFacts DEF CancelRemote, At, Fail
  <2> QED
    BY <1>1, <1>9, <2>1, <2>2 DEF Step, LoadOld, CancelOld, Find, LoadAccess, Insert,
         LoadPeriod, SetPeriod, Pay, CancelNow, SetPastDue, Notify, UserCancelCommit, Fail
<1>10. ASSUME NEW w \in Workers, NEW s \in Subs, Deliver(w, s) PROVE UNCHANGED stripeVars
  BY <1>10 DEF Deliver, UserSubscribe, SubscriptionDeleted, PaymentSucceeded,
               PaymentFailed, Accept
<1>11. CASE UserStep
  BY <1>1, <1>3, <1>11 DEF UserStep, Subscribe, Upgrade, UserCancel
<1>12. CASE StripeStep
  BY <1>2, <1>5, <1>6, <1>7, <1>8, <1>12 DEF StripeStep, PayInvoice, FailInvoice
<1> QED
  BY <1>1, <1>9, <1>10, <1>11, <1>12 DEF Next, Crash, ExpireSubscriptions

\* What is recorded or answered 200 was sent by Stripe.
LEMMA SentNext == IInv /\ [Next]_vars => (acked \subseteq sent /\ payments \subseteq sent)'
<1> SUFFICES ASSUME IInv, [Next]_vars PROVE (acked \subseteq sent /\ payments \subseteq sent)'
  OBVIOUS
<1>1. acked \subseteq sent /\ payments \subseteq sent /\ sent \subseteq sent'
  BY StripeAdvancesNext DEF IInv, StripeAdvances
<1>2. CASE UNCHANGED <<acked, payments>>
  BY <1>1, <1>2
<1>3. ASSUME NEW w \in Workers, Step(w) PROVE (acked \cup payments)' \subseteq sent'
  <2>1. handler[w].pc \notin {"idle", "modify", "user_cancel"} => handler[w].task \in sent
    BY HandlerFacts
  <2> QED
    BY <1>1, <1>3, <2>1 DEF Step, DropOld, LoadOld, CancelOld, Find, LoadAccess, Insert,
       LoadPeriod, SetPeriod, Pay, CancelNow, SetPastDue, Notify, CancelRemote, UserCancelCommit, Fail,
       Answer, At
<1>4. ASSUME NEW w \in Workers, NEW s \in Subs, Deliver(w, s)
      PROVE  (acked \cup payments)' \subseteq sent'
  BY <1>1, <1>4 DEF Deliver, UserSubscribe, SubscriptionDeleted, PaymentSucceeded,
                    PaymentFailed, Accept
<1>5. UserStep \/ StripeStep => UNCHANGED <<acked, payments>>
  BY DEF UserStep, StripeStep, Subscribe, Upgrade, UserCancel
<1> QED
  BY <1>2, <1>3, <1>4, <1>5 DEF Next, Crash, ExpireSubscriptions

\* Access stays backed by Stripe.
LEMMA AccessNext == IInv /\ [Next]_vars => AccessBacked'
<1> SUFFICES ASSUME IInv, [Next]_vars, NEW s \in Subs, rows'[s].end > now'
             PROVE  Collected(s)' # {} /\ rows'[s].end <= remote'[s].end
  BY DEF AccessBacked
<1>a. /\ now \in Nat /\ now' \in Nat /\ now <= now'
      /\ remote[s].end \in Nat /\ remote'[s].end \in Nat
      /\ remote[s].end <= remote'[s].end
      /\ Collected(s) \subseteq Collected(s)'
  BY TypeNext, StripeAdvancesNext, StripeAssumption
     DEF IInv, TypeOK, StripeTypeOK, StripeAdvances, Collected
<1>b. rows[s].end \in Nat /\ rows'[s].end \in Nat
  BY TypeNext DEF IInv, TypeOK, Rows, Absent
<1>1. CASE rows[s].end = rows'[s].end
  BY <1>1, <1>a, <1>b DEF IInv, AccessBacked
<1>2. ASSUME NEW w \in Workers, Step(w), rows'[s] # rows[s], rows'[s].end # rows[s].end
      PROVE  Collected(s)' # {} /\ rows'[s].end <= remote'[s].end
  <2>1. At(w, "set_period") /\ handler[w].task.sub = s /\ rows'[s].end = handler[w].period
    BY <1>2, <1>a, <1>b, RowWritten
  <2>2. handler[w].period <= remote[s].end /\ handler[w].period \in Nat
    BY <2>1, HandlerFacts DEF At, PeriodKnown, Handlers
  <2>3. handler[w].task \in sent /\ handler[w].task \in PaidEvents
    BY <2>1, HandlerFacts DEF At, TaskKnown, TypesAt
  <2>4. handler[w].task.inv \in Collected(s)
    BY <2>1, <2>3 DEF Collected, PaidEvents, Paid, Event
  <2> QED
    BY <1>a, <2>1, <2>2, <2>4
<1>3. rows'[s] # rows[s] => \E w \in Workers : Step(w)
  BY DEF Next, UserStep, StripeStep, Subscribe, Upgrade, UserCancel, Crash,
         ExpireSubscriptions, Deliver, UserSubscribe, SubscriptionDeleted,
         PaymentSucceeded, PaymentFailed, Accept
<1> QED
  BY <1>1, <1>2, <1>3

\* What is answered 200 is in the tables, and stays there.
LEMMA AckNext == IInv /\ [Next]_vars => AckMeansRecorded'
<1> SUFFICES ASSUME IInv, [Next]_vars, NEW e \in acked' PROVE Recorded(e)'
  BY DEF AckMeansRecorded
<1>a. NothingUndone /\ StripeAdvances
  BY NothingUndoneNext DEF NothingUndone
<1>b. /\ TypeOK /\ TypeOK' /\ EventsOfStarted
      /\ acked \subseteq sent /\ AckMeansRecorded /\ ReceiptPending
  BY TypeNext DEF IInv
<1>1. \A f \in Events : f.sub \in Subs /\ (f.type = "paid" => f \in PaidEvents)
  BY DEF Events, PaidEvents
\* a fact about an event of a started subscription is kept
<1>2. ASSUME NEW f \in sent, Recorded(f) PROVE Recorded(f)'
  <2>1. f.sub \in Subs /\ (f.type = "paid" => f \in PaidEvents)
    BY <1>1, <1>b DEF TypeOK, StripeTypeOK
  <2>2. upgradeFrom'[f.sub] = upgradeFrom[f.sub] /\ upgradeFrom[f.sub] \in Subs \cup {NoSub}
    BY <1>a, <1>b, <2>1 DEF StripeAdvances, EventsOfStarted, TypeOK, StripeTypeOK
  <2>3. rows[f.sub] # Absent => rows'[f.sub] # Absent
    BY <1>a, <1>b, <2>1, RowTypes DEF NothingUndone, TypeOK
  <2>4. f.type = "paid" => f \in payments' /\ mailed'[f] > 0
    <3> SUFFICES ASSUME f.type = "paid" PROVE f \in payments' /\ mailed'[f] > 0
      OBVIOUS
    <3>1. mailed[f] \in Nat /\ mailed'[f] \in Nat
      BY <1>b, <2>1 DEF TypeOK, MaxMails
    <3> QED
      BY <1>2, <1>a, <2>1, <3>1 DEF Recorded, NothingUndone
  <2>5. f.type = "checkout" /\ upgradeFrom'[f.sub] # NoSub
          => remote'[upgradeFrom'[f.sub]].state = "deleted"
    BY <1>2, <1>a, <2>2 DEF Recorded, StripeAdvances
  <2> QED
    BY <1>2, <2>3, <2>4, <2>5 DEF Recorded
<1>3. CASE e \in acked
  BY <1>2, <1>3, <1>b DEF AckMeansRecorded
<1>4. ASSUME NEW w \in Workers, Find(w), e = handler[w].task PROVE Recorded(e)' \/ e \in acked
  <2>1. e \in sent /\ e.type = "checkout"
    BY <1>4, HandlerFacts DEF Find, At, TaskKnown, TypesAt
  <2>2. rows[e.sub] # Absent \/ e \in acked
    BY <1>4 DEF Find
  <2>3. upgradeFrom[e.sub] # NoSub => remote[upgradeFrom[e.sub]].state = "deleted"
    BY <1>4, <2>1, HandlerFacts DEF Find, At, OldDropped
  <2> QED
    BY <1>2, <2>1, <2>2, <2>3 DEF Recorded
<1>5. ASSUME NEW w \in Workers, Insert(w), e = handler[w].task, e \notin acked
      PROVE  Recorded(e)'
  <2>1. e \in sent /\ e.type = "checkout"
    BY <1>5, HandlerFacts DEF Insert, Answer, Fail, At
  <2>2. e.sub \in Subs
    BY <1>1, <1>b, <2>1 DEF TypeOK, StripeTypeOK
  <2>3. rows'[e.sub] # Absent
    <3>1. rows[e.sub] = Absent /\ rows'[e.sub] \in {NewRow(InsertStatus(e), now),
                                                    [rows[e.sub] EXCEPT !.status = "CANCELED"]}
      BY <1>5, <2>2 DEF Insert, Fail
    <3> QED
      BY <3>1 DEF NewRow, InsertStatus, Absent
  <2>4. upgradeFrom[e.sub] # NoSub => remote[upgradeFrom[e.sub]].state = "deleted"
    BY <1>5, <2>1, HandlerFacts DEF Insert, At, OldDropped
  <2>5. UNCHANGED stripeVars
    BY <1>5 DEF Insert, Fail
  <2> QED
    BY <2>1, <2>3, <2>4, <2>5 DEF Recorded
<1>6. ASSUME NEW w \in Workers, Notify(w), e = handler[w].task PROVE Recorded(e)'
  <2>1. e \in sent /\ e.type \in {"paid", "deleted", "failed"} /\ e \in Events
    BY <1>6, HandlerFacts DEF Notify, At, TaskKnown, TypesAt
  <2>2. e.type # "failed" => rows[e.sub] # Absent
    BY <1>6, HandlerFacts, RowTypes DEF Notify, At, RowsLoaded
  <2>3. e.type = "paid" => e \in payments /\ mailed[e] = 0 /\ e \in PaidEvents
    BY <1>1, <1>6, <1>b, <2>1 DEF Notify, ReceiptPending
  <2>4. e.type = "paid" => mailed'[e] = 1
    BY <1>6, <2>3 DEF Notify, MaxMails
  <2> QED
    BY <1>6, <2>1, <2>2, <2>3, <2>4 DEF Notify, Recorded
<1>7. ASSUME NEW w \in Workers, NEW s \in Subs, Deliver(w, s), e \notin acked PROVE Recorded(e)'
  <2>1. \E i \in InvoiceNo : e = Failed(s, i)
    BY <1>7 DEF Deliver, UserSubscribe, SubscriptionDeleted, PaymentSucceeded,
                PaymentFailed, Accept
  <2>2. e.type = "failed"
    BY <2>1 DEF Failed, Event
  <2> QED
    BY <2>2 DEF Recorded
<1>8. ASSUME NEW w \in Workers, Step(w), e \notin acked
      PROVE  e = handler[w].task /\ (Find(w) \/ Insert(w) \/ Notify(w))
  BY <1>8 DEF Step, DropOld, LoadOld, CancelOld, Find, LoadAccess, Insert, LoadPeriod,
     SetPeriod, Pay, CancelNow, SetPastDue, Notify, CancelRemote, UserCancelCommit, Fail, Answer
<1>9. e \notin acked => \E w \in Workers : Step(w) \/ \E s \in Subs : Deliver(w, s)
  BY DEF Next, UserStep, StripeStep, Subscribe, Upgrade, UserCancel, Crash,
         ExpireSubscriptions
<1> QED
  BY <1>3, <1>4, <1>5, <1>6, <1>7, <1>8, <1>9

\* A receipt is enqueued by the one handler that recorded the payment.
LEMMA ReceiptNext == IInv /\ [Next]_vars => (ReceiptPending /\ ReceiptAtMostOnce)'
<1> SUFFICES ASSUME IInv, [Next]_vars PROVE (ReceiptPending /\ ReceiptAtMostOnce)'
  OBVIOUS
<1>a. /\ ReceiptPending /\ ReceiptAtMostOnce
      /\ handler \in [Workers -> Handlers] /\ mailed \in [PaidEvents -> 0 .. MaxMails]
  BY DEF IInv, TypeOK
<1> USE <1>a DEF ReceiptPending, ReceiptAtMostOnce, At
\* steps by which no handler comes to have a receipt to send
<1>1. ASSUME UNCHANGED <<payments, mailed>>,
             \A w \in Workers :
               handler'[w].pc = "notify" /\ handler'[w].task.type = "paid" =>
                 handler'[w] = handler[w]
      PROVE  (ReceiptPending /\ ReceiptAtMostOnce)'
  BY <1>1
<1>2. ASSUME NEW w \in Workers, Pay(w) PROVE (ReceiptPending /\ ReceiptAtMostOnce)'
  <2>1. CASE handler[w].task \in payments
    BY <1>1, <1>2, <2>1 DEF Pay, Fail, Idle
  <2>2. CASE handler[w].task \notin payments
    <3> DEFINE e == handler[w].task
    <3>1. /\ payments' = payments \cup {e} /\ mailed' = mailed
          /\ handler' = [handler EXCEPT ![w] = [Idle EXCEPT !.pc = "notify", !.task = e]]
      BY <1>2, <2>2 DEF Pay, Forget
    <3>2. e \in PaidEvents
      BY <1>2, HandlerFacts DEF Pay, TaskKnown, TypesAt
    <3>3. mailed[e] = 0
      BY <2>2, <3>2, SMT DEF MaxMails
    <3>4. \A v \in Workers \ {w} : handler'[v] = handler[v]
      BY <3>1
    <3>5. handler'[w].pc = "notify" /\ handler'[w].task = e
      BY <3>1 DEF Idle
    <3>6. \A v \in Workers \ {w} :
            At(v, "notify") /\ handler[v].task.type = "paid" => handler[v].task # e
      BY <2>2
    <3>7. e.type = "paid"
      BY <3>2 DEF PaidEvents
    <3> HIDE DEF e
    <3> QED
      BY <3>1, <3>2, <3>3, <3>4, <3>5, <3>6, <3>7
  <2> QED
    BY <2>1, <2>2
<1>3. ASSUME NEW w \in Workers, Notify(w) PROVE (ReceiptPending /\ ReceiptAtMostOnce)'
  <2> DEFINE e == handler[w].task
  <2>1. /\ payments' = payments
        /\ handler' = [handler EXCEPT ![w] = Idle]
        /\ mailed' = [p \in PaidEvents |->
             IF p = e /\ mailed[p] < MaxMails THEN mailed[p] + 1 ELSE mailed[p]]
    BY <1>3 DEF Notify, Answer
  <2>2. \A v \in Workers : handler'[v] = IF v = w THEN Idle ELSE handler[v]
    BY <2>1
  <2>3. e \in PaidEvents => e.type = "paid" /\ mailed[e] = 0 /\ e \in payments
    BY <1>3 DEF Notify, PaidEvents
  <2>4. \A p \in PaidEvents :
          mailed'[p] = IF p = e /\ mailed[p] < MaxMails THEN mailed[p] + 1 ELSE mailed[p]
    BY <2>1
  <2>5. \A v \in Workers \ {w} : At(v, "notify") /\ handler[v].task.type = "paid" =>
                                   handler[v].task # e /\ handler[v].task \in PaidEvents
    BY <1>3, HandlerFacts DEF Notify
  <2>6. Idle.pc # "notify"
    BY DEF Idle
  <2> HIDE DEF e
  <2>7. ReceiptAtMostOnce'
    BY <2>3, <2>4 DEF MaxMails
  <2>8. \A p \in PaidEvents : mailed'[p] > 0 => p \in payments'
    BY <2>1, <2>3, <2>4 DEF MaxMails
  <2>9. \A v \in Workers : handler'[v].pc = "notify" => v # w /\ handler'[v] = handler[v]
    BY <2>2, <2>6
  <2>10. \A v \in Workers : handler'[v].pc = "notify" /\ handler'[v].task.type = "paid" =>
                             mailed'[handler'[v].task] = 0 /\ handler'[v].task \in payments'
    BY <2>1, <2>4, <2>5, <2>9
  <2> QED
    BY <2>7, <2>8, <2>9, <2>10
<1> HIDE DEF ReceiptPending, ReceiptAtMostOnce
<1>4. CASE UNCHANGED <<payments, mailed, handler>>
  BY <1>1, <1>4
<1>5. ASSUME NEW w \in Workers, Crash(w) PROVE (ReceiptPending /\ ReceiptAtMostOnce)'
  BY <1>1, <1>5 DEF Crash, Idle
<1>6. ASSUME NEW w \in Workers, Step(w), ~Pay(w), ~Notify(w)
      PROVE  (ReceiptPending /\ ReceiptAtMostOnce)'
  <2>1. UNCHANGED <<payments, mailed>>
    BY <1>6 DEF Step, DropOld, LoadOld, CancelOld, Find, LoadAccess, Insert, LoadPeriod,
       SetPeriod, CancelNow, SetPastDue, CancelRemote, UserCancelCommit, Fail
  <2>2. \A v \in Workers \ {w} : handler'[v] = handler[v]
    BY <1>6 DEF Step, DropOld, LoadOld, CancelOld, Find, LoadAccess, Insert, LoadPeriod,
       SetPeriod, CancelNow, SetPastDue, CancelRemote, UserCancelCommit, Fail, Goto, Forget, Answer
  <2>3. CASE CancelNow(w) \/ SetPastDue(w)
    <3>1. handler'[w].task = handler[w].task
      BY <2>3 DEF CancelNow, SetPastDue, Forget, Idle
    <3>2. handler[w].task.type # "paid"
      BY <2>3, HandlerFacts DEF CancelNow, SetPastDue, TaskKnown, TypesAt
    <3> QED
      BY <1>1, <2>1, <2>2, <3>1, <3>2
  <2>4. CASE ~CancelNow(w) /\ ~SetPastDue(w)
    <3>1. handler'[w].pc # "notify"
      <4>0. handler[w] \in Handlers
        BY HandlerFacts
      <4>1. DropOld(w) \/ Find(w) \/ Insert(w) \/ SetPeriod(w) \/ CancelRemote(w)
              \/ UserCancelCommit(w) => handler'[w].pc # "notify"
        BY Ends, Moves DEF DropOld, Find, Insert, SetPeriod, CancelRemote, UserCancelCommit,
           Steps
      <4>2. LoadAccess(w) => handler'[w].pc # "notify"
        <5>1. ASSUME NEW x, NEW y,
                     handler'[w] = [handler[w] EXCEPT !.pc = "insert", !.old = x, !.oldStatus = y]
              PROVE  handler'[w].pc # "notify"
          BY <4>0, <5>1 DEF Handlers
        <5>2. handler'[w] = Idle => handler'[w].pc # "notify"
          BY DEF Idle
        <5> QED
          BY <5>1, <5>2, LoadAccessMoves, Zenon
      <4>3. LoadOld(w) \/ CancelOld(w) => handler'[w].pc # "notify"
        <5>1. LoadOld(w) => handler'[w].pc # "notify"
          <6>1. \A x : [handler[w] EXCEPT !.pc = "cancel_old", !.loaded = x, !.period = now].pc
                         = "cancel_old"
            BY <4>0 DEF Handlers
          <6>2. Goto(w, "find") => handler'[w].pc = "find"
            BY Moves DEF Steps
          <6>3. handler \in [Workers -> Handlers]
            BY DEF IInv, TypeOK
          <6> QED
            BY <6>1, <6>2, <6>3 DEF LoadOld
        <5>2. CancelOld(w) => handler'[w].pc # "notify"
          BY <4>0 DEF CancelOld, Handlers
        <5> QED
          BY <5>1, <5>2
      <4>4. LoadPeriod(w) => handler'[w].pc # "notify"
        <5>1. \A x : [handler[w] EXCEPT !.pc = "set_period", !.loaded = x].pc = "set_period"
          BY <4>0 DEF Handlers
        <5>2. ASSUME LoadPeriod(w)
              PROVE  \/ Forget(w, "load_access")
                     \/ \E x : handler'[w] = [handler[w] EXCEPT !.pc = "set_period", !.loaded = x]
          BY <5>2 DEF LoadPeriod
        <5>3. Forget(w, "load_access") => handler'[w].pc = "load_access"
          BY Ends, Moves DEF Steps
        <5> QED
          BY <5>1, <5>2, <5>3
      <4> QED
        BY <1>6, <2>4, <4>1, <4>2, <4>3, <4>4 DEF Step
    <3> QED
      BY <1>1, <2>1, <2>2, <3>1
  <2> QED
    BY <2>3, <2>4
<1>7. ASSUME NEW w \in Workers, NEW s \in Subs, Deliver(w, s)
      PROVE  (ReceiptPending /\ ReceiptAtMostOnce)'
  <2>1. ASSUME NEW e, NEW pc, NEW loaded, NEW period, pc # "notify",
               Accept(w, e, pc, loaded, period)
        PROVE  (ReceiptPending /\ ReceiptAtMostOnce)'
    BY <1>1, <2>1 DEF Accept, Idle
  <2> QED
    BY <1>4, <1>7, <2>1 DEF Deliver, UserSubscribe, SubscriptionDeleted, PaymentSucceeded,
                            PaymentFailed
<1>8. CASE UserStep
  BY <1>1, <1>4, <1>8 DEF UserStep, Subscribe, Upgrade, UserCancel, Idle
<1> QED
  BY <1>2, <1>3, <1>4, <1>5, <1>6, <1>7, <1>8 DEF Next, StripeStep, ExpireSubscriptions

\* An idle handler relies on nothing.
LEMMA IdleOK == HandlerOK(Idle) /\ HandlerOK(Idle)'
BY DEF HandlerOK, TaskKnown, TypesAt, RowsLoaded, OldDropped, PeriodKnown, Idle, NoTask, Event

\* What a handler relies on stays true whatever the others do.
LEMMA HandlerKept ==
  ASSUME IInv, [Next]_vars, NEW v \in Workers, NEW k \in Handlers, HandlerOK(k),
         handler'[v] = k
  PROVE  HandlerOK(handler[v])'
<1>a. NothingUndone /\ StripeAdvances /\ EventsOfStarted
  BY NothingUndoneNext DEF NothingUndone, IInv
<1>b. /\ k.task.type \in TypesAt(k.pc)
      /\ k.pc \notin {"idle", "modify", "user_cancel"} => k.task \in sent /\ k.task.sub \in Subs
      /\ k.pc # "idle" => k.task.sub \in Subs
      /\ k.old \in Subs \cup {NoSub}
  <2>1. k.pc # "idle" => k.task # NoTask
    BY DEF HandlerOK, TaskKnown, TypesAt, NoTask, Event, Handlers, Steps
  <2>2. \A t \in Tasks : t.sub \in Subs
    BY DEF Tasks, Events
  <2> QED
    BY <2>1, <2>2 DEF HandlerOK, TaskKnown, Handlers
<1>c. k.pc \notin {"idle", "modify", "user_cancel"} =>
        /\ upgradeFrom'[k.task.sub] = upgradeFrom[k.task.sub]
        /\ upgradeFrom[k.task.sub] \in Subs \cup {NoSub}
  BY <1>a, <1>b DEF StripeAdvances, EventsOfStarted, IInv, TypeOK, StripeTypeOK
<1>1. TaskKnown(handler[v])'
  BY <1>a DEF HandlerOK, TaskKnown, StripeAdvances
<1>2. RowsLoaded(handler[v])'
  BY <1>a, <1>b, <1>c DEF HandlerOK, RowsLoaded, NothingUndone
<1>3. OldDropped(handler[v])'
  BY <1>a, <1>b, <1>c DEF HandlerOK, OldDropped, StripeAdvances
<1>4. PeriodKnown(handler[v])'
  <2>1. /\ \A s \in Subs : remote[s].end \in Nat /\ remote'[s].end \in Nat
        /\ now \in Nat /\ now' \in Nat
    BY TypeNext, StripeAssumption DEF IInv, TypeOK, StripeTypeOK
  <2> QED
    BY <1>a, <1>b, <2>1 DEF HandlerOK, PeriodKnown, StripeAdvances, Handlers
<1> QED
  BY <1>1, <1>2, <1>3, <1>4 DEF HandlerOK

\* A handler that accepts a delivery or a request may rely on what it read.
LEMMA DeliverOK ==
  ASSUME IInv, [Next]_vars, NEW w \in Workers, NEW s \in Subs, Deliver(w, s)
  PROVE  HandlerOK(handler[w])'
<1> DEFINE k == handler'[w]
<1>a. handler \in [Workers -> Handlers] /\ k \in Handlers /\ StripeTypeOK
      /\ rows \in [Subs -> Rows \cup {Absent}] /\ HandlerOK(handler[w])
  BY TypeNext DEF IInv, TypeOK, HandlersOK
<1>b. ASSUME NEW e, NEW pc, NEW loaded, NEW period, Accept(w, e, pc, loaded, period)
      PROVE  e \in sent /\ k = [pc |-> pc, task |-> e, loaded |-> loaded, old |-> NoSub,
                                oldStatus |-> "NONE", period |-> period]
  BY <1>a, <1>b DEF Accept, Idle
<1>1. CASE UserSubscribe(w, s)
  <2>1. /\ Checkout(s) \in sent
        /\ k = [pc |-> IF upgradeFrom[s] = NoSub THEN "find" ELSE "drop_old",
                task |-> Checkout(s), loaded |-> Absent, old |-> NoSub,
                oldStatus |-> "NONE", period |-> 0]
    BY <1>1, <1>b DEF UserSubscribe
  <2>2. upgradeFrom[s] \in Subs \cup {NoSub}
    BY <1>a DEF StripeTypeOK
  <2>3. HandlerOK(k)
    <3>1. CASE upgradeFrom[s] = NoSub
      BY <2>1, <3>1 DEF HandlerOK, TaskKnown, TypesAt, RowsLoaded, OldDropped, PeriodKnown,
                        Checkout, Event
    <3>2. CASE upgradeFrom[s] # NoSub
      BY <2>1, <2>2, <3>2 DEF HandlerOK, TaskKnown, TypesAt, RowsLoaded, OldDropped,
                              PeriodKnown, Checkout, Event
    <3> QED
      BY <3>1, <3>2
  <2> QED
    BY <1>a, <2>3, HandlerKept
<1>2. CASE SubscriptionDeleted(w, s)
  <2>1. /\ Deleted(s) \in sent /\ rows[s] \in Rows /\ now \in Nat
        /\ k = [pc |-> "cancel_now", task |-> Deleted(s), loaded |-> rows[s], old |-> NoSub,
                oldStatus |-> "NONE", period |-> now]
    BY <1>2, <1>a, <1>b, StripeAssumption DEF SubscriptionDeleted, StripeTypeOK
  <2>2. HandlerOK(k)
    BY <2>1 DEF HandlerOK, TaskKnown, TypesAt, RowsLoaded, OldDropped, PeriodKnown,
                Deleted, Event
  <2> QED
    BY <1>a, <2>2, HandlerKept
<1>3. ASSUME NEW i \in InvoiceNo, PaymentSucceeded(w, s, i) PROVE HandlerOK(handler[w])'
  <2>1. /\ Paid(s, i) \in sent /\ remote[s].end \in Nat
        /\ k = [pc |-> "load_period", task |-> Paid(s, i), loaded |-> Absent, old |-> NoSub,
                oldStatus |-> "NONE", period |-> remote[s].end]
    BY <1>3, <1>a, <1>b DEF PaymentSucceeded, StripeTypeOK
  <2>2. HandlerOK(k)
    BY <2>1 DEF HandlerOK, TaskKnown, TypesAt, RowsLoaded, OldDropped, PeriodKnown,
                Paid, Event
  <2> QED
    BY <1>a, <2>2, HandlerKept
<1>4. ASSUME NEW i \in InvoiceNo, PaymentFailed(w, s, i) PROVE HandlerOK(handler[w])'
  <2>1. CASE handler' = handler
    BY <1>a, <2>1, HandlerKept
  <2>2. CASE rows[s].status # "NONE" /\ Accept(w, Failed(s, i), "past_due", rows[s], 0)
    <3>1. /\ Failed(s, i) \in sent /\ rows[s] \in Rows
          /\ k = [pc |-> "past_due", task |-> Failed(s, i), loaded |-> rows[s], old |-> NoSub,
                  oldStatus |-> "NONE", period |-> 0]
      BY <2>2, <1>a, <1>b DEF Absent
    <3>2. HandlerOK(k)
      BY <3>1 DEF HandlerOK, TaskKnown, TypesAt, RowsLoaded, OldDropped, PeriodKnown,
                  Failed, Event
    <3> QED
      BY <1>a, <3>2, HandlerKept
  <2> QED
    BY <1>4, <2>1, <2>2 DEF PaymentFailed
<1> QED
  BY <1>1, <1>2, <1>3, <1>4 DEF Deliver

LEMMA UserCancelOK ==
  ASSUME IInv, [Next]_vars, NEW w \in Workers, NEW s \in Subs, UserCancel(w, s)
  PROVE  HandlerOK(handler[w])'
<1> DEFINE k == handler'[w]
<1>1. k \in Handlers
  BY TypeNext DEF TypeOK
<1>2. k = [pc |-> "modify", task |-> Request(s), loaded |-> rows[s], old |-> NoSub,
           oldStatus |-> "NONE", period |-> 0]
  BY DEF UserCancel, Idle, IInv, TypeOK
<1>3. rows[s] \in Rows
  BY DEF UserCancel, WithAccess, Access, GrantsAccess, Absent, IInv, TypeOK
<1>4. HandlerOK(k)
  BY <1>2, <1>3 DEF HandlerOK, TaskKnown, TypesAt, RowsLoaded, OldDropped, PeriodKnown,
                    Request, Event
<1> QED
  BY <1>1, <1>4, HandlerKept

\* A handler that takes a step may rely on what the step read or wrote.
LEMMA StepOK ==
  ASSUME IInv, [Next]_vars, NEW w \in Workers, Step(w)
  PROVE  HandlerOK(handler[w])'
<1> DEFINE h == handler[w]
           k == handler'[w]
<1>a. /\ handler \in [Workers -> Handlers] /\ h \in Handlers /\ k \in Handlers
      /\ rows \in [Subs -> Rows \cup {Absent}]
  BY TypeNext DEF IInv, TypeOK
<1>b. HandlerOK(h)
  BY DEF IInv, HandlersOK
<1>c. /\ TaskKnown(h) /\ RowsLoaded(h) /\ OldDropped(h) /\ PeriodKnown(h)
      /\ ~At(w, "idle") => h.task.sub \in Subs
      /\ handler[w].pc \notin {"idle", "modify", "user_cancel"} => h.task \in sent
  BY HandlerFacts
<1>d. NothingUndone /\ StripeAdvances /\ EventsOfStarted
  BY NothingUndoneNext DEF NothingUndone, IInv
<1>0. CASE k = Idle
  BY <1>0, <1>a, IdleOK, HandlerKept
\* the record a step leaves, when what it relies on held before the step
<1>k. HandlerOK(k) => HandlerOK(handler[w])'
  BY <1>a, HandlerKept
<1>1. CASE DropOld(w)
  <2>1. CASE Fail(w)
    BY <2>1, <1>0, Ends
  <2>2. CASE ~Fail(w)
    <3> DEFINE old == upgradeFrom[h.task.sub]
    <3>1. old \in Subs /\ h.task \in sent /\ h.task.sub \in Subs /\ h.task.type = "checkout"
      BY <1>1, <1>c DEF DropOld, At, RowsLoaded, TaskKnown, TypesAt
    <3>2. DeleteRemote(old) /\ k = [h EXCEPT !.pc = "load_old"]
      BY <1>1, <2>2, Ends, Moves DEF DropOld, Steps
    <3>3. /\ k.pc = "load_old" /\ k.task = h.task /\ k.loaded = h.loaded /\ k.old = h.old
      BY <3>2, <1>a DEF Handlers
    <3>4. remote'[old].state = "deleted" /\ sent \subseteq sent' /\ upgradeFrom' = upgradeFrom
      BY <3>1, <3>2 DEF DeleteRemote, IInv, TypeOK, StripeTypeOK
    <3>5. TaskKnown(handler[w])' /\ OldDropped(handler[w])' /\ PeriodKnown(handler[w])'
      BY <3>1, <3>3, <3>4 DEF TaskKnown, TypesAt, OldDropped, PeriodKnown
    <3>6. h.old # NoSub => h.old \in Subs /\ rows'[h.old] \in Rows
      BY <1>a, <1>c, <1>d DEF RowsLoaded, NothingUndone, Handlers
    <3>7. RowsLoaded(handler[w])'
      BY <3>1, <3>3, <3>4, <3>6 DEF RowsLoaded
    <3> QED
      BY <3>5, <3>7 DEF HandlerOK
  <2> QED
    BY <2>1, <2>2
<1>2. CASE LoadOld(w)
  <2> DEFINE old == upgradeFrom[h.task.sub]
  <2>1. k = IF rows[old] = Absent
            THEN [h EXCEPT !.pc = "find"]
            ELSE [h EXCEPT !.pc = "cancel_old", !.loaded = rows[old], !.period = now]
    BY <1>2, <1>a, Moves DEF LoadOld, Steps
  <2>2. old \in Subs /\ rows[old] \in Rows \cup {Absent}
    BY <1>2, <1>a, <1>c DEF LoadOld, At, RowsLoaded
  <2>3. HandlerOK(k)
    <3>1. CASE rows[old] = Absent
      <4>1. k.pc = "find" /\ k.task = h.task /\ k.old = h.old
        BY <2>1, <3>1, <1>a DEF Handlers
      <4> QED
        BY <1>2, <1>c, <4>1 DEF LoadOld, At, HandlerOK, TaskKnown, TypesAt, RowsLoaded,
                                OldDropped, PeriodKnown
    <3>2. CASE rows[old] # Absent
      <4>1. /\ k.pc = "cancel_old" /\ k.task = h.task /\ k.old = h.old
            /\ k.loaded = rows[old] /\ k.period = now /\ now \in Nat
        BY <2>1, <3>2, <1>a, StripeAssumption DEF Handlers, IInv, TypeOK, StripeTypeOK
      <4> QED
        BY <1>2, <1>c, <2>2, <3>2, <4>1 DEF LoadOld, At, HandlerOK, TaskKnown, TypesAt,
                                RowsLoaded, OldDropped, PeriodKnown
    <3> QED
      BY <3>1, <3>2
  <2> QED
    BY <1>k, <2>3
<1>3. CASE CancelOld(w)
  <2>1. k.pc = "find" /\ k.task = h.task /\ k.old = h.old
    BY <1>3, <1>a DEF CancelOld, Handlers
  <2>2. HandlerOK(k)
    BY <1>3, <1>c, <2>1 DEF CancelOld, At, HandlerOK, TaskKnown, TypesAt, RowsLoaded,
                            OldDropped, PeriodKnown
  <2> QED
    BY <1>k, <2>2
<1>4. CASE Find(w)
  <2>1. CASE k # Idle
    <3>1. k = [h EXCEPT !.pc = "load_access"]
      BY <1>4, <2>1, Ends, Moves DEF Find, Steps
    <3>2. k.pc = "load_access" /\ k.task = h.task /\ k.old = h.old
      BY <3>1, <1>a DEF Handlers
    <3>3. HandlerOK(k)
      BY <1>4, <1>c, <3>2 DEF Find, At, HandlerOK, TaskKnown, TypesAt, RowsLoaded,
                              OldDropped, PeriodKnown
    <3> QED
      BY <1>k, <3>3
  <2> QED
    BY <1>0, <2>1
<1>5. CASE LoadAccess(w)
  <2>1. ASSUME NEW x \in Subs \cup {NoSub}, NEW y \in Statuses \cup {"NONE"},
               k = [h EXCEPT !.pc = "insert", !.old = x, !.oldStatus = y],
               x = h.old \/ (x \in Subs /\ Access(x))
        PROVE  HandlerOK(k)
    <3>1. k.pc = "insert" /\ k.task = h.task /\ k.old = x
      BY <2>1, <1>a DEF Handlers
    <3>2. x # NoSub => rows[x] \in Rows
      BY <2>1, <1>a, <1>c DEF RowsLoaded, Access, GrantsAccess, Absent
    <3> QED
      BY <1>5, <1>c, <3>1, <3>2 DEF LoadAccess, At, HandlerOK, TaskKnown, TypesAt, RowsLoaded,
                                    OldDropped, PeriodKnown
  <2> QED
    BY <1>0, <1>5, <1>k, <2>1, LoadAccessMoves
<1>6. CASE Insert(w)
  <2>1. CASE k # Idle
    <3>1. /\ k = [Idle EXCEPT !.pc = "pay", !.task = h.task]
          /\ h.task.type = "paid" /\ rows'[h.task.sub] # Absent
      <4>1. /\ h.task.type = "paid" /\ Forget(w, "pay") /\ rows[h.task.sub] = Absent
            /\ rows'[h.task.sub] \in {NewRow(InsertStatus(h.task), now),
                                      [rows[h.task.sub] EXCEPT !.status = "CANCELED"]}
        BY <1>6, <2>1, <1>c, Ends, Moves DEF Insert, At
      <4>2. rows'[h.task.sub] # Absent
        BY <4>1 DEF NewRow, InsertStatus, Absent
      <4> QED
        BY <4>1, <4>2, Ends, Moves DEF Steps
    <3>2. k.pc = "pay" /\ k.task = h.task /\ k.old = NoSub
      BY <3>1 DEF Idle
    <3>3. h.task \in sent /\ h.task.sub \in Subs /\ sent \subseteq sent'
      BY <1>6, <1>c, <1>d DEF Insert, At, StripeAdvances
    <3>4. rows'[h.task.sub] \in Rows
      BY <3>1, <3>3, TypeNext DEF TypeOK
    <3> QED
      BY <3>1, <3>2, <3>3, <3>4 DEF HandlerOK, TaskKnown, TypesAt, RowsLoaded, OldDropped,
                                    PeriodKnown
  <2> QED
    BY <1>0, <2>1
<1>7. CASE LoadPeriod(w)
  <2>1. CASE rows[h.task.sub] = Absent
    <3>0. k = [Idle EXCEPT !.pc = "load_access", !.task = h.task]
      BY <1>7, <2>1, Moves DEF LoadPeriod, Steps
    <3>1. k.pc = "load_access" /\ k.task = h.task /\ k.old = NoSub
      BY <3>0 DEF Idle
    <3>2. HandlerOK(k)
      BY <1>7, <1>c, <3>1 DEF LoadPeriod, At, HandlerOK, TaskKnown, TypesAt, RowsLoaded,
                              OldDropped, PeriodKnown
    <3> QED
      BY <1>k, <3>2
  <2>2. CASE rows[h.task.sub] # Absent
    <3>1. k = [h EXCEPT !.pc = "set_period", !.loaded = rows[h.task.sub]]
      BY <1>7, <1>a, <2>2 DEF LoadPeriod
    <3>2. /\ k.pc = "set_period" /\ k.task = h.task /\ k.old = h.old
          /\ k.loaded = rows[h.task.sub] /\ k.period = h.period
      BY <3>1, <1>a DEF Handlers
    <3>3. rows[h.task.sub] \in Rows
      BY <1>7, <1>a, <1>c, <2>2 DEF LoadPeriod, At
    <3>4. HandlerOK(k)
      BY <1>7, <1>c, <3>2, <3>3 DEF LoadPeriod, At, HandlerOK, TaskKnown, TypesAt, RowsLoaded,
                                    OldDropped, PeriodKnown
    <3> QED
      BY <1>k, <3>4
  <2> QED
    BY <2>1, <2>2
<1>8. ASSUME NEW pc \in {"pay", "notify"}, Forget(w, pc),
             h.pc \in {"set_period", "pay", "cancel_now", "past_due"},
             pc = "pay" => h.pc = "set_period"
      PROVE  HandlerOK(handler[w])'
  <2>1. k.pc = pc /\ k.task = h.task /\ k.old = NoSub
    <3>0. pc \in Steps
      BY <1>8 DEF Steps
    <3>1. k = [Idle EXCEPT !.pc = pc, !.task = h.task]
      BY <1>8, <3>0, Moves
    <3> QED
      BY <3>1 DEF Idle
  <2>2. HandlerOK(k)
    BY <1>8, <1>c, <2>1 DEF At, HandlerOK, TaskKnown, TypesAt, RowsLoaded, OldDropped,
                            PeriodKnown
  <2> QED
    BY <1>k, <2>2
<1>9. CASE SetPeriod(w) \/ CancelNow(w) \/ SetPastDue(w)
  BY <1>8, <1>9 DEF SetPeriod, CancelNow, SetPastDue, At
<1>10. CASE Pay(w)
  BY <1>0, <1>8, <1>10, Ends, Moves DEF Pay, At
<1>11. CASE Notify(w) \/ UserCancelCommit(w)
  BY <1>0, <1>11, Ends, Moves DEF Notify, CancelRemote, UserCancelCommit
<1>12. CASE CancelRemote(w)
  <2>1. CASE k # Idle
    <3>1. k = [h EXCEPT !.pc = "user_cancel"]
      BY <1>12, <2>1, Ends, Moves DEF CancelRemote, Steps
    <3>2. k.pc = "user_cancel" /\ k.task = h.task /\ k.old = h.old /\ k.loaded = h.loaded
      BY <3>1, <1>a DEF Handlers
    <3>3. HandlerOK(k)
      BY <1>12, <1>c, <3>2 DEF CancelRemote, At, HandlerOK, TaskKnown, TypesAt, RowsLoaded,
                               OldDropped, PeriodKnown
    <3> QED
      BY <1>k, <3>3
  <2> QED
    BY <1>0, <2>1
<1> QED
  BY <1>1, <1>2, <1>3, <1>4, <1>5, <1>6, <1>7, <1>9, <1>10, <1>11, <1>12 DEF Step

LEMMA HandlersNext == IInv /\ [Next]_vars => HandlersOK'
<1> SUFFICES ASSUME IInv, [Next]_vars, NEW v \in Workers PROVE HandlerOK(handler[v])'
  BY DEF HandlersOK
<1>a. handler \in [Workers -> Handlers] /\ HandlerOK(handler[v])
  BY DEF IInv, TypeOK, HandlersOK
<1>1. CASE handler'[v] = handler[v]
  BY <1>1, <1>a, HandlerKept
<1>2. CASE handler'[v] = Idle
  BY <1>2, IdleOK, IdleType, HandlerKept
<1>3. CASE Step(v) \/ \E s \in Subs : Deliver(v, s) \/ UserCancel(v, s)
  BY <1>3, StepOK, DeliverOK, UserCancelOK
<1>4. ASSUME NEW w \in Workers, w # v, Step(w) \/ \E s \in Subs : Deliver(w, s) \/ UserCancel(w, s)
      PROVE  handler'[v] = handler[v]
  <2>1. CASE Step(w)
    BY <1>4, <2>1, <1>a DEF Step, DropOld, LoadOld, CancelOld, Find, LoadAccess, Insert,
       LoadPeriod, SetPeriod, Pay, CancelNow, SetPastDue, Notify, CancelRemote, UserCancelCommit, Fail,
       Goto, Forget, Answer
  <2>2. ASSUME NEW s \in Subs, Deliver(w, s) \/ UserCancel(w, s) PROVE handler'[v] = handler[v]
    BY <1>4, <2>2, <1>a DEF Deliver, UserSubscribe, SubscriptionDeleted, PaymentSucceeded,
       PaymentFailed, Accept, UserCancel
  <2> QED
    BY <1>4, <2>1, <2>2
<1>5. ASSUME NEW w \in Workers, Crash(w) PROVE handler'[v] \in {handler[v], Idle}
  BY <1>5, <1>a DEF Crash
<1> QED
  BY <1>1, <1>2, <1>3, <1>4, <1>5 DEF Next, UserStep, StripeStep, Subscribe, Upgrade,
     ExpireSubscriptions

-----------------------------------------------------------------------------
(* The theorems.                                                           *)

LEMMA InvNext == IInv /\ [Next]_vars => IInv'
BY TypeNext, EventsNext, HandlersNext, SentNext, AccessNext, AckNext, ReceiptNext DEF IInv

\* The inductive invariant: what handlers rely on across their awaits, and
\* every safety property below, holds of every reachable state.
THEOREM Invariant == Spec => []IInv
BY InitInv, InvNext, PTL DEF Spec

\* Type correctness: every table, Stripe object and handler keeps its shape.
THEOREM TypeCorrect == Spec => []TypeOK
BY Invariant, PTL DEF IInv

\* No user has access in the database beyond the period Stripe sold, or
\* through a subscription of which no invoice was collected, in whatever
\* order, how often and by how many handlers webhooks are handled.
THEOREM AccessIsBacked == Spec => []AccessBacked
BY Invariant, PTL DEF IInv

\* An event answered 200 is in the tables, whatever crashed before: the row of a
\* checkout and the end of the subscription it replaces, the row, payment and
\* receipt of a paid invoice.  Its period is another matter: see PaidPeriodApplied
\* in BillingGuarantees.
THEOREM AckIsRecorded == Spec => []AckMeansRecorded
BY Invariant, PTL DEF IInv

\* The receipt of an invoice is never enqueued twice.
THEOREM ReceiptOnce == Spec => []ReceiptAtMostOnce
BY Invariant, PTL DEF IInv

\* No step undoes what Stripe has decided or what another handler committed.
THEOREM NeverUndone == Spec => [][NothingUndone]_vars
BY Invariant, NothingUndoneNext, PTL DEF Spec

-----------------------------------------------------------------------------
(* The webhook handlers implement the payment ledger.                      *)

LEMMA LedgerInitial == Init => Ledger!LedgerInit
BY DEF Init, StripeInit, Ledger!LedgerInit

\* A step collects, records or receipts one invoice, or none.
LEMMA LedgerStep == IInv /\ [Next]_vars => [Ledger!LedgerNext]_Ledger!ledgerVars
<1> SUFFICES ASSUME IInv, [Next]_vars
             PROVE  [Ledger!LedgerNext]_Ledger!ledgerVars
  OBVIOUS
<1> USE DEF Ledger!ledgerVars
<1>a. /\ ReceiptPending /\ payments \subseteq sent
      /\ mailed \in [PaidEvents -> 0 .. MaxMails]
      /\ StripeTypeOK
  BY DEF IInv, TypeOK
<1>1. CASE UNCHANGED <<payments, mailed>> /\ sent' \cap PaidEvents = sent \cap PaidEvents
  BY <1>1
<1>2. ASSUME NEW s \in Subs, NEW type \in {"paid", "failed"}, SettleInvoice(s, type),
             UNCHANGED <<payments, mailed>>
      PROVE  [Ledger!LedgerNext]_Ledger!ledgerVars
  <2> DEFINE e == Event(type, s, remote[s].invoices)
  <2>1. CASE e \in PaidEvents
    <3>1. e \notin sent
      BY <1>2, <2>1 DEF SettleInvoice, Paid, Event, PaidEvents
    <3>2. Ledger!Collect(e)
      BY <1>2, <2>1, <3>1 DEF SettleInvoice, Ledger!Collect
    <3> QED
      BY <2>1, <3>2 DEF Ledger!LedgerNext
  <2>2. CASE e \notin PaidEvents
    BY <1>1, <1>2, <2>2 DEF SettleInvoice
  <2> QED
    BY <2>1, <2>2
<1>3. ASSUME NEW w \in Workers, Pay(w) PROVE [Ledger!LedgerNext]_Ledger!ledgerVars
  <2> DEFINE e == handler[w].task
  <2>1. CASE e \in payments
    BY <1>1, <1>3, <2>1 DEF Pay, Fail
  <2>2. CASE e \notin payments
    <3>1. e \in PaidEvents /\ e \in sent
      BY <1>3, HandlerFacts DEF Pay, At, TaskKnown, TypesAt
    <3>2. payments' = payments \cup {e} /\ mailed' = mailed /\ sent' = sent
      BY <1>3, <2>2 DEF Pay
    <3>3. Ledger!Record(e)
      BY <2>2, <3>1, <3>2 DEF Ledger!Record
    <3> QED
      BY <3>1, <3>3 DEF Ledger!LedgerNext
  <2> QED
    BY <2>1, <2>2
<1>4. ASSUME NEW w \in Workers, Notify(w) PROVE [Ledger!LedgerNext]_Ledger!ledgerVars
  <2>1. UNCHANGED <<payments, sent>>
    BY <1>4 DEF Notify
  <2>2. CASE handler[w].task \notin PaidEvents
    <3>1. \A p \in PaidEvents : mailed'[p] = mailed[p]
      BY <1>4, <1>a, <2>2 DEF Notify
    <3> QED
      BY <2>1, <3>1
  <2>3. ASSUME NEW e \in PaidEvents, e = handler[w].task
        PROVE  [Ledger!LedgerNext]_Ledger!ledgerVars
    <3>1. e \in payments /\ mailed[e] = 0
      BY <1>4, <1>a, <2>3 DEF Notify, ReceiptPending, PaidEvents
    <3>2. \A p \in PaidEvents : mailed'[p] > 0 <=> (mailed[p] > 0 \/ p = e)
      BY <1>4, <1>a, <2>3, <3>1 DEF Notify, MaxMails
    <3>3. Ledger!Receipt(e)
      BY <2>1, <2>3, <3>1, <3>2 DEF Ledger!Receipt
    <3> QED
      BY <3>3 DEF Ledger!LedgerNext
  <2> QED
    BY <2>2, <2>3
<1>5. ASSUME NEW s \in Subs, DeleteRemote(s) \/ CompleteCheckout(s)
      PROVE  sent' \cap PaidEvents = sent \cap PaidEvents
  BY <1>5 DEF DeleteRemote, CompleteCheckout, Deleted, Checkout, Event, PaidEvents
<1>6. CASE StripeStep
  <2>1. UNCHANGED <<payments, mailed>>
    BY <1>6 DEF StripeStep
  <2>2. ASSUME NEW s \in Subs, PayInvoice(s) \/ FailInvoice(s)
        PROVE  [Ledger!LedgerNext]_Ledger!ledgerVars
    BY <1>2, <2>1, <2>2 DEF PayInvoice, FailInvoice
  <2> QED
    BY <1>1, <1>5, <1>6, <2>1, <2>2 DEF StripeStep, Renew, Tick
<1>7. ASSUME NEW w \in Workers, Step(w), ~Pay(w), ~Notify(w)
      PROVE  [Ledger!LedgerNext]_Ledger!ledgerVars
  <2>1. UNCHANGED <<payments, mailed>>
    BY <1>7 DEF Step, DropOld, LoadOld, CancelOld, Find, LoadAccess, Insert, LoadPeriod,
       SetPeriod, CancelNow, SetPastDue, CancelRemote, UserCancelCommit, Fail
  <2>2. sent' = sent \/ \E s \in Subs : DeleteRemote(s)
    <3>1. CASE DropOld(w)
      BY <3>1, HandlerFacts DEF DropOld, At, RowsLoaded, Fail
    <3> QED
      BY <1>7, <3>1 DEF Step, LoadOld, CancelOld, Find, LoadAccess, Insert, LoadPeriod,
         SetPeriod, CancelNow, SetPastDue, CancelRemote, CancelRemoteAtPeriodEnd,
         UserCancelCommit, Fail
  <2> QED
    BY <1>1, <1>5, <2>1, <2>2
<1>8. ASSUME NEW w \in Workers, NEW s \in Subs, Deliver(w, s)
      PROVE  UNCHANGED <<payments, mailed, sent>>
  BY <1>8 DEF Deliver, UserSubscribe, SubscriptionDeleted, PaymentSucceeded,
              PaymentFailed, Accept
<1>9. UserStep => UNCHANGED <<payments, mailed, sent>>
  BY DEF UserStep, Subscribe, Upgrade, UserCancel, CreateSession
<1> QED
  BY <1>1, <1>3, <1>4, <1>6, <1>7, <1>8, <1>9 DEF Next, Crash, ExpireSubscriptions

\* Each invoice is recorded once, after Stripe collected it, and receipted
\* once, after it was recorded, however webhooks are delivered.
THEOREM LedgerImplemented == Spec => ImplementsLedger
BY LedgerInitial, LedgerStep, Invariant, PTL DEF Spec, ImplementsLedger, Ledger!LedgerSpec

-----------------------------------------------------------------------------
(* Access is revoked only for a cause.                                     *)

\* A cancellation at the period's end, a replacement and a renewal leave a row
\* that gives access as it was, unless the new period is over.
LEMMA AccessKept ==
  ASSUME NEW stored \in Rows, NEW loaded \in Rows, NEW time \in Nat, NEW end \in Nat,
         GrantsAccess(stored, time)
  PROVE  /\ GrantsAccess(Canceled(stored, loaded), time)
         /\ GrantsAccess([stored EXCEPT !.status = "CANCELED"], time)
         /\ end > time => GrantsAccess(WithPeriod(stored, loaded, end), time)
BY DEF GrantsAccess, Canceled, WithPeriod, Flush, Rows

LEMMA RevocationStep ==
  ASSUME IInv, [Next]_vars, NEW s \in Subs, Access(s), ~Access(s)', now' = now
  PROVE  RevocationCause(s)
<1>a. /\ rows \in [Subs -> Rows \cup {Absent}] /\ rows[s] \in Rows
      /\ now \in Nat /\ remote[s].end \in Nat
  BY StripeAssumption DEF IInv, TypeOK, StripeTypeOK, Access, GrantsAccess, Absent
<1>b. GrantsAccess(rows[s], now) /\ ~GrantsAccess(rows'[s], now)
  BY DEF Access
<1>c. \E w \in Workers : Step(w)
  BY <1>b DEF Next, UserStep, StripeStep, Subscribe, Upgrade, UserCancel, Crash,
         ExpireSubscriptions, Deliver, UserSubscribe, SubscriptionDeleted,
         PaymentSucceeded, PaymentFailed, Accept
<1>d. PICK w \in Workers : Step(w)
  BY <1>c
<1> DEFINE h == handler[w]
<1>e. h \in Handlers /\ TaskKnown(h) /\ RowsLoaded(h) /\ OldDropped(h) /\ PeriodKnown(h)
  BY HandlerFacts
<1>f. h.pc \notin {"idle", "modify", "user_cancel"} =>
        h.task \in sent /\ h.task \in Events /\ h.task.sub \in Subs
  BY HandlerFacts DEF At
<1> HIDE DEF h
<1> USE DEF At
<1>1. CASE CancelOld(w)
  <2>1. s = upgradeFrom[h.task.sub]
    BY <1>1, <1>a, <1>b DEF CancelOld, h
  <2>2. h.pc = "cancel_old" /\ h.task.type = "checkout" /\ s # NoSub
    BY <1>1, <1>e, StripeAssumption DEF CancelOld, TaskKnown, TypesAt, h
  <2> QED
    BY <1>e, <2>1, <2>2 DEF OldDropped, RevocationCause
<1>2. CASE Insert(w)
  <2>1. rows[h.task.sub] = Absent
    BY <1>2, <1>b DEF Insert, Fail, h
  <2>2. s # h.task.sub
    BY <1>a, <2>1, RowTypes
  <2>3. rows'[s] \in {rows[s], [rows[s] EXCEPT !.status = "CANCELED"]}
    BY <1>2, <1>a, <2>2 DEF Insert, Fail, h
  <2> QED
    BY <1>a, <1>b, <2>3, AccessKept
<1>3. CASE SetPeriod(w)
  <2>1. s = h.task.sub /\ h.pc = "set_period"
    BY <1>3, <1>a, <1>b DEF SetPeriod, h
  <2>2. rows'[s] = WithPeriod(rows[s], h.loaded, h.period)
    BY <1>3, <1>a, <2>1 DEF SetPeriod, h
  <2>3. h.loaded \in Rows /\ h.period \in Nat
    BY <1>e, <2>1 DEF RowsLoaded, Handlers
  <2>4. h.period <= now
    <3>1. h.period > now => GrantsAccess(WithPeriod(rows[s], h.loaded, h.period), now)
      BY <1>a, <1>b, <2>3, AccessKept
    <3> QED
      BY <1>a, <1>b, <2>2, <2>3, <3>1
  <2>5. rows[s].end > now /\ rows[s].end <= remote[s].end /\ rows[s].end \in Nat
    BY <1>a, <1>b DEF GrantsAccess, IInv, AccessBacked, Rows
  <2>6. h.period < remote[s].end
    BY <1>a, <2>3, <2>4, <2>5
  <2> QED
    BY <2>1, <2>6 DEF RevocationCause, h
<1>4. CASE CancelNow(w)
  <2>1. s = h.task.sub /\ h.pc = "cancel_now"
    BY <1>4, <1>a, <1>b DEF CancelNow, h
  <2>2. h.task \in sent /\ h.task = Deleted(s)
    BY <1>e, <1>f, <2>1 DEF TaskKnown, TypesAt, Events, Deleted, Event
  <2> QED
    BY <2>2 DEF IInv, EventsOfStarted, RevocationCause
<1>5. CASE SetPastDue(w)
  <2>1. s = h.task.sub /\ h.pc = "past_due"
    BY <1>5, <1>a, <1>b DEF SetPastDue, h
  <2>2. h.task \in sent /\ h.task.inv \in InvoiceNo /\ h.task = Failed(s, h.task.inv)
    BY <1>e, <1>f, <2>1 DEF TaskKnown, TypesAt, Events, Failed, Event
  <2> QED
    BY <2>2 DEF RevocationCause
<1>6. CASE UserCancelCommit(w)
  <2>1. s = h.task.sub /\ h.pc = "user_cancel"
    BY <1>6, <1>a, <1>b DEF UserCancelCommit, h
  <2>2. rows'[s] = Canceled(rows[s], h.loaded) /\ h.loaded \in Rows
    BY <1>6, <1>a, <1>e, <2>1 DEF UserCancelCommit, RowsLoaded, h
  <2> QED
    BY <1>a, <1>b, <2>2, AccessKept
<1>7. rows' # rows
  BY <1>b
<1> QED
  BY <1>1, <1>2, <1>3, <1>4, <1>5, <1>6, <1>7, <1>d
     DEF Step, DropOld, LoadOld, Find, LoadAccess, LoadPeriod, Pay, Notify, CancelRemote, Fail

\* Only a deletion at Stripe, a failed payment, or a delivery of its own paid
\* invoice that has been overtaken by a renewal takes a user's access away.
THEOREM RevocationCaused == Spec => RevocationHasCause
<1>1. IInv /\ [Next]_vars =>
        [\A s \in Subs : Access(s) /\ ~Access(s)' /\ now' = now => RevocationCause(s)]_vars
  BY RevocationStep
<1> QED
  BY <1>1, Invariant, PTL DEF Spec, RevocationHasCause
=============================================================================
