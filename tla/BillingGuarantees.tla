-------------------------- MODULE BillingGuarantees --------------------------
(***************************************************************************)
(* Further guarantees of the subscription lifecycle: where access comes    *)
(* from, that a subscription is replaced once, and two theorems about what *)
(* does not work: an upgrade that lost its handler, and webhooks without a *)
(* bearer token.                                                           *)
(***************************************************************************)
EXTENDS BillingProofs

USE DEF stripeVars, localVars, vars

-----------------------------------------------------------------------------
(* What a handler's commit does to a row.                                  *)

\* Only handlers that have started write rows.
LEMMA RowsByStep ==
  ASSUME [Next]_vars, rows' # rows
  PROVE  \E w \in Workers : Step(w)
BY DEF Next, UserStep, StripeStep, Subscribe, Upgrade, UserCancel, Crash,
       ExpireSubscriptions, Deliver, UserSubscribe, SubscriptionDeleted,
       PaymentSucceeded, PaymentFailed, Accept

\* The commits, one by one: which step of the handler, and what becomes of the
\* stored row.
LEMMA RowChanges ==
  ASSUME IInv, NEW w \in Workers, Step(w), NEW s \in Subs, rows'[s] # rows[s]
  PROVE  \/ rows[s] = Absent /\ rows'[s].end = now
         \/ At(w, "insert") /\ handler[w].old = s
              /\ rows[s] \in Rows /\ rows'[s] = [rows[s] EXCEPT !.status = "CANCELED"]
         \/ \E loaded \in Rows, time \in Nat :
              /\ time <= now /\ remote[s].state = "deleted"
              /\ rows[s] \in Rows /\ rows'[s] = CanceledNow(rows[s], loaded, time)
         \/ handler[w].task.sub = s /\ rows[s] \in Rows /\ handler[w].loaded \in Rows
              /\ \/ At(w, "set_period")
                      /\ rows'[s] = WithPeriod(rows[s], handler[w].loaded, handler[w].period)
                 \/ At(w, "past_due") /\ rows'[s] = PastDue(rows[s], handler[w].loaded)
                 \/ At(w, "user_cancel") /\ rows'[s] = Canceled(rows[s], handler[w].loaded)
<1> DEFINE h == handler[w]
<1>a. rows \in [Subs -> Rows \cup {Absent}] /\ now \in Nat
  BY StripeAssumption DEF IInv, TypeOK, StripeTypeOK
<1>b. h \in Handlers /\ RowsLoaded(h) /\ PeriodKnown(h) /\ h.period \in Nat
  BY HandlerFacts DEF Handlers
<1> HIDE DEF h
<1> USE DEF At
<1>1. CASE CancelOld(w)
  <2>1. s = upgradeFrom[h.task.sub]
    BY <1>1, <1>a DEF CancelOld, h
  <2>2. rows'[s] = CanceledNow(rows[s], h.loaded, h.period)
    BY <1>1, <1>a, <2>1 DEF CancelOld, h
  <2>3. rows[s] \in Rows /\ h.loaded \in Rows /\ h.period <= now
    BY <1>1, <1>b, <2>1 DEF CancelOld, RowsLoaded, PeriodKnown, h
  <2>4. remote[s].state = "deleted"
    BY <1>1, <2>1, HandlerFacts, StripeAssumption DEF CancelOld, OldDropped, TaskKnown, TypesAt, h
  <2> QED
    BY <1>b, <2>2, <2>3, <2>4
<1>2. CASE Insert(w)
  <2>1. CASE s = h.task.sub
    <3>1. rows[s] = Absent
      BY <1>2, <2>1 DEF Insert, Fail, h
    <3>2. s # h.old
      BY <1>b, <3>1, RowTypes, StripeAssumption DEF RowsLoaded
    <3>3. rows'[s] = NewRow(InsertStatus(h.task), now)
      BY <1>2, <2>1, <3>1, <3>2, <1>a DEF Insert, Fail, h
    <3> QED
      BY <3>1, <3>3 DEF NewRow
  <2>2. CASE s # h.task.sub
    <3>1. s = h.old /\ rows'[s] = [rows[s] EXCEPT !.status = "CANCELED"]
      BY <1>2, <1>a, <2>2 DEF Insert, Fail, h
    <3>2. rows[s] \in Rows
      BY <1>b, <3>1, StripeAssumption DEF RowsLoaded
    <3> QED
      BY <1>2, <3>1, <3>2 DEF Insert, h
  <2> QED
    BY <2>1, <2>2
<1>3. CASE SetPeriod(w)
  <2>1. s = h.task.sub /\ rows'[s] = WithPeriod(rows[s], h.loaded, h.period)
    BY <1>3, <1>a DEF SetPeriod, h
  <2> QED
    BY <1>3, <1>b, <2>1 DEF SetPeriod, RowsLoaded, h
<1>4. CASE CancelNow(w)
  <2>1. s = h.task.sub /\ rows'[s] = CanceledNow(rows[s], h.loaded, h.period)
    BY <1>4, <1>a DEF CancelNow, h
  <2>2. h.loaded \in Rows /\ rows[s] \in Rows /\ h.period <= now
    BY <1>4, <1>b, <2>1 DEF CancelNow, RowsLoaded, PeriodKnown, h
  <2>3. h.task \in Events /\ h.task \in sent /\ h.task.type = "deleted"
    BY <1>4, HandlerFacts DEF CancelNow, TaskKnown, TypesAt, h
  <2>4. h.task = Deleted(s)
    BY <2>1, <2>3 DEF Events, Deleted, Event
  <2>5. remote[s].state = "deleted"
    BY <2>3, <2>4 DEF IInv, EventsOfStarted
  <2> QED
    BY <1>b, <2>1, <2>2, <2>5
<1>5. CASE SetPastDue(w)
  <2>1. s = h.task.sub /\ rows'[s] = PastDue(rows[s], h.loaded)
    BY <1>5, <1>a DEF SetPastDue, h
  <2> QED
    BY <1>5, <1>b, <2>1 DEF SetPastDue, RowsLoaded, h
<1>6. CASE UserCancelCommit(w)
  <2>1. s = h.task.sub /\ rows'[s] = Canceled(rows[s], h.loaded)
    BY <1>6, <1>a DEF UserCancelCommit, h
  <2> QED
    BY <1>6, <1>b, <2>1 DEF UserCancelCommit, RowsLoaded, h
<1> QED
  BY <1>1, <1>2, <1>3, <1>4, <1>5, <1>6
     DEF Step, DropOld, LoadOld, Find, LoadAccess, LoadPeriod, Pay, Notify, CancelRemote, Fail

\* What the merged columns come to.
LEMMA MergedColumns ==
  ASSUME NEW stored \in Rows, NEW loaded \in Rows, NEW n \in Nat
  PROVE  /\ CanceledNow(stored, loaded, n).end = n
         /\ CanceledNow(stored, loaded, n).status \in {stored.status, "CANCELED"}
         /\ Canceled(stored, loaded).end = stored.end
         /\ Canceled(stored, loaded).status =
              IF loaded.status = "CANCELED" THEN stored.status ELSE "CANCELED"
         /\ PastDue(stored, loaded).end = stored.end
         /\ PastDue(stored, loaded).status =
              IF loaded.status = "PAST_DUE" THEN stored.status ELSE "PAST_DUE"
         /\ WithPeriod(stored, loaded, n).status =
              IF loaded.status = "ACTIVE" THEN stored.status ELSE "ACTIVE"
BY DEF CanceledNow, Canceled, PastDue, WithPeriod, Flush, Rows

-----------------------------------------------------------------------------
(* How handlers move.                                                      *)

\* A handler goes on by its own steps, or ends.
LEMMA HandlerMoves ==
  ASSUME IInv, [Next]_vars, NEW v \in Workers
  PROVE  \/ handler'[v] = handler[v]
         \/ handler'[v] = Idle
         \/ Step(v)
         \/ \E s \in Subs : Deliver(v, s) \/ UserCancel(v, s)
<1>a. handler \in [Workers -> Handlers]
  BY DEF IInv, TypeOK
<1>1. ASSUME NEW w \in Workers, w # v, Step(w) PROVE handler'[v] = handler[v]
  BY <1>1, <1>a DEF Step, DropOld, LoadOld, CancelOld, Find, LoadAccess, Insert,
     LoadPeriod, SetPeriod, Pay, CancelNow, SetPastDue, Notify, CancelRemote, UserCancelCommit, Fail,
     Goto, Forget, Answer
<1>2. ASSUME NEW w \in Workers, w # v, NEW s \in Subs, Deliver(w, s) \/ UserCancel(w, s)
      PROVE  handler'[v] = handler[v]
  BY <1>2, <1>a DEF Deliver, UserSubscribe, SubscriptionDeleted, PaymentSucceeded,
     PaymentFailed, Accept, UserCancel
<1>3. ASSUME NEW w \in Workers, Crash(w) PROVE handler'[v] \in {handler[v], Idle}
  BY <1>3, <1>a DEF Crash
<1> QED
  BY <1>1, <1>2, <1>3 DEF Next, UserStep, StripeStep, Subscribe, Upgrade, ExpireSubscriptions

\* Where a delivery begins; what else it does is nothing.
LEMMA DeliverMoves ==
  ASSUME IInv, NEW w \in Workers, NEW s \in Subs, Deliver(w, s)
  PROVE  \/ handler'[w] = handler[w]
         \/ handler'[w].pc \in {"drop_old", "load_period", "cancel_now", "past_due"}
         \/ /\ handler'[w].pc = "find"
            /\ handler'[w].task = Checkout(s)
            /\ Checkout(s) \in sent
            /\ upgradeFrom[s] = NoSub
<1>a. handler \in [Workers -> Handlers]
  BY DEF IInv, TypeOK
<1>b. ASSUME NEW e, NEW pc, NEW loaded, NEW period, Accept(w, e, pc, loaded, period)
      PROVE  e \in sent /\ handler'[w].pc = pc /\ handler'[w].task = e
  BY <1>a, <1>b DEF Accept, Idle
<1>1. CASE UserSubscribe(w, s)
  BY <1>1, <1>b DEF UserSubscribe
<1>2. CASE SubscriptionDeleted(w, s)
  BY <1>2, <1>b DEF SubscriptionDeleted
<1>3. ASSUME NEW i \in InvoiceNo, PaymentSucceeded(w, s, i)
      PROVE  handler'[w].pc = "load_period"
  BY <1>3, <1>b DEF PaymentSucceeded
<1>4. ASSUME NEW i \in InvoiceNo, PaymentFailed(w, s, i)
      PROVE  handler'[w] = handler[w] \/ handler'[w].pc = "past_due"
  BY <1>4, <1>b DEF PaymentFailed
<1> QED
  BY <1>1, <1>2, <1>3, <1>4 DEF Deliver

\* A cancellation starts from a row that gives access.
LEMMA UserCancelMoves ==
  ASSUME IInv, NEW w \in Workers, NEW s \in Subs, UserCancel(w, s)
  PROVE  /\ handler'[w].pc = "modify"
         /\ handler'[w].loaded.status \in {"ACTIVE", "CANCELED"}
<1>1. handler \in [Workers -> Handlers]
  BY DEF IInv, TypeOK
<1>2. Access(s)
  BY DEF UserCancel, WithAccess
<1> QED
  BY <1>1, <1>2 DEF UserCancel, Idle, Access, GrantsAccess

\* Where a step leads: out of drop_old only after a deletion at Stripe, into
\* set_period only with a row just loaded.
LEMMA StepMoves ==
  ASSUME IInv, NEW w \in Workers, Step(w)
  PROVE  \/ handler'[w] = Idle
         \/ /\ handler'[w].task = handler[w].task
            /\ \/ /\ At(w, "drop_old")
                  /\ handler'[w].pc = "load_old"
                  /\ DeleteRemote(upgradeFrom[handler[w].task.sub])
               \/ handler[w].pc \in AfterDrop /\ handler'[w].pc \in AfterDrop
               \/ At(w, "load_period") /\ handler'[w].pc = "load_access"
               \/ /\ At(w, "load_period")
                  /\ handler'[w].pc = "set_period"
                  /\ handler'[w].loaded = rows[handler[w].task.sub]
                  /\ rows[handler[w].task.sub] # Absent
               \/ /\ At(w, "modify")
                  /\ handler'[w].pc = "user_cancel"
                  /\ handler'[w].loaded = handler[w].loaded
               \/ handler'[w].pc \in {"pay", "notify"}
<1>a. handler \in [Workers -> Handlers] /\ handler[w] \in Handlers
  BY DEF IInv, TypeOK
<1>b. \A pc \in Steps :
        /\ Goto(w, pc) => handler'[w].pc = pc /\ handler'[w].task = handler[w].task
        /\ Forget(w, pc) => handler'[w].pc = pc /\ handler'[w].task = handler[w].task
  BY Moves
<1> USE DEF Steps, AfterDrop, At
<1>1. CASE DropOld(w)
  BY <1>1, <1>b, Ends DEF DropOld
<1>2. CASE LoadOld(w)
  <2>1. CASE Goto(w, "find")
    BY <1>2, <1>b, <2>1 DEF LoadOld
  <2>2. CASE ~Goto(w, "find")
    <3> DEFINE k == [handler[w] EXCEPT !.pc = "cancel_old", !.period = now,
                                       !.loaded = rows[upgradeFrom[handler[w].task.sub]]]
    <3>1. k.pc = "cancel_old" /\ k.task = handler[w].task
      BY <1>a DEF Handlers
    <3>2. handler'[w] = k /\ At(w, "load_old")
      BY <1>2, <1>a, <2>2 DEF LoadOld
    <3> HIDE DEF k
    <3> QED
      BY <3>1, <3>2
  <2> QED
    BY <2>1, <2>2
<1>3. CASE CancelOld(w)
  BY <1>3, <1>a DEF CancelOld, Handlers
<1>4. CASE Find(w)
  BY <1>4, <1>b, Ends DEF Find
<1>5. CASE LoadAccess(w)
  <2>1. ASSUME NEW x, NEW y,
               handler'[w] = [handler[w] EXCEPT !.pc = "insert", !.old = x, !.oldStatus = y]
        PROVE  handler'[w].pc = "insert" /\ handler'[w].task = handler[w].task
    BY <2>1, <1>a DEF Handlers
  <2>2. At(w, "load_access")
    BY <1>5 DEF LoadAccess
  <2>3. handler'[w] = Idle \/ (handler'[w].pc = "insert" /\ handler'[w].task = handler[w].task)
    BY <1>5, <2>1, LoadAccessMoves
  <2> QED
    BY <2>2, <2>3
<1>6. CASE Insert(w)
  BY <1>6, <1>b, Ends DEF Insert
<1>7. CASE LoadPeriod(w)
  <2>1. CASE rows[handler[w].task.sub] = Absent
    BY <1>7, <2>1, <1>b DEF LoadPeriod
  <2>2. CASE rows[handler[w].task.sub] # Absent
    BY <1>7, <2>2, <1>a DEF LoadPeriod, Handlers
  <2> QED
    BY <2>1, <2>2
<1>8. CASE SetPeriod(w) \/ CancelNow(w) \/ SetPastDue(w)
  BY <1>8, <1>b DEF SetPeriod, CancelNow, SetPastDue
<1>9. CASE Pay(w)
  BY <1>9, <1>b, Ends DEF Pay
<1>10. CASE Notify(w) \/ UserCancelCommit(w)
  BY <1>10, Ends DEF Notify, UserCancelCommit
<1>11. CASE CancelRemote(w)
  <2>1. handler'[w] = Idle \/ handler'[w] = [handler[w] EXCEPT !.pc = "user_cancel"]
    BY <1>11, Ends, Moves DEF CancelRemote
  <2> QED
    BY <1>11, <1>a, <2>1 DEF CancelRemote, Handlers
<1> QED
  BY <1>1, <1>2, <1>3, <1>4, <1>5, <1>6, <1>7, <1>8, <1>9, <1>10, <1>11 DEF Step

-----------------------------------------------------------------------------
(* The marks failed payments leave.                                        *)

\* A handler about to write a period has been there before the step, or has
\* just loaded the row.
LEMMA PeriodLoaded ==
  ASSUME IInv, [Next]_vars, NEW w \in Workers, handler'[w].pc = "set_period"
  PROVE  \/ handler'[w] = handler[w]
         \/ /\ handler'[w].task = handler[w].task
            /\ handler'[w].loaded = rows[handler[w].task.sub]
            /\ rows[handler[w].task.sub] # Absent
<1>1. CASE Step(w)
  BY <1>1, StepMoves DEF Idle, AfterDrop
<1>2. ASSUME NEW s \in Subs, Deliver(w, s) PROVE handler'[w] = handler[w]
  BY <1>2, DeliverMoves
<1>3. ASSUME NEW s \in Subs PROVE ~UserCancel(w, s)
  BY UserCancelMoves
<1> QED
  BY <1>1, <1>2, <1>3, HandlerMoves DEF Idle

\* A handler that marks a row works on a failed invoice of its subscription.
LEMMA MarkedForFailure ==
  ASSUME IInv, NEW w \in Workers, At(w, "past_due")
  PROVE  \E i \in InvoiceNo : Failed(handler[w].task.sub, i) \in sent
<1>1. /\ handler[w].task \in sent /\ handler[w].task \in Events
      /\ handler[w].task.type = "failed"
  BY HandlerFacts DEF At, TaskKnown, TypesAt
<1>2. handler[w].task.inv \in InvoiceNo
      /\ handler[w].task = Failed(handler[w].task.sub, handler[w].task.inv)
  BY <1>1 DEF Events, Failed, Event
<1> QED
  BY <1>1, <1>2

LEMMA MarksNext == IInv /\ MarksOK /\ [Next]_vars => MarksOK'
<1> SUFFICES ASSUME IInv, MarksOK, [Next]_vars, NEW s \in Subs, Unmarked(s)'
             PROVE  /\ rows'[s].end <= now'
                    /\ \A v \in Workers :
                         handler'[v].pc = "set_period" /\ handler'[v].task.sub = s
                           => handler'[v].loaded.status = "PAST_DUE"
  BY DEF MarksOK, At
<1>a. /\ now \in Nat /\ now' \in Nat /\ now <= now'
      /\ rows[s] \in Rows \cup {Absent} /\ rows'[s].end \in Nat
      /\ rows'[s].status = "PAST_DUE"
      /\ \A i \in InvoiceNo : Failed(s, i) \notin sent
  BY StripeAssumption, TypeNext, StripeAdvancesNext
     DEF IInv, TypeOK, StripeTypeOK, StripeAdvances, Unmarked, Rows, Absent
<1>b. ASSUME rows[s] # Absent => rows[s].status = "PAST_DUE",
             NEW v \in Workers, handler'[v].pc = "set_period", handler'[v].task.sub = s
      PROVE  handler'[v].loaded.status = "PAST_DUE"
  <2>1. CASE handler'[v] = handler[v]
    <3>1. rows[s] # Absent
      BY <1>b, <2>1, HandlerFacts, RowTypes DEF RowsLoaded
    <3>2. Unmarked(s)
      BY <1>a, <1>b, <3>1 DEF Unmarked
    <3> QED
      BY <1>b, <2>1, <3>2 DEF MarksOK, At
  <2>2. CASE handler'[v] # handler[v]
    BY <1>b, <2>2, PeriodLoaded
  <2> QED
    BY <2>1, <2>2
<1>c. CASE rows[s].status = "PAST_DUE" /\ (rows'[s].end = rows[s].end \/ rows'[s].end <= now)
  <2>1. Unmarked(s)
    BY <1>a, <1>c DEF Unmarked
  <2>2. rows[s] # Absent /\ rows[s].end <= now /\ rows[s].end \in Nat
    BY <1>a, <1>c, <2>1 DEF MarksOK, Absent, Rows
  <2>3. rows'[s].end <= now'
    BY <1>a, <1>c, <2>2
  <2> QED
    BY <1>b, <1>c, <2>3
<1>1. CASE rows'[s] = rows[s]
  BY <1>1, <1>a, <1>c
<1>2. CASE rows'[s] # rows[s]
  <2>1. PICK w \in Workers : Step(w)
    BY <1>2, RowsByStep
  <2> DEFINE h == handler[w]
  <2>a. h.period \in Nat
    BY DEF IInv, TypeOK, Handlers
  <2> HIDE DEF h
  <2>2. CASE rows[s] = Absent /\ rows'[s].end = now
    BY <1>a, <1>b, <2>2
  <2>3. ASSUME NEW loaded \in Rows, NEW time \in Nat, time <= now, rows[s] \in Rows,
               rows'[s] = CanceledNow(rows[s], loaded, time)
        PROVE  rows[s].status = "PAST_DUE" /\ rows'[s].end <= now
    BY <1>a, <2>3, MergedColumns
  <2>4. ASSUME At(w, "set_period"), h.task.sub = s, rows[s] \in Rows, h.loaded \in Rows,
               rows'[s] = WithPeriod(rows[s], h.loaded, h.period)
        PROVE  FALSE
    <3>1. h.loaded.status = "ACTIVE" /\ rows[s].status = "PAST_DUE"
      BY <1>a, <2>a, <2>4, MergedColumns
    <3> QED
      BY <1>a, <2>4, <3>1 DEF MarksOK, Unmarked, h
  <2>5. ASSUME At(w, "past_due"), h.task.sub = s PROVE FALSE
    BY <1>a, <2>5, MarkedForFailure DEF h
  <2>6. ASSUME rows[s] \in Rows, h.loaded \in Rows, rows'[s] = Canceled(rows[s], h.loaded)
        PROVE  rows[s].status = "PAST_DUE" /\ rows'[s].end = rows[s].end
    BY <1>a, <2>6, MergedColumns
  <2>7. ~(rows[s] \in Rows /\ rows'[s] = [rows[s] EXCEPT !.status = "CANCELED"])
    BY <1>a DEF Rows
  <2> QED
    BY <1>2, <1>c, <2>1, <2>2, <2>3, <2>4, <2>5, <2>6, <2>7, RowChanges DEF h
<1> QED
  BY <1>1, <1>2

\* A cancellation goes on with the row it has loaded.
LEMMA CancelsNext == IInv /\ CancelsLoaded /\ [Next]_vars => CancelsLoaded'
<1> SUFFICES ASSUME IInv, CancelsLoaded, [Next]_vars, NEW w \in Workers,
                    handler'[w].pc \in {"modify", "user_cancel"}
             PROVE  handler'[w].loaded.status # "PAST_DUE"
  BY DEF CancelsLoaded
<1>1. CASE Step(w)
  BY <1>1, StepMoves DEF Idle, AfterDrop, CancelsLoaded, At
<1>2. ASSUME NEW s \in Subs, Deliver(w, s) PROVE handler'[w] = handler[w]
  BY <1>2, DeliverMoves
<1>3. ASSUME NEW s \in Subs, UserCancel(w, s) PROVE handler'[w].loaded.status # "PAST_DUE"
  BY <1>3, UserCancelMoves
<1> QED
  BY <1>1, <1>2, <1>3, HandlerMoves DEF Idle, CancelsLoaded

-----------------------------------------------------------------------------
(* A subscription is replaced once.                                        *)

\* Whoever replaces a subscription has had Stripe delete it.
LEMMA ReplacedIsDeleted ==
  ASSUME IInv, NEW old \in Subs, NEW w \in Replacing(old)
  PROVE  remote[old].state = "deleted"
BY HandlerFacts, StripeAssumption DEF Replacing, AfterDrop, OldDropped

\* A step takes a handler to those that replace a subscription only if Stripe
\* deletes the subscription in that step, for that handler.
LEMMA ReplacingStep ==
  ASSUME IInv, [Next]_vars, NEW old \in Subs, NEW w \in Replacing(old)'
  PROVE  w \in Replacing(old) \/ (Step(w) /\ At(w, "drop_old") /\ DeleteRemote(old)
                                    /\ handler'[w].task = handler[w].task)
<1>a. /\ w \in Workers
      /\ handler'[w].task.type = "checkout"
      /\ handler'[w].pc \in AfterDrop
      /\ upgradeFrom'[handler'[w].task.sub] = old
  BY DEF Replacing
<1>b. old # NoSub
  BY StripeAssumption
<1>c. \A e \in sent : upgradeFrom'[e.sub] = upgradeFrom[e.sub]
  BY StripeAdvancesNext DEF StripeAdvances, IInv, EventsOfStarted, TypeOK, StripeTypeOK, Events
<1>1. CASE handler'[w] = handler[w]
  <2>1. handler[w].task \in sent
    BY <1>1, <1>a, HandlerFacts DEF AfterDrop, At
  <2> QED
    BY <1>1, <1>a, <1>c, <2>1 DEF Replacing
<1>2. CASE Step(w)
  <2>1. handler'[w].task = handler[w].task /\ handler[w].task \in sent
    BY <1>2, <1>a, StepMoves, HandlerFacts DEF Idle, AfterDrop, At
  <2>2. upgradeFrom[handler[w].task.sub] = old
    BY <1>a, <1>c, <2>1
  <2>3. ~At(w, "load_period")
    BY <1>a, <2>1, HandlerFacts DEF TaskKnown, TypesAt, At
  <2> QED
    BY <1>2, <1>a, <2>1, <2>2, <2>3, StepMoves DEF Replacing, AfterDrop, Idle
<1>3. ASSUME NEW s \in Subs, Deliver(w, s), handler'[w] # handler[w] PROVE FALSE
  <2>1. handler'[w].task = Checkout(s) /\ Checkout(s) \in sent /\ upgradeFrom[s] = NoSub
    BY <1>3, <1>a, DeliverMoves DEF AfterDrop
  <2> QED
    BY <1>a, <1>b, <1>c, <2>1 DEF Checkout, Event
<1>4. ASSUME NEW s \in Subs PROVE ~UserCancel(w, s)
  BY <1>a, UserCancelMoves DEF AfterDrop
<1> QED
  BY <1>a, <1>1, <1>2, <1>3, <1>4, HandlerMoves DEF Idle, AfterDrop

LEMMA OneReplaces == IInv /\ ReplacedByOne /\ [Next]_vars => ReplacedByOne'
<1> SUFFICES ASSUME IInv, ReplacedByOne, [Next]_vars, NEW old \in Subs,
                    NEW v \in Replacing(old)', NEW w \in Replacing(old)'
             PROVE  v = w
  BY DEF ReplacedByOne
<1>1. CASE v \in Replacing(old) /\ w \in Replacing(old)
  BY <1>1 DEF ReplacedByOne
<1>2. ASSUME v \in Replacing(old) \/ w \in Replacing(old), DeleteRemote(old) PROVE FALSE
  BY <1>2, ReplacedIsDeleted DEF DeleteRemote
<1>3. ASSUME Step(v), Step(w), At(v, "drop_old"), At(w, "drop_old"), DeleteRemote(old),
             handler'[v].pc # "drop_old", handler'[w].pc # "drop_old"
      PROVE  v = w
  <2>1. DropOld(v)
    BY <1>3 DEF At, Step, LoadOld, CancelOld, Find, LoadAccess, Insert, LoadPeriod, SetPeriod,
       Pay, CancelNow, SetPastDue, Notify, CancelRemote, UserCancelCommit
  <2>2. v \in Workers /\ w \in Workers
    BY DEF Replacing
  <2>3. v # w => handler'[w] = handler[w]
    BY <2>1, <2>2 DEF DropOld, Goto, Fail, IInv, TypeOK
  <2> QED
    BY <1>3, <2>3 DEF At
<1> QED
  BY <1>1, <1>2, <1>3, ReplacingStep DEF Replacing, AfterDrop
-----------------------------------------------------------------------------
(* The theorems.                                                           *)

LEMMA GuaranteesInitial == Init => GInv
<1> SUFFICES ASSUME Init PROVE MarksOK /\ CancelsLoaded /\ ReplacedByOne
  BY InitInv DEF GInv
<1> QED
  BY DEF Init, MarksOK, Unmarked, CancelsLoaded, ReplacedByOne, Replacing, AfterDrop, Absent,
         At, Idle

\* The invariant these guarantees rest on, with that of BillingProofs in it.
THEOREM GuaranteesInvariant == Spec => []GInv
<1>1. GInv /\ [Next]_vars => GInv'
  BY InvNext, MarksNext, CancelsNext, OneReplaces DEF GInv
<1> QED
  BY <1>1, GuaranteesInitial, PTL DEF Spec

\* However many deliveries of however many upgrades of a subscription are under
\* way, one handler at most is replacing it.
THEOREM OneReplacement == Spec => []ReplacedByOne
BY GuaranteesInvariant, PTL DEF GInv

\* A subscription Stripe has deleted is taken up for replacement by nobody.
THEOREM ReplacedOnlyOnce == Spec => ReplacedOnce
<1>1. IInv /\ [Next]_vars =>
        [\A old \in Subs :
           remote[old].state = "deleted" => Replacing(old)' \subseteq Replacing(old)]_vars
  BY ReplacingStep DEF DeleteRemote
<1> QED
  BY <1>1, Invariant, PTL DEF Spec, ReplacedOnce

LEMMA GrantStep ==
  ASSUME GInv, [Next]_vars, NEW s \in Subs, ~Access(s), Access(s)'
  PROVE  GrantCause(s)
<1>a. /\ now \in Nat /\ now' \in Nat /\ now <= now'
      /\ rows[s] \in Rows \cup {Absent}
      /\ rows'[s].end > now' /\ rows'[s].status \in {"ACTIVE", "CANCELED"}
      /\ ~(rows[s].end > now /\ rows[s].status \in {"ACTIVE", "CANCELED"})
  BY StripeAssumption, TypeNext, StripeAdvancesNext
     DEF GInv, IInv, TypeOK, StripeTypeOK, StripeAdvances, Access, GrantsAccess
<1>1. rows'[s] # rows[s]
  BY <1>a DEF Rows, Absent
<1>2. PICK w \in Workers : Step(w)
  BY <1>1, RowsByStep
<1> DEFINE h == handler[w]
<1>b. h \in Handlers /\ h.period \in Nat
  BY DEF GInv, IInv, TypeOK, Handlers
<1>c. ASSUME rows[s] \in Rows, rows'[s].end = rows[s].end
      PROVE  rows[s].status = "PAST_DUE" /\ \E i \in InvoiceNo : Failed(s, i) \in sent
  <2>1. rows[s].end > now /\ rows[s].status = "PAST_DUE"
    BY <1>a, <1>c DEF Rows, Statuses
  <2> QED
    BY <1>a, <1>c, <2>1 DEF GInv, MarksOK, Unmarked, Rows
<1> HIDE DEF h
<1>3. CASE At(w, "set_period") /\ h.task.sub = s
  BY <1>3 DEF GrantCause, h
<1>4. CASE At(w, "insert") /\ h.old = s /\ rows[s] \in Rows
             /\ rows'[s] = [rows[s] EXCEPT !.status = "CANCELED"]
  <2>1. rows'[s].end = rows[s].end
    BY <1>4 DEF Rows
  <2> QED
    BY <1>4, <1>c, <2>1 DEF GrantCause, h
<1>5. CASE At(w, "user_cancel") /\ h.task.sub = s /\ rows[s] \in Rows /\ h.loaded \in Rows
             /\ rows'[s] = Canceled(rows[s], h.loaded)
  <2>1. rows'[s].end = rows[s].end /\ h.loaded.status # "CANCELED"
    BY <1>5, <1>a, <1>1, <1>c, MergedColumns
  <2>2. h.loaded.status = "ACTIVE"
    BY <1>5, <2>1 DEF GInv, CancelsLoaded, Rows, Statuses, At, h
  <2> QED
    BY <1>5, <1>c, <2>1, <2>2 DEF GrantCause, h
<1>6. CASE At(w, "past_due") /\ rows[s] \in Rows /\ h.loaded \in Rows
             /\ rows'[s] = PastDue(rows[s], h.loaded)
  <2>1. rows'[s].end = rows[s].end
    BY <1>6, MergedColumns
  <2>2. rows'[s].status \in {rows[s].status, "PAST_DUE"}
    BY <1>6, MergedColumns
  <2> QED
    BY <1>a, <1>c, <1>6, <2>1, <2>2
<1>7. ASSUME NEW loaded \in Rows, NEW time \in Nat, time <= now, rows[s] \in Rows,
             rows'[s] = CanceledNow(rows[s], loaded, time)
      PROVE  FALSE
  <2>1. rows'[s].end = time
    BY <1>7, MergedColumns
  <2> QED
    BY <1>7, <1>a, <2>1
<1>8. ~(rows[s] = Absent /\ rows'[s].end = now)
  BY <1>a
<1>9. IInv
  BY DEF GInv
<1> QED
  BY <1>1, <1>2, <1>3, <1>4, <1>5, <1>6, <1>7, <1>8, <1>9, RowChanges DEF h

\* Nobody gains access but by a delivery of a paid invoice of the subscription,
\* save that a cancellation can lift the mark of a failed payment.
THEOREM GrantsCaused == Spec => GrantHasCause
<1>1. GInv /\ [Next]_vars =>
        [\A s \in Subs : ~Access(s) /\ Access(s)' => GrantCause(s)]_vars
  BY GrantStep
<1> QED
  BY <1>1, GuaranteesInvariant, PTL DEF Spec, GrantHasCause
-----------------------------------------------------------------------------
(* The period of a paid invoice.  The code loses it in two ways, and only  *)
(* in these: AckMeansApplied holds of every behaviour without them.        *)

\* No event of a paid invoice is handled before the checkout's row exists: what
\* create_subscription then inserts has an empty period (stripe_gateway.py:340).
CheckoutFirst ==
  \A w \in Workers :
    handler[w].pc \in {"load_access", "insert"} => handler[w].task.type # "paid"

\* No subscription is renewed between a handler's call of Subscription.retrieve
\* and its commit (stripe_gateway.py:327).
PeriodsCurrent ==
  \A w \in Workers : At(w, "set_period") => handler[w].period = remote[handler[w].task.sub].end

InvoicesKnown ==
  \A s \in Subs : \A i \in InvoiceNo : Paid(s, i) \in sent => i <= remote[s].invoices

\* The handler of a paid invoice is past its commit of the period.
PeriodWritten(s, i) ==
  \/ Paid(s, i) \in acked
  \/ \E w \in Workers : handler[w].pc \in {"pay", "notify"} /\ handler[w].task = Paid(s, i)

PeriodsWritten ==
  \A s \in Subs : \A i \in InvoiceNo : PeriodWritten(s, i) => PeriodApplied(s, i)

\* A handler that will not write the column, because the row it has loaded has
\* the period already, may leave it as it is.
PeriodsLoaded ==
  \A w \in Workers :
    /\ At(w, "set_period")
    /\ remote[handler[w].task.sub].state = "active"
    /\ handler[w].loaded.end = handler[w].period
    => rows[handler[w].task.sub].end >= handler[w].period

PInv == InvoicesKnown /\ PeriodsWritten /\ PeriodsLoaded

\* Only load_period leads to set_period, and it leads nowhere near the payment.
LEMMA PeriodLoading ==
  ASSUME IInv, [Next]_vars, NEW w \in Workers, handler'[w].pc = "set_period",
         handler'[w] # handler[w]
  PROVE  LoadPeriod(w)
<1>1. CASE Step(w)
  <2>1. At(w, "load_period")
    BY <1>1, StepMoves DEF Idle, AfterDrop
  <2> QED
    BY <1>1, <2>1 DEF At, Step, DropOld, LoadOld, CancelOld, Find, LoadAccess, Insert, SetPeriod,
       Pay, CancelNow, SetPastDue, Notify, CancelRemote, UserCancelCommit
<1>2. ASSUME NEW s \in Subs, Deliver(w, s) PROVE FALSE
  BY <1>2, DeliverMoves
<1>3. ASSUME NEW s \in Subs PROVE ~UserCancel(w, s)
  BY UserCancelMoves
<1> QED
  BY <1>1, <1>2, <1>3, HandlerMoves DEF Idle

LEMMA LoadPeriodMoves ==
  ASSUME IInv, NEW w \in Workers, Step(w), At(w, "load_period")
  PROVE  handler'[w].pc \in {"load_access", "set_period"}
<1>1. LoadPeriod(w)
  BY DEF At, Step, DropOld, LoadOld, CancelOld, Find, LoadAccess, Insert, SetPeriod,
     Pay, CancelNow, SetPastDue, Notify, CancelRemote, UserCancelCommit
<1>2. handler \in [Workers -> Handlers] /\ handler[w] \in Handlers
  BY DEF IInv, TypeOK
<1> DEFINE k == [handler[w] EXCEPT !.pc = "set_period", !.loaded = rows[handler[w].task.sub]]
<1>3. k.pc = "set_period"
  BY <1>2 DEF Handlers
<1>4. Forget(w, "load_access") => handler'[w].pc = "load_access"
  BY Moves DEF Steps
<1>5. Forget(w, "load_access") \/ handler'[w] = k
  BY <1>1, <1>2 DEF LoadPeriod
<1> HIDE DEF k
<1> QED
  BY <1>3, <1>4, <1>5

\* Stripe's periods and invoices advance together.
LEMMA PeriodsAdvance ==
  ASSUME IInv, [Next]_vars, NEW s \in Subs, Started(s)
  PROVE  \/ remote'[s].end = remote[s].end /\ remote'[s].invoices = remote[s].invoices
         \/ /\ remote'[s].end = remote[s].end + Period
            /\ remote'[s].invoices = remote[s].invoices + 1
<1> DEFINE Goal ==
      \/ remote'[s].end = remote[s].end /\ remote'[s].invoices = remote[s].invoices
      \/ /\ remote'[s].end = remote[s].end + Period
         /\ remote'[s].invoices = remote[s].invoices + 1
<1>a. StripeTypeOK
  BY DEF IInv, TypeOK
<1> USE <1>a DEF StripeTypeOK
<1>1. CASE UNCHANGED remote
  BY <1>1
<1>2. ASSUME NEW t \in Subs, DeleteRemote(t) \/ CancelRemoteAtPeriodEnd(t) PROVE Goal
  BY <1>2 DEF DeleteRemote, CancelRemoteAtPeriodEnd
<1>3. ASSUME NEW t \in Subs, NEW old, CreateSession(t, old) \/ CompleteCheckout(t) PROVE Goal
  BY <1>3 DEF CreateSession, CompleteCheckout, Started
<1>4. ASSUME NEW t \in Subs, Renew(t) PROVE Goal
  BY <1>4 DEF Renew
<1>5. ASSUME NEW w \in Workers, Step(w) PROVE Goal
  <2>1. CASE DropOld(w)
    <3>1. upgradeFrom[handler[w].task.sub] \in Subs
      BY <2>1, HandlerFacts DEF DropOld, At, RowsLoaded
    <3> QED
      BY <1>1, <1>2, <2>1, <3>1 DEF DropOld, Fail
  <2>2. CASE CancelRemote(w)
    BY <1>1, <1>2, <2>2, HandlerFacts DEF CancelRemote, At, Fail
  <2> QED
    BY <1>1, <1>5, <2>1, <2>2 DEF Step, LoadOld, CancelOld, Find, LoadAccess, Insert,
       LoadPeriod, SetPeriod, Pay, CancelNow, SetPastDue, Notify, UserCancelCommit, Fail
<1>6. ASSUME NEW w \in Workers, NEW t \in Subs, Deliver(w, t) PROVE UNCHANGED remote
  BY <1>6 DEF Deliver, UserSubscribe, SubscriptionDeleted, PaymentSucceeded, PaymentFailed, Accept
<1>7. CASE UserStep
  BY <1>1, <1>3, <1>7 DEF UserStep, Subscribe, Upgrade, UserCancel
<1>8. CASE StripeStep
  BY <1>1, <1>2, <1>3, <1>4, <1>8 DEF StripeStep, PayInvoice, FailInvoice, SettleInvoice, Tick
<1> QED
  BY <1>1, <1>5, <1>6, <1>7, <1>8 DEF Next, Crash, ExpireSubscriptions

\* The period an invoice is for stays the same, and lies within Stripe's.
LEMMA PeriodEndStep ==
  ASSUME IInv, [Next]_vars, NEW s \in Subs, NEW i \in InvoiceNo, Started(s)
  PROVE  /\ PeriodEnd(s, i)' = PeriodEnd(s, i)
         /\ PeriodEnd(s, i) \in Int
         /\ i <= remote[s].invoices => PeriodEnd(s, i) <= remote[s].end
<1>1. /\ Period \in Nat /\ i \in Int
      /\ remote[s].end \in Nat /\ remote[s].invoices \in Int
  BY StripeAssumption DEF IInv, TypeOK, StripeTypeOK, InvoiceNo
<1>2. ASSUME NEW k \in Int
      PROVE  /\ k * Period \in Int /\ (k + 1) * Period = k * Period + Period
             /\ k >= 0 => k * Period >= 0
  BY <1>1, <1>2
<1> DEFINE k == remote[s].invoices - i
<1>3. k \in Int /\ (remote[s].invoices + 1) - i = k + 1
  BY <1>1
<1>4. k * Period \in Int /\ (k + 1) * Period = k * Period + Period /\ (k >= 0 => k * Period >= 0)
  BY <1>2, <1>3
<1>5. CASE remote'[s].end = remote[s].end /\ remote'[s].invoices = remote[s].invoices
  BY <1>1, <1>4, <1>5 DEF PeriodEnd
<1>6. CASE /\ remote'[s].end = remote[s].end + Period
           /\ remote'[s].invoices = remote[s].invoices + 1
  <2>1. remote'[s].invoices - i = k + 1
    BY <1>3, <1>6
  <2>2. PeriodEnd(s, i)' = (remote[s].end + Period) - (k + 1) * Period
    BY <1>6, <2>1 DEF PeriodEnd
  <2> QED
    BY <1>1, <1>4, <2>2 DEF PeriodEnd
<1> QED
  BY <1>5, <1>6, PeriodsAdvance

\* Stripe sends the event of the open invoice.
LEMMA PaidSent ==
  ASSUME IInv, [Next]_vars, NEW s \in Subs, NEW i \in InvoiceNo,
         Paid(s, i) \in sent', Paid(s, i) \notin sent
  PROVE  i = remote[s].invoices /\ remote' = remote
<1>1. ASSUME NEW t \in Subs, NEW type, SettleInvoice(t, type)
      PROVE  i = remote[s].invoices /\ remote' = remote
  BY <1>1 DEF SettleInvoice, Paid, Event
<1>2. ASSUME NEW t \in Subs
      PROVE  ~DeleteRemote(t) /\ ~CompleteCheckout(t)
  BY DEF DeleteRemote, CompleteCheckout, Deleted, Checkout, Paid, Event
<1>3. ASSUME NEW w \in Workers, Step(w) PROVE FALSE
  <2>1. CASE DropOld(w)
    <3>1. upgradeFrom[handler[w].task.sub] \in Subs
      BY <2>1, HandlerFacts DEF DropOld, At, RowsLoaded
    <3> QED
      BY <1>2, <2>1, <3>1 DEF DropOld, Fail
  <2> QED
    BY <1>3, <2>1 DEF Step, LoadOld, CancelOld, Find, LoadAccess, Insert, LoadPeriod, SetPeriod,
       Pay, CancelNow, SetPastDue, Notify, CancelRemote, CancelRemoteAtPeriodEnd,
       UserCancelCommit, Fail
<1>4. ASSUME NEW w \in Workers, NEW t \in Subs, Deliver(w, t) PROVE FALSE
  BY <1>4 DEF Deliver, UserSubscribe, SubscriptionDeleted, PaymentSucceeded, PaymentFailed, Accept
<1>5. ~UserStep
  BY DEF UserStep, Subscribe, Upgrade, UserCancel, CreateSession
<1> QED
  BY <1>1, <1>2, <1>3, <1>4, <1>5
     DEF Next, StripeStep, Renew, PayInvoice, FailInvoice, Tick, Crash, ExpireSubscriptions

LEMMA InvoicesNext == IInv /\ InvoicesKnown /\ [Next]_vars => InvoicesKnown'
<1> SUFFICES ASSUME IInv, InvoicesKnown, [Next]_vars, NEW s \in Subs, NEW i \in InvoiceNo,
                    Paid(s, i) \in sent'
             PROVE  i <= remote'[s].invoices
  BY DEF InvoicesKnown
<1>1. i \in Nat /\ remote[s].invoices \in Nat
  BY StripeAssumption DEF InvoiceNo, IInv, TypeOK, StripeTypeOK
<1>2. CASE Paid(s, i) \in sent
  <2>1. Started(s) /\ i <= remote[s].invoices
    BY <1>2 DEF IInv, EventsOfStarted, InvoicesKnown, Paid, Event
  <2> QED
    BY <1>1, <2>1, PeriodsAdvance
<1>3. CASE Paid(s, i) \notin sent
  BY <1>1, <1>3, PaidSent
<1> QED
  BY <1>2, <1>3

\* What a commit makes of the end of a row: set_period aside, the row of a
\* subscription that lives keeps it.
LEMMA EndsKept ==
  ASSUME IInv, PeriodsCurrent, PeriodsLoaded, [Next]_vars, NEW s \in Subs,
         rows[s] \in Rows, remote[s].state = "active"
  PROVE  /\ rows[s].end \in Nat /\ rows'[s].end \in Nat
         /\ \/ rows'[s].end = rows[s].end
            \/ rows'[s].end >= remote[s].end
<1>a. rows[s].end \in Nat /\ rows'[s].end \in Nat /\ remote[s].end \in Nat
  BY TypeNext DEF IInv, TypeOK, StripeTypeOK, Rows, Absent
<1>1. CASE rows'[s] = rows[s]
  BY <1>1, <1>a
<1>2. CASE rows'[s] # rows[s]
  <2>1. PICK w \in Workers : Step(w)
    BY <1>2, RowsByStep
  <2> DEFINE h == handler[w]
  <2>a. h.period \in Nat
    BY DEF IInv, TypeOK, Handlers
  <2> HIDE DEF h
  <2>2. ASSUME At(w, "set_period"), h.task.sub = s, h.loaded \in Rows,
               rows'[s] = WithPeriod(rows[s], h.loaded, h.period)
        PROVE  rows'[s].end >= remote[s].end
    <3>1. h.period = remote[s].end
      BY <2>2 DEF PeriodsCurrent, h
    <3>2. CASE h.loaded.end = h.period
      <4>1. rows[s].end >= h.period
        BY <2>2, <3>2 DEF PeriodsLoaded, h
      <4>2. rows'[s].end = rows[s].end
        BY <2>2, <3>2 DEF WithPeriod, Flush
      <4> QED
        BY <3>1, <4>1, <4>2
    <3>3. CASE h.loaded.end # h.period
      <4>1. rows'[s].end = h.period
        BY <2>2, <3>3 DEF WithPeriod, Flush
      <4> QED
        BY <1>a, <3>1, <4>1
    <3> QED
      BY <3>2, <3>3
  <2>3. rows[s] # Absent
    BY RowTypes
  <2>4. rows'[s] = [rows[s] EXCEPT !.status = "CANCELED"] => rows'[s].end = rows[s].end
    BY DEF Rows
  <2>5. ASSUME h.loaded \in Rows,
               rows'[s] \in {PastDue(rows[s], h.loaded), Canceled(rows[s], h.loaded)}
        PROVE  rows'[s].end = rows[s].end
    BY <2>5, MergedColumns
  <2> QED
    BY <1>2, <1>a, <2>1, <2>2, <2>3, <2>4, <2>5, RowChanges DEF h
<1> QED
  BY <1>1, <1>2

LEMMA PeriodsLoadedNext ==
  IInv /\ PeriodsLoaded /\ PeriodsCurrent /\ [Next]_vars => PeriodsLoaded'
<1> SUFFICES ASSUME IInv, PeriodsLoaded, PeriodsCurrent, [Next]_vars, NEW w \in Workers,
                    handler'[w].pc = "set_period",
                    remote'[handler'[w].task.sub].state = "active",
                    handler'[w].loaded.end = handler'[w].period
             PROVE  rows'[handler'[w].task.sub].end >= handler'[w].period
  BY DEF PeriodsLoaded, At
<1> DEFINE s == handler'[w].task.sub
<1>1. /\ s \in Subs /\ handler'[w].period \in Nat
      /\ handler'[w].task = handler[w].task
      /\ handler[w].pc \in {"load_period", "set_period"}
      /\ handler'[w].period = handler[w].period
      /\ rows[s] \in Rows
      /\ At(w, "set_period") => handler'[w] = handler[w]
      /\ At(w, "load_period") => handler'[w].loaded = rows[s]
  <2>1. handler'[w].period \in Nat
    BY TypeNext DEF TypeOK, Handlers
  <2>2. CASE handler'[w] = handler[w]
    BY <2>1, <2>2, HandlerFacts DEF At, RowsLoaded
  <2>3. CASE handler'[w] # handler[w]
    <3>1. LoadPeriod(w)
      BY <2>3, PeriodLoading
    <3>2. /\ handler[w].task.sub \in Subs
          /\ handler[w] \in Handlers /\ handler \in [Workers -> Handlers]
          /\ rows \in [Subs -> Rows \cup {Absent}]
      BY <3>1, HandlerFacts DEF LoadPeriod, At, IInv, TypeOK
    <3>3. ~Forget(w, "load_access")
      BY Moves DEF Steps
    <3>4. /\ rows[handler[w].task.sub] # Absent
          /\ handler'[w] = [handler[w] EXCEPT !.pc = "set_period",
                                              !.loaded = rows[handler[w].task.sub]]
      BY <3>1, <3>2, <3>3 DEF LoadPeriod
    <3>5. /\ handler'[w].task = handler[w].task /\ handler'[w].period = handler[w].period
          /\ handler'[w].loaded = rows[handler[w].task.sub]
      BY <3>2, <3>4 DEF Handlers
    <3> QED
      BY <2>1, <3>1, <3>2, <3>4, <3>5 DEF LoadPeriod, At
  <2> QED
    BY <2>2, <2>3
<1> HIDE DEF s
<1>2. remote[s].state = "active" /\ Started(s)
  <2>1. handler[w].task \in sent
    BY <1>1, HandlerFacts DEF At
  <2>2. Started(s)
    BY <1>1, <2>1 DEF IInv, EventsOfStarted, s
  <2>3. remote[s].state # "deleted"
    BY <1>1, StripeAdvancesNext DEF StripeAdvances, s
  <2> QED
    BY <2>2, <2>3 DEF Started
<1>3. handler[w].period <= remote[s].end /\ remote[s].end \in Nat
  BY <1>1, HandlerFacts DEF PeriodKnown, IInv, TypeOK, StripeTypeOK, s
<1>4. rows[s].end >= handler[w].period
  <2>1. CASE At(w, "set_period")
    BY <1>1, <1>2, <2>1 DEF PeriodsLoaded, s
  <2>2. CASE At(w, "load_period")
    BY <1>1, <2>2, EndsKept, <1>2
  <2> QED
    BY <1>1, <2>1, <2>2 DEF At
<1>5. rows'[s].end >= handler'[w].period
  BY <1>1, <1>2, <1>3, <1>4, EndsKept
<1> QED
  BY <1>5 DEF s

\* An event is answered by the handler that is on it, a failed payment that
\* needs no mark aside.
LEMMA Answered ==
  ASSUME IInv, [Next]_vars, NEW e \in acked', e \notin acked, e.type # "failed"
  PROVE  \E w \in Workers :
           /\ handler[w].task = e
           /\ handler[w].pc \in {"find", "insert", "notify"}
           /\ At(w, "insert") => handler[w].task.type = "checkout"
<1>1. PICK w \in Workers : Step(w) \/ \E t \in Subs : Deliver(w, t)
  BY DEF Next, UserStep, StripeStep, Subscribe, Upgrade, UserCancel, Crash, ExpireSubscriptions
<1>2. ASSUME NEW t \in Subs, Deliver(w, t) PROVE FALSE
  <2>1. \A i \in InvoiceNo : Failed(t, i) # e
    BY DEF Failed, Event
  <2>2. ASSUME NEW x, NEW pc, NEW loaded, NEW period, Accept(w, x, pc, loaded, period)
        PROVE  acked' = acked
    BY <2>2 DEF Accept
  <2>3. \/ acked' = acked
        \/ \E i \in InvoiceNo : acked' = acked \cup {Failed(t, i)}
    BY <1>2, <2>2 DEF Deliver, UserSubscribe, SubscriptionDeleted, PaymentSucceeded, PaymentFailed
  <2> QED
    BY <2>1, <2>3
<1>3. Step(w)
  BY <1>1, <1>2
<1>4. /\ acked' = acked \cup {handler[w].task} /\ handler[w].pc \in {"find", "insert", "notify"}
      /\ At(w, "insert") => handler[w].task.type = "checkout"
  BY <1>3 DEF Step, DropOld, LoadOld, CancelOld, Find, LoadAccess, Insert, LoadPeriod, SetPeriod,
     Pay, CancelNow, SetPastDue, Notify, CancelRemote, UserCancelCommit, Fail, Answer, At
<1> QED
  BY <1>4

\* The event of a paid invoice is answered when its receipt is enqueued.
LEMMA PaidAnswered ==
  ASSUME IInv, [Next]_vars, NEW s \in Subs, NEW i \in InvoiceNo,
         Paid(s, i) \in acked', Paid(s, i) \notin acked
  PROVE  PeriodWritten(s, i)
<1>1. Paid(s, i).type = "paid"
  BY DEF Paid, Event
<1>2. PICK w \in Workers : handler[w].task = Paid(s, i) /\ handler[w].pc \in {"find", "insert", "notify"}
                             /\ (At(w, "insert") => handler[w].task.type = "checkout")
  BY <1>1, Answered
<1>3. ~At(w, "find")
  BY <1>1, <1>2, HandlerFacts DEF TaskKnown, TypesAt, At
<1> QED
  BY <1>1, <1>2, <1>3 DEF PeriodWritten, At

\* On to record a payment only from an insertion or from set_period.
LEMMA PayReached ==
  ASSUME IInv, CheckoutFirst, [Next]_vars, NEW w \in Workers,
         handler'[w].pc \in {"pay", "notify"}, handler'[w].task.type = "paid"
  PROVE  \/ handler[w].pc \in {"pay", "notify"} /\ handler'[w].task = handler[w].task
         \/ SetPeriod(w) /\ handler'[w].task = handler[w].task
<1>1. CASE handler'[w] = handler[w]
  BY <1>1
<1>2. CASE Step(w)
  <2>1. handler'[w].task = handler[w].task /\ handler'[w] # Idle
    BY <1>2, StepMoves DEF Idle
  <2>2. ~At(w, "insert") /\ ~At(w, "cancel_now") /\ ~At(w, "past_due")
    BY <2>1, HandlerFacts DEF CheckoutFirst, At, TaskKnown, TypesAt
  <2>3. \/ handler[w].pc \in {"pay", "notify"} \/ SetPeriod(w)
        \/ handler[w].pc \in AfterDrop \cup {"drop_old", "load_period", "modify", "user_cancel"}
    BY <1>2, <2>2 DEF Step, DropOld, LoadOld, CancelOld, Find, LoadAccess, Insert, LoadPeriod,
       Pay, CancelNow, SetPastDue, Notify, CancelRemote, UserCancelCommit, At, AfterDrop
  <2>4. handler[w].pc \notin AfterDrop \cup {"drop_old", "modify", "user_cancel"}
    BY <2>1, <2>2, HandlerFacts DEF CheckoutFirst, TaskKnown, TypesAt, AfterDrop, At
  <2>5. handler[w].pc # "load_period"
    BY <1>2, <2>1, LoadPeriodMoves DEF At
  <2> QED
    BY <2>1, <2>3, <2>4, <2>5
<1>3. ASSUME NEW s \in Subs, Deliver(w, s) PROVE handler'[w] = handler[w]
  BY <1>3, DeliverMoves
<1>4. ASSUME NEW s \in Subs PROVE ~UserCancel(w, s)
  BY UserCancelMoves
<1> QED
  BY <1>1, <1>2, <1>3, <1>4, HandlerMoves DEF Idle

LEMMA PeriodsWrittenNext ==
  IInv /\ PInv /\ CheckoutFirst /\ PeriodsCurrent /\ [Next]_vars => PeriodsWritten'
<1> SUFFICES ASSUME IInv, PInv, CheckoutFirst, PeriodsCurrent, [Next]_vars,
                    NEW s \in Subs, NEW i \in InvoiceNo,
                    PeriodWritten(s, i)', remote'[s].state = "active"
             PROVE  rows'[s].end >= PeriodEnd(s, i)'
  BY DEF PeriodsWritten, PeriodApplied
<1>a. Paid(s, i).type = "paid" /\ Paid(s, i).sub = s /\ Paid(s, i) # NoTask
  BY DEF Paid, Event, NoTask
<1>b. ASSUME Paid(s, i) \in sent
      PROVE  /\ Started(s) /\ remote[s].state = "active" /\ i <= remote[s].invoices
             /\ PeriodEnd(s, i)' = PeriodEnd(s, i) /\ PeriodEnd(s, i) \in Int
             /\ PeriodEnd(s, i) <= remote[s].end
             /\ remote[s].end \in Nat
  <2>1. Started(s) /\ i <= remote[s].invoices
    BY <1>a, <1>b DEF IInv, EventsOfStarted, PInv, InvoicesKnown
  <2>2. remote[s].state = "active"
    BY <2>1, StripeAdvancesNext DEF StripeAdvances, Started
  <2> QED
    BY <2>1, <2>2, PeriodEndStep DEF IInv, TypeOK, StripeTypeOK
<1>1. CASE PeriodWritten(s, i)
  <2>1. Paid(s, i) \in sent /\ rows[s] \in Rows
    <3>1. CASE Paid(s, i) \in acked
      BY <1>a, <3>1 DEF IInv, AckMeansRecorded, Recorded, TypeOK
    <3>2. ASSUME NEW w \in Workers, handler[w].pc \in {"pay", "notify"},
                 handler[w].task = Paid(s, i)
          PROVE  Paid(s, i) \in sent /\ rows[s] \in Rows
      BY <1>a, <3>2, HandlerFacts DEF RowsLoaded
    <3> QED
      BY <1>1, <3>1, <3>2 DEF PeriodWritten
  <2>2. rows[s].end >= PeriodEnd(s, i)
    BY <1>1, <1>b, <2>1 DEF PInv, PeriodsWritten, PeriodApplied
  <2>3. /\ rows[s].end \in Nat /\ rows'[s].end \in Nat
        /\ rows'[s].end = rows[s].end \/ rows'[s].end >= remote[s].end
    BY <1>b, <2>1, EndsKept DEF PInv
  <2> QED
    BY <1>b, <2>1, <2>2, <2>3
<1>2. CASE ~PeriodWritten(s, i)
  <2>1. Paid(s, i) \notin acked'
    BY <1>2, PaidAnswered DEF PeriodWritten
  <2>2. PICK w \in Workers : handler'[w].pc \in {"pay", "notify"} /\ handler'[w].task = Paid(s, i)
    BY <2>1 DEF PeriodWritten
  <2>3. SetPeriod(w) /\ handler[w].task = Paid(s, i)
    BY <1>2, <1>a, <2>2, PayReached DEF PeriodWritten
  <2>4. /\ At(w, "set_period") /\ Paid(s, i) \in sent /\ rows[s] \in Rows
        /\ handler[w].loaded \in Rows
        /\ rows'[s] = WithPeriod(rows[s], handler[w].loaded, handler[w].period)
        /\ handler[w].period = remote[s].end
    BY <1>a, <2>3, HandlerFacts DEF SetPeriod, At, RowsLoaded, IInv, TypeOK, PeriodsCurrent
  <2>5. rows'[s].end >= remote[s].end
    <3>1. CASE handler[w].loaded.end = handler[w].period
      <4>1. rows[s].end >= handler[w].period
        BY <1>a, <1>b, <2>3, <2>4, <3>1 DEF PInv, PeriodsLoaded
      <4>2. rows'[s].end = rows[s].end
        BY <2>4, <3>1 DEF WithPeriod, Flush
      <4> QED
        BY <2>4, <4>1, <4>2
    <3>2. CASE handler[w].loaded.end # handler[w].period
      <4>1. rows'[s].end = handler[w].period
        BY <2>4, <3>2 DEF WithPeriod, Flush
      <4> QED
        BY <1>b, <2>4, <4>1
    <3> QED
      BY <3>1, <3>2
  <2>6. rows'[s].end \in Nat
    BY <1>b, <2>4, EndsKept DEF PInv
  <2> QED
    BY <1>b, <2>4, <2>5, <2>6
<1> QED
  BY <1>1, <1>2

\* Once the event of a paid invoice is answered 200, the row of a subscription
\* that lives reaches the end of the period the invoice pays for, provided that
\* no paid event is handled before its checkout and no subscription is renewed
\* under a handler's hands.  Redelivery, concurrency, crashes, cancellations,
\* failed payments and other subscriptions lose no period.
THEOREM PaidPeriodApplied ==
  Spec /\ []CheckoutFirst /\ []PeriodsCurrent => []AckMeansApplied
<1>1. Init => PInv
  BY DEF Init, StripeInit, PInv, InvoicesKnown, PeriodsWritten, PeriodWritten, PeriodsLoaded,
     At, Idle
<1>2. IInv /\ PInv /\ CheckoutFirst /\ PeriodsCurrent /\ [Next]_vars => PInv'
  BY InvoicesNext, PeriodsWrittenNext, PeriodsLoadedNext DEF PInv
<1>3. IInv /\ PInv => AckMeansApplied
  <2> SUFFICES ASSUME IInv, PInv, NEW e \in acked, e.type = "paid"
               PROVE  PeriodApplied(e.sub, e.inv)
    BY DEF AckMeansApplied, Applied, IInv, AckMeansRecorded
  <2>1. e \in Events
    BY DEF IInv, TypeOK
  <2>2. e.sub \in Subs /\ e.inv \in InvoiceNo /\ e = Paid(e.sub, e.inv)
    BY <2>1 DEF Events, Paid, Event
  <2> QED
    BY <2>2 DEF PInv, PeriodsWritten, PeriodWritten
<1> QED
  BY <1>1, <1>2, <1>3, Invariant, PTL DEF Spec

-----------------------------------------------------------------------------
(* An upgrade that lost its handler.                                       *)

\* The checkout of an upgrade whose old subscription is gone at Stripe, while no
\* handler is past deleting it: the handler that did so died, or somebody else
\* deleted it first.
Abandoned(s) ==
  /\ Started(s)
  /\ upgradeFrom[s] # NoSub
  /\ remote[upgradeFrom[s]].state = "deleted"
  /\ Checkout(s) \notin acked
  /\ \A w \in Workers : handler[w].task = Checkout(s) => handler[w].pc \notin AfterDrop

\* Only handlers in the middle of a checkout answer it.
LEMMA CheckoutAnswered ==
  ASSUME IInv, [Next]_vars, NEW s \in Subs, Checkout(s) \in acked', Checkout(s) \notin acked
  PROVE  \E w \in Workers : handler[w].task = Checkout(s) /\ handler[w].pc \in {"find", "insert"}
<1>1. Checkout(s).type = "checkout"
  BY DEF Checkout, Event
<1>2. PICK w \in Workers : /\ handler[w].task = Checkout(s)
                          /\ handler[w].pc \in {"find", "insert", "notify"}
  BY <1>1, Answered
<1>3. handler[w].pc # "notify"
  BY <1>1, <1>2, HandlerFacts DEF TaskKnown, TypesAt
<1> QED
  BY <1>2, <1>3

\* A handler takes an event or a request only when it has none.
LEMMA OnlyIdleAccept ==
  ASSUME NEW w \in Workers, NEW s \in Subs, Deliver(w, s) \/ UserCancel(w, s)
  PROVE  At(w, "idle")
BY DEF Deliver, UserSubscribe, SubscriptionDeleted, PaymentSucceeded, PaymentFailed, Accept,
   UserCancel

LEMMA StaysAbandoned ==
  ASSUME IInv, [Next]_vars, NEW s \in Subs, Abandoned(s)
  PROVE  Abandoned(s)'
<1>a. PICK old \in Subs : old = upgradeFrom[s]
  BY DEF Abandoned, IInv, TypeOK, StripeTypeOK
<1>1. Started(s)' /\ upgradeFrom'[s] = old /\ remote'[old].state = "deleted"
  BY <1>a, StripeAdvancesNext DEF StripeAdvances, Abandoned
<1>2. Checkout(s) \notin acked'
  BY CheckoutAnswered DEF Abandoned, AfterDrop
<1>3. ASSUME NEW w \in Workers, handler'[w].task = Checkout(s), handler'[w].pc \in AfterDrop
      PROVE  FALSE
  <2>1. w \in Replacing(old)'
    BY <1>1, <1>3, EventTypes DEF Replacing, Checkout, Event
  <2>2. ~DeleteRemote(old)
    BY <1>a DEF DeleteRemote, Abandoned
  <2>3. w \in Replacing(old)
    BY <2>1, <2>2, <1>a, ReplacingStep
  <2>4. handler[w].pc \in AfterDrop
    BY <2>3 DEF Replacing
  <2>5. ASSUME NEW t \in Subs PROVE ~Deliver(w, t) /\ ~UserCancel(w, t)
    BY <2>4, OnlyIdleAccept DEF AfterDrop, At
  <2>6. handler'[w].task = handler[w].task
    BY <2>5, <1>3, HandlerMoves, StepMoves DEF AfterDrop, Idle
  <2> QED
    BY <2>4, <2>6, <1>3 DEF Abandoned
<1> QED
  BY <1>a, <1>1, <1>2, <1>3, StripeAssumption DEF Abandoned

\* An abandoned upgrade is abandoned for good: Stripe refuses to delete the old
\* subscription again (stripe_gateway.py:219), every redelivery of the checkout
\* fails there, and it is never answered 200.
THEOREM AbandonedForGood ==
  ASSUME NEW s \in Subs
  PROVE  Spec => [](Abandoned(s) => [](Abandoned(s) /\ Checkout(s) \notin acked))
<1>1. IInv /\ Abandoned(s) /\ [Next]_vars => Abandoned(s)'
  BY StaysAbandoned
<1>2. Abandoned(s) => Checkout(s) \notin acked
  BY DEF Abandoned
<1> QED
  BY <1>1, <1>2, Invariant, PTL DEF Spec

-----------------------------------------------------------------------------
(* Webhooks without a bearer token.                                        *)

NothingHappens ==
  /\ acked = {}
  /\ payments = {}
  /\ rows = [s \in Subs |-> Absent]
  /\ handler = [w \in Workers |-> Idle]

LEMMA NothingNext ==
  ASSUME ~DeliveriesAuthenticated, NothingHappens, [Next]_vars
  PROVE  NothingHappens'
<1> USE DEF NothingHappens
<1>1. ASSUME NEW w \in Workers PROVE ~Step(w)
  BY DEF Step, DropOld, LoadOld, CancelOld, Find, LoadAccess, Insert, LoadPeriod, SetPeriod,
     Pay, CancelNow, SetPastDue, Notify, CancelRemote, UserCancelCommit, At, Idle
<1>2. ASSUME NEW w \in Workers, NEW s \in Subs PROVE ~Deliver(w, s)
  BY DEF Deliver, UserSubscribe, SubscriptionDeleted, PaymentSucceeded, PaymentFailed, Accept,
     Absent
<1>3. ASSUME NEW w \in Workers, NEW s \in Subs PROVE ~UserCancel(w, s)
  BY DEF UserCancel, WithAccess, Access, GrantsAccess, Absent
<1>4. ASSUME NEW w \in Workers PROVE ~Crash(w)
  BY DEF Crash, At, Idle
<1> QED
  BY <1>1, <1>2, <1>3, <1>4 DEF Next, StripeStep, UserStep, Subscribe, Upgrade,
     ExpireSubscriptions

\* The webhook route asks for a bearer token (billing/dependencies.py:49).  With
\* a sender that has none, as Stripe, no event is ever answered 200 and none has
\* any effect: no payment, no subscription, no access.
THEOREM UnauthenticatedWebhooks ==
  ~DeliveriesAuthenticated => (Spec => [](NothingHappens /\ \A s \in Subs : ~Access(s)))
<1> SUFFICES ASSUME ~DeliveriesAuthenticated
             PROVE  Spec => [](NothingHappens /\ \A s \in Subs : ~Access(s))
  OBVIOUS
<1>1. Init => NothingHappens
  BY DEF Init, NothingHappens
<1>2. NothingHappens /\ [Next]_vars => NothingHappens'
  BY NothingNext
<1>3. NothingHappens => \A s \in Subs : ~Access(s)
  BY DEF NothingHappens, Access, GrantsAccess, Absent
<1> QED
  BY <1>1, <1>2, <1>3, PTL DEF Spec
=============================================================================
