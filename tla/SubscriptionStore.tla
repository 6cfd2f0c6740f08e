-------------------------- MODULE SubscriptionStore --------------------------
(***************************************************************************)
(* Rows of the subscriptions table and what the statements of              *)
(* SubscriptionRepoistory (src/src/billing/repository.py) do to them.      *)
(*                                                                         *)
(* A row keeps the two columns access depends on.  started_at, canceled_at *)
(* and the identifiers are left out: no branch of the code reads them.     *)
(*                                                                         *)
(* The repository loads an object, assigns attributes and commits.  The    *)
(* ORM session then writes only the columns whose value differs from the   *)
(* loaded one, so a commit may leave a column another request has changed  *)
(* in between: Flush takes the stored row and the loaded copy.             *)
(***************************************************************************)
EXTENDS Integers

Statuses == {"ACTIVE", "CANCELED", "PAST_DUE"}

\* scalar_one_or_none() is None: no such row
Absent == [status |-> "NONE", end |-> 0]

Rows == [status : Statuses, end : Nat]

\* The WHERE clause of get_subscription_with_access
GrantsAccess(row, time) ==
  /\ row.end > time
  /\ row.status \in {"ACTIVE", "CANCELED"}

\* UPDATE of the columns whose assigned value differs from the loaded one
Flush(stored, loaded, assigned) ==
  [status |-> IF assigned.status = loaded.status THEN stored.status
                                                 ELSE assigned.status,
   end    |-> IF assigned.end = loaded.end THEN stored.end ELSE assigned.end]

\* Mutant: the period is granted with a tick of grace
WithPeriodGrace(stored, loaded, end) ==
  Flush(stored, loaded, [status |-> "ACTIVE", end |-> end + 1])

\* update_subscription_period
WithPeriod(stored, loaded, end) ==
  Flush(stored, loaded, [status |-> "ACTIVE", end |-> end])

\* cancel_subscription with the period end the row was loaded with
Canceled(stored, loaded) ==
  Flush(stored, loaded, [loaded EXCEPT !.status = "CANCELED"])

\* cancel_subscription with current_period_end = datetime.now(): the clock has
\* moved since any stored value, so the column is always written
CanceledNow(stored, loaded, time) ==
  [Canceled(stored, loaded) EXCEPT !.end = time]

\* update_sub_status(PAST_DUE)
PastDue(stored, loaded) ==
  Flush(stored, loaded, [loaded EXCEPT !.status = "PAST_DUE"])

\* The row create_subscription inserts: its period is empty
NewRow(status, time) == [status |-> status, end |-> time]
=============================================================================
