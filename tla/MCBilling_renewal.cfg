\* One subscription through two periods: payment failures, renewals,
\* cancellation, deletion, redelivered and concurrent events, one crash.
CONSTANTS
  u1 = u1  p1 = p1  p2 = p2  s1 = s1  s2 = s2  w1 = w1  w2 = w2
  NoSub = NoSub
  Users = {u1}
  Plans = {p1}
  Subs = {s1}
  Owner <- OneOwner
  PlanOf <- OnePlan
  Period = 1
  MaxTime = 1
  MaxInvoices = 2
  Workers = {w1, w2}
  Customers = {u1}
  DeliveriesAuthenticated = TRUE
  MaxFailures = 1
  MaxCrashes = 1
SYMMETRY WorkerSymmetry
SPECIFICATION Spec
INVARIANTS TypeOK ReceiptAtMostOnce AckMeansRecorded AccessBacked
PROPERTIES ImplementsLedger RevocationHasCause GrantHasCause
