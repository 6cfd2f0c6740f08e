\* A paid event answered 200 whose period no row has.
CONSTANTS
  u1 = u1  p1 = p1  p2 = p2  s1 = s1  s2 = s2  w1 = w1  w2 = w2
  NoSub = NoSub
  Users = {u1}
  Plans = {p1}
  Subs = {s1}
  Owner <- OneOwner
  PlanOf <- OnePlan
  Period = 1
  MaxTime = 0
  MaxInvoices = 1
  Workers = {w1, w2}
  Customers = {u1}
  DeliveriesAuthenticated = TRUE
  MaxFailures = 0
  MaxCrashes = 0
SPECIFICATION Spec
INVARIANTS AckMeansApplied
