\* Two checkout sessions opened before either completes.
CONSTANTS
  u1 = u1  p1 = p1  p2 = p2  s1 = s1  s2 = s2  w1 = w1  w2 = w2
  NoSub = NoSub
  Users = {u1}
  Plans = {p1, p2}
  Subs = {s1, s2}
  Owner <- SameOwner
  PlanOf <- TwoPlans
  Period = 1
  MaxTime = 0
  MaxInvoices = 1
  Workers = {w1, w2}
  Customers = {u1}
  DeliveriesAuthenticated = TRUE
  MaxFailures = 0
  MaxCrashes = 0
SPECIFICATION Spec
INVARIANTS NoDuplicateAccess
