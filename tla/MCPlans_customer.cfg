\* Two checkouts of a user without a stripe_customer_id.
CONSTANTS
  Codes = {c1}
  Names = {n1}
  Amounts = {1}
  Currencies = {usd}
  Periods = {"monthly"}
  StripeIntervals = {"month", "monthly"}
  MaxPrices = 1
  Admins = {a1}
  Shoppers = {s1, s2}
  Users = {u1}
  Customers = {}
  MaxCustomers = 2
SPECIFICATION Spec
INVARIANTS CustomerEnsured
