\* A plan created, repriced, deleted and brought back while a customer checks
\* out; one admin request at a time, any of which may fail between two steps.
CONSTANTS
  Codes = {c1}
  Names = {n1}
  Amounts = {1, 2}
  Currencies = {usd}
  Periods = {"monthly"}
  StripeIntervals = {"month", "monthly"}
  MaxPrices = 3
  Admins = {a1}
  Shoppers = {s1}
  Users = {u1, u2}
  Customers = {u1}
  MaxCustomers = 1
SPECIFICATION Spec
INVARIANTS TypeOK PriceAsListed
PROPERTIES NoSaleAfterDelete ImplementsPriceList
