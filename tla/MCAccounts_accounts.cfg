\* Two requests of any kind at once, on an administrator, a user and an address
\* without an account; one code of the provider, whose answers may be lost.
CONSTANTS
  adm = adm
  usr = usr
  new = new
  n1 = n1
  n2 = n2
  n3 = n3
  p1 = p1
  Emails = {adm, usr, new}
  Names = {n1, n2, n3}
  Passwords = {p1, p2}
  NoPassword = NoPassword
  First <- MCFirst
  Codes = {k1}
  NoCode = NoCode
  Owner <- MCOwner
  Requests = {r1, r2}
  NoUser = NoUser
SPECIFICATION FairSpec
INVARIANTS TypeOK RoleExplained VerifiedExplained CodeLetsInOnce
PROPERTIES ImplementsAccountRules Settles
CHECK_DEADLOCK FALSE
