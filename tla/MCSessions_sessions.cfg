\* Logins, refreshes and login codes of one user, two requests at once, one killed.
CONSTANTS
  NoUser = NoUser
  NoToken = NoToken
  Users = {u1}
  Jtis = {t1, t2, t3}
  Workers = {w1, w2}
  MaxCodes = 2
  MaxCrashes = 1
SYMMETRY Symmetry
SPECIFICATION Spec
INVARIANTS TypeOK LoginEndsSessions OldTokenDead SessionKept
PROPERTIES SpentCodeNotTaken ImplementsLines
