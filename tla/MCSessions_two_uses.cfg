\* Two logins with one code.
CONSTANTS
  NoUser = NoUser
  NoToken = NoToken
  Users = {u1}
  Jtis = {t1, t2}
  Workers = {w1, w2}
  MaxCodes = 1
  MaxCrashes = 0
SYMMETRY Symmetry
SPECIFICATION Spec
INVARIANTS CodeUsedOnce
