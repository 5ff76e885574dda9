\* A rotation overtaken by reuse detection
SPECIFICATION Spec
CONSTANTS
  Tokens = {t1, t2, t3}
  Users = {u1}
  Requests = {r1, r2}
  MaxFailures = 0
  MaxExpired = 0
  None = None
SYMMETRY Symmetry
INVARIANTS
  ReuseRevokesEntireFamily
CHECK_DEADLOCK FALSE
