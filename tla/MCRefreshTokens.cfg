\* Two users, three tokens between them, two calls in flight, one failure
SPECIFICATION Spec
CONSTANTS
  Tokens = {t1, t2, t3}
  Users = {u1, u2}
  Requests = {r1, r2}
  MaxFailures = 1
  MaxExpired = 1
  None = None
SYMMETRY Symmetry
INVARIANTS
  TypeOK
  ParentRetired
  ClosedButForOvertaken
  SessionKept
PROPERTIES
  SessionsImplemented
CHECK_DEADLOCK FALSE
