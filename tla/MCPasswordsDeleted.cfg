SPECIFICATION Spec
CONSTANTS
  None = None
  Tokens = {t1}
  Requests = {r1}
  MaxPasswords = 0
INVARIANTS
  DeletedCannotAuthenticate
CHECK_DEADLOCK FALSE
