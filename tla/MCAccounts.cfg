\* One account, two passwords chosen, one reset token; three users, two of
\* them admins; two sign-ups for two e-mails and two names, one of them
\* unreadable; two calls in flight.  The admins of one service and the e-mails
\* of another are the same values, so that one symmetry serves both.
SPECIFICATION AccountsSpec
CONSTANTS
  None = None
  Tokens = {t1}
  Requests = {r1, r2}
  MaxPasswords = 2
  Users = {a, b, f}
  Admins = {a, b}
  Handles = {h1}
  Emails = {a, b}
  Names = {n1, n2}
  Unreadable = {n2}
  MaxUsers = 2
SYMMETRY Symmetry
INVARIANTS
  AccountsTypeOK
  SessionsFollowPassword
  TokenUsedOnce
  AdminRemains
  AccountsWhole
PROPERTIES
  RolesAreGiven
CHECK_DEADLOCK FALSE
