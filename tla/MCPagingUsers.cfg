\* Three users, one to a page
SPECIFICATION Spec
CONSTANTS
  None = None
  limit = 1
  MaxRows = 3
  PerMs = 2
  MaxDate = 3
INVARIANT UsersComplete
CHECK_DEADLOCK FALSE
