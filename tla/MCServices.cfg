\* Two calls in flight; limit 2 in a window of 2 ticks; three uploads, one URL of another user's file; two mails;
\* three rows, one to a page, two ticks to a millisecond
SPECIFICATION Spec
CONSTANTS
  Requests = {r1, r2}
  None = None
  maxRequests = 2
  windowTicks = 2
  MaxTime = 3
  MaxRestarts = 1
  Elsewhere = {theirs}
  MaxUploads = 3
  MaxMails = 2
  limit = 1
  MaxRows = 3
  PerMs = 2
  MaxDate = 3
INVARIANTS
  TypeOK
  LimitHolds
  FilesFollowAvatar
  OutboxHonest
  PagesExact
  SchemaFollowsApplied
PROPERTIES
  ChoiceKept
  CallsEnd
CHECK_DEADLOCK FALSE
