\* Two overlapping calls, three messages, two ticks per millisecond; two fans,
\* three calls on one idempotency key, one restart
SPECIFICATION PairSpec
CONSTANTS
  Fan = fan
  Creator = creator
  ClientIds = {c1}
  Requests = {r1, r2}
  None = None
  PerMs = 2
  MaxMessages = 3
  MaxFailures = 1
  Keys = {k1}
  Fans = {f1, f2}
  TipRequests = {r1, r2, r3}
  MaxCrashes = 1
  Amounts <- SmallAmounts
  Fees <- EdgeFees
SYMMETRY Symmetry
INVARIANTS
  PairTypeOK
  SentOnce
  SummaryFollows
  NoHoles
  AuditTrue
  FeeSplits
PROPERTIES
  OutcomesImplemented
CHECK_DEADLOCK FALSE
