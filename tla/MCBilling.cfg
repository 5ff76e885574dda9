SPECIFICATION Spec
CONSTANTS
  e1 = e1
  e2 = e2
  e3 = e3
  e4 = e4
  xA = xA
  xB = xB
  xG = xG
  pair = pair
  ghost = ghost
  None = None
  Pairs = {pair}
  Accounts = {pair}
  Fans = {f1}
  Events = {e1, e2, e3, e4}
  Exts = {xA, xB}
  Payload <- Lifecycle
  PairOf <- PairOfExt
  Deliveries = {w1, w2}
  PoolSize = 2
  MaxAttempts = 1
  MaxCrashes = 1
SYMMETRY Symmetry
INVARIANTS
  ColumnsAgree
  MappedHasRow
PROPERTIES
  EventsAppliedOnce
CHECK_DEADLOCK FALSE
