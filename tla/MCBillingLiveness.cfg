SPECIFICATION FairSpec
CONSTANTS
  e1 = e1
  e2 = e2
  e3 = e3
  e4 = e4
  xA = xA
  xB = xB
  xG = xG
  pair = pair
  ghost = ghost
  None = None
  Pairs = {pair, ghost}
  Accounts = {pair}
  Fans = {f1}
  Events = {e1, e2, e3, e4}
  Exts = {xA, xG}
  Payload <- Rejected
  PairOf <- PairOfExt
  Deliveries = {w1, w2}
  PoolSize = 2
  MaxAttempts = 1
  MaxCrashes = 0
INVARIANTS
  TypeOK
  PoolAccounted
  SomeoneGoesOn
PROPERTIES
  DeliveriesEnd
CHECK_DEADLOCK FALSE
