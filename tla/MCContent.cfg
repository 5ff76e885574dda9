\* One post, three comments, two reports; two calls in flight
SPECIFICATION ContentSpec
CONSTANTS
  None = None
  Requests = {r1, r2}
  Users = {creator, u1}
  Creator = creator
  MaxComments = 3
  PostIds = {p1}
  Fans = {f1}
  Reporters = {u1}
  MaxReports = 2
  Admins = {a1, a2}
SYMMETRY Symmetry
INVARIANTS
  ContentTypeOK
  OneLevel
  ShownToEntitled
  AuditFollows
PROPERTIES
  TombstonesUndone
  ChangesAsAsked
  OneOpenReport
CHECK_DEADLOCK FALSE
