SPECIFICATION Spec
CONSTANTS
  Academies = {a1, a2}
  Members = {m1}
  Clients = {c1, c2}
  Limits = {0, 1}
  CreditLimits = {l1, l2}
  MaxRequests = 3
  NoRow = NoRow
  NoRequest = NoRequest
INVARIANTS
  TypeOK
  WithinLimit
  LimitHistoryChains
PROPERTIES
  ReentryNeedsRequest
SYMMETRY Symmetry
CHECK_DEADLOCK FALSE
