CONSTANTS
  Users = {u1, u2}
  Clients = {c1, c2}
  Amounts = {1}
  MaxRequests = 3
  NoClient = NoClient
  NoRequest = NoRequest
SPECIFICATION Spec
INVARIANTS
  TypeOK
  BalanceNeverNegative
  LedgerShowsBalance
  PaymentsAreBacked
PROPERTIES
  DriftNeedsStaleCommit
  PostsWholly
  EveryRequestEnds
CHECK_DEADLOCK FALSE
