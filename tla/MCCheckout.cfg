SPECIFICATION Spec
CONSTANTS
  Users = {u1}
  Packages = {pack}
  Plans = {plan}
  Coupons = {k1}
  Clients = {c1, c2}
  MaxRequests = 3
  MaxSessions = 2
  None = None
INVARIANTS
  SessionsUseTheRow
  UsesAreEarned
  PromotionsFollowCoupons
  RefundsAgree
SYMMETRY Symmetry
CHECK_DEADLOCK FALSE
