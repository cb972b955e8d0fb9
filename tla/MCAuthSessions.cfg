SPECIFICATION Spec
CONSTANTS
  Users = {u1}
  Owners = {u1}
  Clients = {c1, c2}
  MaxRequests = 4
  NoCode = NoCode
  NoRequest = NoRequest
INVARIANTS
  RotatedOnce
  SessionsFollowPassword
SYMMETRY Symmetry
CHECK_DEADLOCK FALSE
