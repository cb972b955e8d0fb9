SPECIFICATION SubSpec
CONSTANTS
  Subs = {s1}
  Clients = {c1, c2}
  MaxEvents = 5
  MaxCancels = 1
  NoRow = NoRow
  NoRequest = NoRequest
INVARIANTS
  RowFollowsStripe
  InvoicesAreRecorded
SYMMETRY Symmetry
CHECK_DEADLOCK FALSE
