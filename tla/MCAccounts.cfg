SPECIFICATION Spec
CONSTANTS
  Emails = {e1, boot}
  BootEmail = boot
  Clients = {c1, c2}
  InitialCredits = 1
  MaxRequests = 4
  NoRow = NoRow
  NoRequest = NoRequest
INVARIANTS
  OwnersAreProvisioned
  OneSuperAdmin
CHECK_DEADLOCK FALSE
