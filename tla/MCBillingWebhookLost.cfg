CONSTANTS
  e1 = e1
  e2 = e2
  e3 = e3
  Events <- MCEvents
  Kind <- MCKind
  WithCoupon <- MCWithCoupon
  Workers = {w1, w2}
  NoEvent = NoEvent
  MaxDeliveries = 2
SPECIFICATION Spec
INVARIANTS
  AcknowledgedIsApplied
CHECK_DEADLOCK FALSE
