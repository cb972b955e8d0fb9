CONSTANTS
  e1 = e1
  e2 = e2
  e3 = e3
  Events <- MCEvents
  Kind <- MCKind
  WithCoupon <- MCWithCoupon
  Workers = {w1, w2}
  NoEvent = NoEvent
  MaxDeliveries = 2
SPECIFICATION Spec
INVARIANTS
  AtMostOnce
  ProcessedIsComplete
  LossHasACause
PROPERTIES
  EventuallyApplied
  FulfilsInTurn
CHECK_DEADLOCK FALSE
