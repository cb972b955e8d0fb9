SPECIFICATION Spec
CONSTANTS
  Classes = {x1, x2}
  Teachers = {t1}
  Clients = {k1, k2}
  Starts = {s1, s2}
  Costs = {2}
  ClassCost = 1
  Credits = {1, 2}
  Statuses = {"UPCOMING", "ENDED", "CANCELLED"}
  MaxRequests = 3
  NoRow = NoRow
  NoMeeting = NoMeeting
  NoRequest = NoRequest
INVARIANTS
  TypeOK
  MeetingsMatchRows
  CostIsCharged
  SerialUpdatesAgree
PROPERTIES
  LivesOnce
  MeetingsAreReleased
CHECK_DEADLOCK FALSE
