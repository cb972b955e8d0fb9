SPECIFICATION RecSpec
CONSTANTS
  Meetings = {x1}
  People = {p1, p2}
  Guests = {p2}
  Callers = {c1, c2}
  MaxTasks = 2
  MaxEntries = 2
  MaxTokens = 3
  MaxDeliveries = 2
INVARIANTS
  AttendanceIsAReport
  AnsweredIsRecorded
  RefusalsAreUnlucky
SYMMETRY Symmetry
CHECK_DEADLOCK FALSE
