SPECIFICATION FirstSpec
CONSTANTS
  Sockets = {1, 2, 3, 4, 5, 6}
  First = {1, 2, 3, 4, 5, 6}
  MaxTime = 4
  Interval = 2
  MaxWork = 6
INVARIANT FirstIsEarliest
CHECK_DEADLOCK FALSE
