SPECIFICATION FirstFairSpec
CONSTANTS
  Sockets = {s1, s2, s3}
  First = {s1, s2, s3}
  MaxTime = 3
  Interval = 1
  MaxWork = 4
INVARIANTS LocationsExact NoneStranded
PROPERTIES WorkIsSent ClosedLeaves
CHECK_DEADLOCK FALSE
