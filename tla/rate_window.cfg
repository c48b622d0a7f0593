SPECIFICATION Spec
CONSTANTS
  Request = {1, 2, 3, 4}
  Window = 3
  Limit = 2
  Suffix <- PartlyEqual
  MaxDelay = 2
  MaxTime = 6
INVARIANTS
  TypeOK
  RecentBounded
PROPERTIES
  RefusalJustified
CHECK_DEADLOCK FALSE
