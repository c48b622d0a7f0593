SPECIFICATION Spec
CONSTANTS
  User = {"u1", "u2"}
  Code = {"c1", "c2"}
  Request <- Rivals
  Asks <- AsksOf
  Creation <- OneAdmin
  Creates <- CreatesOf
  MaxActivations = 1
  Bonus = 1
INVARIANTS
  LimitKept
