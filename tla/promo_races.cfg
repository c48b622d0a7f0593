SPECIFICATION Spec
CONSTANTS
  User = {"u1", "u2"}
  Code = {"c1", "c2"}
  Request <- Crowd
  Asks <- AsksOf
  Creation <- TwoAdmins
  Creates <- CreatesOf
  MaxActivations = 2
  Bonus = 1
INVARIANTS
  TypeOK
  CountUnderstates
  NothingMinted
  GrantedOnce
  CreatedOnce
