SPECIFICATION FairSpec
CONSTANTS
  Request = {r1, r2, r3}
  MaxConcurrent = 2
  MaxAttempts = 2
  MaxFaults = 1
INVARIANTS
  TypeOK
  NeverOverstated
  ExactCounterAdmits
PROPERTIES
  LeaksLapse
