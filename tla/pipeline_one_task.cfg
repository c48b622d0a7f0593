SPECIFICATION FairSpec
CONSTANTS
  User = {u1}
  Worker = {w1, w2}
  Request = {r1}
  NoTask = NoTask
  Owner <- OneUser
  Price = 1
  BatchSize = {2}
  TopUp = {}
  Grant = {}
  InitPaid = 2
  InitBonus = 1
  MaxFaults = 1
INVARIANTS
  NoOrphanMessage
  ErrorMeansRefund
  RefundsBounded
  LedgerMatchesBalance
PROPERTIES
  KeepsContract
  ProcessingSettles
  AcceptedSettles
