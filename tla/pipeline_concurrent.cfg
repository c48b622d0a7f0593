SPECIFICATION Spec
CONSTANTS
  User = {u1}
  Worker = {w1}
  Request = {r1, r2}
  NoTask = NoTask
  Owner <- OneUser
  Price = 1
  BatchSize = {2}
  TopUp = {1}
  Grant = {1}
  InitPaid = 2
  InitBonus = 1
  MaxFaults = 0
SYMMETRY Symmetry
INVARIANTS
  TypeOK
  WalletNonNegative
  RefundExact
  BackedByReserve
  TagSound
  NewestReserveTagged
PROPERTIES
  Audited
  KeepsContract
