SPECIFICATION Spec
CONSTANTS
  User = {u1}
  Worker = {w1}
  Request = {r1}
  NoTask = NoTask
  Owner <- OneUser
  Price = 1
  BatchSize = {}
  TopUp = {}
  Grant = {}
  InitPaid = 1
  InitBonus = 1
  MaxFaults = 0
INVARIANTS
  RefundOnce
