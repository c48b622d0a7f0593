SPECIFICATION Spec
CONSTANTS
  Task = {t1, t2}
  Charge = {1, 2}
  MaxRefunds = 2
INVARIANTS
  TypeOK
  SpentCoversTotal
  OffByMoves
