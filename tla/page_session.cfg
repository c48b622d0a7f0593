SPECIFICATION FairSpec
CONSTANTS
  Task = {t1, t2}
  Charge = {1}
  NoTask = NoTask
  Polls = 2
  MaxClicks = 2
  MaxRefunds = 1
INVARIANTS
  TypeOK
  ClicksPayOnce
  EachAccountedOnce
PROPERTIES
  RunEnds
