SPECIFICATION Spec
CONSTANTS
  Project = {p1, p2}
  None = none
  Thread = {t1, t2}
  MaxEntries = 4
  QueueMax = 1
  Limit = 2
  Cap = 2
  MaxViews = 2
  MaxFaults = 1
INVARIANTS TypeOK PageSound NothingMissed
SYMMETRY Symmetry
CHECK_DEADLOCK FALSE
