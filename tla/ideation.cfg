SPECIFICATION Spec
CONSTANTS
  Idea = {i1, i2}
  Published = {i2}
  ProjectId = {1, 2}
  Operator = {o1}
  MaxRounds = 2
  MinScore = 1
  MaxScore = 1
  RejectedCap = 0
  MaxTriggers = 2
  MaxFaults = 1
INVARIANTS TypeOK NeverRepitched Explained
PROPERTIES OneAtATime LockPassesOn
CHECK_DEADLOCK FALSE
