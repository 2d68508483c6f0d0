SPECIFICATION Spec
CONSTANTS
  MilestoneId = {1, 2, 3, 4, 5, 6}
  Project = {1}
  Worker = {w1}
  Operator = {}
  RequireApproval = FALSE
  RetryLimit = 2
  ConsolidationEvery = 1
  MaxProjectMilestones = 3
  CostCap = FALSE
  DailyCap = FALSE
  MaxTransientFails = 1
  MaxPlan = 2
  MaxChildren = 2
  CrewNotes = {{}, {"consol"}}
  MaxFaults = 1
INVARIANTS OrdinalsContiguous BuildsInOrder ConsolidationsSpaced GraphBounded
PROPERTY Settles
CHECK_DEADLOCK FALSE
