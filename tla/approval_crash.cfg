SPECIFICATION Safety
CONSTANTS
  MilestoneId = {1, 2, 3, 4}
  Project = {1}
  Worker = {w1}
  Operator = {o1}
  RequireApproval = TRUE
  RetryLimit = 2
  ConsolidationEvery = 0
  MaxProjectMilestones = 1
  CostCap = FALSE
  DailyCap = FALSE
  MaxTransientFails = 2
  MaxPlan = 1
  MaxChildren = 2
  CrewNotes = {{}}
  MaxFaults = 1
INVARIANT ApprovalGate
