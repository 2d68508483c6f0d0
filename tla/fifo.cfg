SPECIFICATION Spec
CONSTANTS
  MilestoneId = {1}
  Project = {1, 2}
  Worker = {w1}
  Operator = {o1}
  RequireApproval = FALSE
  RetryLimit = 1
  ConsolidationEvery = 0
  MaxProjectMilestones = 0
  CostCap = FALSE
  DailyCap = FALSE
  MaxTransientFails = 1
  MaxPlan = 1
  MaxChildren = 1
  CrewNotes = {{}}
  MaxFaults = 0
PROPERTY OldestServed
