SPECIFICATION Spec
CONSTANTS
  MilestoneId = {1, 2, 3, 4}
  Project = {1}
  Worker = {w1}
  Operator = {o1}
  RequireApproval = FALSE
  RetryLimit = 1
  ConsolidationEvery = 1
  MaxProjectMilestones = 3
  CostCap = FALSE
  DailyCap = TRUE
  MaxTransientFails = 2
  MaxPlan = 2
  MaxChildren = 2
  CrewNotes = {{}}
  MaxFaults = 1
PROPERTIES AbortStops Settles AttemptsResolved
