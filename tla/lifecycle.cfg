SPECIFICATION Safety
CONSTANTS
  MilestoneId = {1, 2, 3, 4, 5, 6}
  Project = {1}
  Worker = {w1, w2}
  Operator = {o1}
  RequireApproval = TRUE
  RetryLimit = 2
  ConsolidationEvery = 1
  MaxProjectMilestones = 2
  CostCap = TRUE
  DailyCap = FALSE
  MaxTransientFails = 2
  MaxPlan = 2
  MaxChildren = 2
  CrewNotes = {{}}
  MaxFaults = 1
SYMMETRY Symmetry
INVARIANTS TypeOK ClaimsExclusive ShipsComplete RetriesBounded WritesLegal SnapshotCurrent ApprovalGateUnlessFault
PROPERTIES LegalTransitions ImplementsLifecycle
