SPECIFICATION Spec
CONSTANTS
  Note = {1}
  Hook = {h1}
  MilestoneCount = 1
  CiRepairAttempts = 1
  RetryLimit = 2
  TokenCap = 1
  MaxCall = 1
  GithubToken = TRUE
  MaxFaults = 1
PROPERTY DeliveredOnce
