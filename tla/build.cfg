SPECIFICATION Spec
CONSTANTS
  Note = {1}
  Hook = {h1, h2}
  MilestoneCount = 2
  CiRepairAttempts = 1
  RetryLimit = 2
  TokenCap = 1
  MaxCall = 1
  GithubToken = TRUE
  MaxFaults = 1
INVARIANTS TypeOK ToldOnce SpendBounded LedgerComplete PushVerified PublishedUnlessFault
PROPERTIES LostWithFailedCall RaisesOnlyOnFault StepEnds
