SPECIFICATION Spec
CONSTANTS
  MaxTokens = 3
  MaxPending = 2
  Ttl = 1
  Thread = {a1}
  RateLimit = 2
  Window = 2
  Raw = {"10", "20", "many"}
  Valid = {"10", "20"}
  Env = "10"
  MaxFaults = 1
INVARIANTS TypeOK Answerable RefusedOnlyWhenFull LiveIsStored
PROPERTY RunOnce
