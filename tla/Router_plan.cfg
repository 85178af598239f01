SPECIFICATION Spec
CONSTANTS
  Callers = {c1}
  Providers <- TheProviders
  Local = "local"
  KeyNames <- TheKeyNames
  Keys <- OneKey
  Limit <- NoLimit
  Entries <- TheEntries
  ProviderOf <- TheProviderOf
  Models <- OneModel
  Chain <- WithLocal
  MaxTries = 2
  RetryMax = 1
  PenaltyPer429 = 1
  MaxPenalty = 1
  Anyone = Anyone
  Preferences = {Anyone, "a", "local"}
  Outages <- AnyOutage
  Exhaustions <- NoReports
  Toggled = {}
  NoKey = NoKey
INVARIANTS PlansAreSound FailureIsHonest
PROPERTY FailsOver
