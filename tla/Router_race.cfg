SPECIFICATION SafetySpec
CONSTANTS
  Callers = {c1, c2}
  Providers <- TheProviders
  Local = "local"
  KeyNames <- TheKeyNames
  Keys <- TwoKeys
  Limit <- LimitOne
  Entries <- TheEntries
  ProviderOf <- TheProviderOf
  Models <- OneModel
  Chain <- OneEntry
  MaxTries = 10
  RetryMax = 1
  PenaltyPer429 = 1
  MaxPenalty = 1
  Anyone = Anyone
  Preferences = {Anyone}
  Outages <- NoReports
  Exhaustions <- NoReports
  Toggled = {"a"}
  NoKey = NoKey
SYMMETRY Symmetry
PROPERTIES UsesEnabledKey RotationLeavesLimitedKey
