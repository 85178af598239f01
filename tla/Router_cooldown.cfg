SPECIFICATION SafetySpec
CONSTANTS
  Callers = {c1}
  Providers <- TheProviders
  Local = "local"
  KeyNames <- TheKeyNames
  Keys <- TwoKeys
  Limit <- NoLimit
  Entries <- TheEntries
  ProviderOf <- TheProviderOf
  Models <- OneModel
  Chain <- OneEntry
  MaxTries = 10
  RetryMax = 0
  PenaltyPer429 = 3
  MaxPenalty = 10
  Anyone = Anyone
  Preferences = {Anyone}
  Outages <- NoReports
  Exhaustions <- NoReports
  Toggled = {}
  NoKey = NoKey
PROPERTY LimitedKeyCoolsDown
