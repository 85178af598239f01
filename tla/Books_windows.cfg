SPECIFICATION Both
CONSTANTS
  Models = {"a", "b"}
  Callers = {c1, c2}
  Minute = 2
  Day = 3
  Cooldown = 2
  ProviderRpm = 1
  ProviderRpd = 2
  EntryLimits <- TheEntryLimits
  SetLimits <- TheSetLimits
  Estimates = {0, 2}
  Tokens = {2}
  MaxAttempts = 1
  MaxRequests = 4
  Horizon = 4
  Provs = {"p", "q"}
  Watched = "p"
  UsedModels = {"m"}
  Amounts = {1}
  WindowLength <- TheWindowLength
  KnownLimits <- TheKnownLimits
  NewLimits <- TheNewLimits
  SaveInterval = 1
  DayLength = 3
  FirstTime = 4
  LastTime = 8
  MaxBooked = 2
  Torn = Torn
SYMMETRY Symmetry
CHECK_DEADLOCK FALSE
INVARIANTS BooksTypeOK PruningLosesNothing WindowsHold BooksAgree LossIsRecent QuotaIsRecent
