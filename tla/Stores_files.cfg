SPECIFICATION All
CONSTANTS
  k1 = k1
  Parts = {"keys", "files", "catalog", "oauth", "access"}
  Keys = {k1, k2}
  Checks = {}
  EnvKeys <- OneKey
  MaxKeys = 2
  MaxStored = 4
  Threshold = 1
  Toggling = TRUE
  Editing = TRUE
  NoKey = NoKey
  Validators = {v1}
  Torn = Torn
  ModelIds = {"m", "n"}
  ProviderOrder <- TheProviders
  FirstYaml <- TheYaml
  Offers <- TheOffers
  SyncRuns = {s1}
  AutoRuns = {a1}
  Unreadable = Unreadable
  Names = {"m"}
  Vendors <- TheProviders
  FileContents <- TheFiles
  Listings <- TheListings
  Free <- TheFree
  ComboEntries <- TheEntries
  Orders <- TheOrders
  Discoveries = {d1, d2}
  Heaviest = 2
  NoModel = NoModel
  TornFile = TornFile
  Linked = {"p"}
  Flows = {f1, f2}
  MaxStates = 2
  MaxTokens = 2
  MaxRefresh = 3
  Nil = Nil
  KeyNames = {"n", "m"}
  MasterKey = TRUE
  MaxIssued = 3
  MaxUses = 1
  TornKeys = TornKeys
CHECK_DEADLOCK FALSE
INVARIANTS FilesAndStoresTypeOK MarkedIsAccepted KnownWasDefined StateIsRedeemedOnce
INVARIANTS ConnectionCanBeRefreshed BarredStaysBarred
PROPERTIES RestartKeepsStores ScriptsOnlyAdd DiscoveryOnlyAdds ModelsFollowCombos
