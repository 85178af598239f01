SPECIFICATION All
CONSTANTS
  Calls = {c1, c2}
  Asked <- TheAsked
  Keys = {"k1", "k2", "k3"}
  Convs = {"s1"}
  Providers = {p, q}
  MaxSize = 2
  CacheTtl = 1
  SessionTtl = 1
  CleanupInterval = 1
  Blocking = TRUE
  MaxClock = 3
  MaxFrames = 1
  None = None
  Bodies <- TheBodies
  Toolsets <- TheToolsets
  NoText = NoText
  Chats <- TheTalks
  MinMessages = 3
  KeepRecent = 3
  PieceLength = 3
  PreviewLength = 1
  NoString = NoText
  Summarized = "summary"
  Wishes <- TheWishes
  Catalogs <- TheCatalogs
  Aliases <- TheAliases
  Families <- TheFamilies
  Tiers <- TheTiers
  FastKnown <- TheFast
  Preferred <- ThePreferred
  Keywords <- TheKeywords
  Measured <- TheMeasured
  Sees <- TheSees
  Uses <- TheUses
  NoName = NoName
SYMMETRY Symmetry
CHECK_DEADLOCK FALSE
INVARIANTS ChatTypeOK LeftInOrder FormatsAgree CompressionIsSound NamesAreServed
PROPERTY CachedIsFresh
