CONSTANTS
  MaxGenerations = 8
  Models = {"a", "b", "c"}
  Known = {"a", "b"}
  DefaultModel = "a"
  Rate <- RateOf
  BytesPerToken = 3
  PerMessageOverhead = 1
  AssumedInput = 3
  AssumedOutput = 4
  DefaultMaxTokens = 3
  MaxBatchSize = 2
  MaxDistinctModels = 1
  U32Max = 5
  U256Max = 40
  NoChat = NoChat
  MaxAttempts = 2
  ScoreDivisor = 2
  Base = 3
  WordSize = 2
  AddressSize = 1
  NativeMax = 7
  LenMax = 6
  NotUtf8 = 2
  Default <- SmallDefaults
  RpsMax = 3
  Bearers = {"k1", "k2"}
  Tokens402 = {"t1", "t2"}
  PathChars <- TraversalChars
  MaxPath = 4
  Counts <- SomeCounts
  Values <- SomeValues
  Caps = {1, 7, 12}
  Prompts = {0, 4, 7}
  Tokens = {2, 5}
  Ceilings = {2, 4}
  Reports = {0, 2, 3, 6}
  MaxBatch = 3
  Addresses = {"p", "q", "r"}
  Bps = {1, 4}
  Loads = {0, 1, 2}
  MaxLoad = 2
  PoolScores = {0, 5}
  MaxListed = 3
  MaxBuffer = 8
  MaxTail = 3
  Settings <- SomeSettings
  MaxSlots = 2
  LastDayCounted = 48000
SPECIFICATION Spec
INVARIANTS
  RequestsBounded
  PricesAgree
  ProvidersChosenWell
  DecodersAgree
  GatesFailClosed
  DatesFollowCalendar
CHECK_DEADLOCK FALSE
