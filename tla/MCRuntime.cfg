SPECIFICATION RuntimeSpec
CONSTANTS
  d1 = d1  d2 = d2  d3 = d3  x1 = x1  x2 = x2
  Size = 8
  Sizes <- ManyStrides
  Dst = {d1, d2, d3}
  StagedExpert = {x1, x2}
  WaveDepth = 1
  Lists <- ThreeTwoOne
  MaxFills = 2
  Mapped = Mapped
  StagedNil = StagedNil
  RaDepth = 2
  RaExpert = {r1, r2, r3}
  MaxOffers = 3
  RaNil = RaNil
  Lanes = 3
  MaxReqs = 4
  MaxWaves = 3
  MaxStarts = 1
  BankBlock = {b1, b2}
  BankRole = {gate}
  BankExperts = 2
  BankReader = {t1, t2}
  LoadsLive = FALSE
  BankNil = BankNil
  FixTables <- Tables
  FixBudgets = {0, 2, 4, 5}
  NoBudget = NoBudget
  PinSizes = {1, 2}
  StageSlots = 2
  WarmExperts = 1
  MaxQueued = 2
  MaxUsers = 3
  Layer = {1, 2}
  Routed = {e1, e2, e3}
  Widths = {2, 3}
  MaxUsed = 2
  TopCand = 2
  MaxTokens = 2
  Rows = 6
  RowBytes = 3
  TableAt = 3
  MapBytes = 22
  Page = 4
  Wanted <- RowSets
  MaxSteps = 3
  Client = {c1, c2}
  MaxChunks = 2
INVARIANTS
  IoTypesOK SlabIsWhole FilledWithItsExpert BuffersAreOwned WaveIsAlive LaneHasOneUser
  BankServes MemoryIsAccounted BlocksAreExact AdviceIsSound ProxyIsTruthful
PROPERTIES
  GivesRanges ReadsEveryRequest HostIsNotParked HostAnswers
CHECK_DEADLOCK FALSE
