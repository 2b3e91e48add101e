SPECIFICATION ToolsSpec
CONSTANTS
  g1 = g1  g2 = g2  s1 = s1  s2 = s2  p1 = p1  p2 = p2
  Disks <- MCDisks
  Models <- MCModels
  Machines <- MCMachines
  Concurrency <- MCConcurrency
  Proc = {s1, s2}
  Gpu = {g1, g2}
  SmiOrder <- SmiList
  CudaOrders <- SameOrder
  Total <- Mem
  OthersHold <- Held
  MaySpoil = {g1}
  MaxCommands = 3
  SweepPoints = 2
  TimedTokens = 2
  WarmTokens = 1
  TraceTokens = {0, 1, 3}
  Boost = 3
  MemFloor = 3
  Shown <- MCShown
  Margin = 1
  MaxTime = 2
  MaxRuns = 2
  Prompts = 2
  Reuse = FALSE
  MaxSessions = 2
  MaxLeft = 1
  Keys = 4
  Layers = 2
  Slabs = {1, 2, 3, 4}
  MaxAccesses = 6
  RowBlocks = 2
  EvBlocks = 3
  UB = 2
  TopK = 4
  Seqs = {p1, p2}
  PromptRows = {2, 3}
  RequestRows = {3}
  DecodeSteps = {1}
  MaxUnits = 2
  MaxFaults = 1
  QueueDepths <- Depths
  Requests = 3
  MaxBreaks = 2
  KeptErrors = 1
  LaunchMatrix <- MCMatrix
  ShellPins <- MCPins
  UserSets <- MCSets
  CounterValues <- MCCounts
  WarmupDecodes = 1
  RunPasses = 3
INVARIANTS
  ProfileIsTrue HardwareIsTold PlanIsHonest RowsAreMeasured ClockIsRecorded TakenIsOneRun ReleaseIsEarned PoliciesAgree DecodersAgree ReportsAreTrue
PROPERTIES
  ToolsAnswer
CHECK_DEADLOCK FALSE
