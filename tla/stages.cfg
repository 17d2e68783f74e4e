SPECIFICATION StagesSpec
CONSTANTS
  Profiles <- AllProfiles
  Ceilings <- SomeCeilings
  Second = 4
  MinTick = 1
  MaxTick = 3
  DefaultTick = 2
  File = {main, a, b, c}
  Entry = main
  Unusable = nowhere
  Graphs <- AllGraphs
  MaxUseDepth = 2
  FlowFiles <- SomeFlowFiles
  Flows <- SomeFlows
  EnvVars = {"URL"}
  Fields = {"name"}
  MaxNested = 2
  Rows = 3
  MaxDraws = 3
  BaseURLs <- SomeBases
  URLs <- SomeURLs
  Modes = {"load", "system"}
  Folder = {f1, f2}
  Trees <- SomeTrees
  MaxRecorded = 3
  RunsPerGroup = 1
  Ceiling = 3
  MaxPoints = 2
  Ladder <- WidthLadder
  Results <- SomeResults
  Gates <- SomeGates
  AgentSeries <- SomeSeries
  MinBucketRuns = 2
  CreepLimit = 10
  DriftLimit = 5
  ResourceRise = 10
  Looks <- AllLooks
INVARIANT PoolsEvenHanded
INVARIANT PlannerSound
INVARIANT LoadSound
INVARIANT RefusedForCause
INVARIANT ReadAsWritten
INVARIANT NamesHold
INVARIANT GatesAgree
INVARIANT TiersHonest
INVARIANT ResultJudged
CHECK_DEADLOCK FALSE
