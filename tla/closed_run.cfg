SPECIFICATION FairSpec
CONSTANTS
  VU = {v1, v2}
  NumFlows = 1
  FlowResults <- Killing
  SampleEvery = 2
  MaxTraces = 1
  MaxFailures = 1
  WatchProgress = FALSE
  RowCount = 0
  Distribution = "unique-per-vu"
  Exhaustion = "fail"
  Once = FALSE
  Peak = 2
  Duration = 2
  Curve <- RampOneTwo
  MaxIterations = 3
INVARIANT ResultWhole
INVARIANT CancelBoundsWork
INVARIANT RetentionExact
PROPERTY ImplementsLoadRun
PROPERTY RunUnwinds
