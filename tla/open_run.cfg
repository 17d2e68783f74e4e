SPECIFICATION FairSpec
CONSTANTS
  VU = {w1, w2}
  NumFlows = 1
  FlowResults <- Killing
  SampleEvery = 1
  MaxTraces = 9
  MaxFailures = 9
  WatchProgress = FALSE
  RowCount = 1
  Distribution = "unique-per-vu"
  Exhaustion = "fail"
  Interval = 1
  Duration = 2
  MaxNow = 3
INVARIANT ArrivalsServed
INVARIANT NoArrivalOmitted
INVARIANT UniqueRows
PROPERTY ImplementsLoadRun
PROPERTY RunUnwinds
