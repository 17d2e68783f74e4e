SPECIFICATION Spec
CONSTANTS
  VU = {w1}
  NumFlows = 1
  FlowResults <- Passing
  SampleEvery = 1
  MaxTraces = 9
  MaxFailures = 9
  WatchProgress = FALSE
  RowCount = 0
  Distribution = "unique-per-vu"
  Exhaustion = "fail"
  Interval = 1
  Duration = 4
  MaxNow = 4
INVARIANT WithinCap
