SPECIFICATION Spec
CONSTANTS
  VU = {v1, v2}
  NumFlows = 2
  FlowResults <- Limited
  SampleEvery = 1
  MaxTraces = 9
  MaxFailures = 9
  WatchProgress = TRUE
  RowCount = 2
  Distribution = "unique-per-vu"
  Exhaustion = "cycle"
  Once = TRUE
  Peak = 2
  Duration = 0
  Curve <- NoCurve
  MaxIterations = 2
SYMMETRY Symmetry
INVARIANT TypeOK
INVARIANT WholePasses
INVARIANT EvenHanded
INVARIANT ProgressTruthful
PROPERTY ProgressNeverRewinds
