SPECIFICATION Spec
CONSTANTS
  FlowName <- Names
  StepsOf <- Flow
  Entry <- Flows
  Modes <- Families
  Session <- Sessions1
  ReceiveTimeout = 2
  Rows = 2
PROPERTY AbortRunStopsTheRun
