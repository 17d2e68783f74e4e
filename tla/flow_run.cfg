SPECIFICATION FairSpec
CONSTANTS
  FlowName <- Names
  StepsOf <- Flow
  Entry <- Flows
  Modes <- Families
  Session <- Sessions1
  ReceiveTimeout = 2
  Rows = 2
INVARIANT SessionsSound
INVARIANT NothingKeptBack
INVARIANT OnFailureObeyed
INVARIANT RetriesEndWithTheRun
INVARIANT CallersTruthful
PROPERTY KillSwitchStopsTheFlow
PROPERTY FlowEnds
