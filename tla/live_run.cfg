SPECIFICATION FairSpec
CONSTANTS
  engine = engine
  driver = driver
  page1 = page1
  Producer = {engine, driver}
  Artifacts <- MCArtifacts
  Me = engine
  Page = {page1}
  MaxSignals = 3
  MaxScrapes = 1
INVARIANT StoreSound
INVARIANT BatchExitTruthful
INVARIANT LiveSafe
PROPERTY RunIsSettled
