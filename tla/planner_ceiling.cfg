SPECIFICATION Spec
CONSTANTS
  Profiles <- AllProfiles
  Ceilings <- SomeCeilings
  Second = 4
  MinTick = 1
  MaxTick = 3
  DefaultTick = 2
INVARIANT CeilingHolds
