SPECIFICATION Spec
CONSTANTS
  CrateMap <- MCCrateMap
  NStacks = 2
  MaxCycle = 3
  WireMax = 2
  MaxAbandoned = 1
  Readouts <- VariedReadouts
  Faults = {"loss", "parse", "send"}
  Indeterminate = {13}
INVARIANTS TypeOK CleanEvents InOrderOnce FramesFaithful
PROPERTY ImplementsBuilder
