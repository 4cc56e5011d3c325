SPECIFICATION Spec
CONSTANTS
  CrateMap <- MCCrateMap
  NStacks = 2
  MaxCycle = 1
  WireMax = 2
  MaxAbandoned = 1
  Readouts <- VariedReadouts
  Faults = {}
  Indeterminate = {13}
INVARIANT NoFillWordPublished
