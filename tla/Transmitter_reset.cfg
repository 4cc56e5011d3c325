SPECIFICATION FairSpec
CONSTANTS
  CrateMap <- MCCrateMap
  NStacks = 2
  MaxCycle = 2
  WireMax = 2
  MaxAbandoned = 1
  Readouts <- PlainReadouts
  Faults = {"parse"}
  Indeterminate = {13}
PROPERTY NextOneIsTried
