SPECIFICATION FairSpecAll
CONSTANTS
  CrateMap <- MCCrateMap
  Crate <- MCCrate
  Hits <- MCHits
  Readouts <- MCReadouts
  NStacks = 2
  MaxCycle = 2
  WireMax = 2
  MaxAbandoned = 1
  Faults = {"parse", "send"}
  Indeterminate = {13}
INVARIANTS OneCycle HitsReachAnalysis
PROPERTY EveryCycleIsAnalysed
