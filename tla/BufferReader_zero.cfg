SPECIFICATION Spec
CONSTANTS
  Crate <- MCCrate
  Frames <- ZeroFrames
  MaxFrames = 2
  Indeterminate = {13}
INVARIANT EveryModuleIsRead
