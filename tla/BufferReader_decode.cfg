SPECIFICATION Spec
CONSTANTS
  Crate <- CrateWithoutZero
  Frames <- AllFrames
  MaxFrames = 3
  Indeterminate = {0, 13}
INVARIANTS TypeOK DataFiledRight
PROPERTIES
  OneFrameAlone
  UndefinedHasCause
  ImplementsDecoder
