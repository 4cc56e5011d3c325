SPECIFICATION Spec
CONSTANTS
  MapFiles <- LegibleMapFiles
  DetectorFiles <- NoFiles
  MaxCalls = 2
PROPERTY CrateMapsAreRead
