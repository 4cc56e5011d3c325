SPECIFICATION Spec
CONSTANTS
  MapFiles <- MCMapFiles
  DetectorFiles <- MCDetectorFiles
  MaxCalls = 4
INVARIANTS TypeOK IterationFindsAll NamesAsRead
PROPERTIES OverrunHasCause ImplementsDescription
