SPECIFICATION FairSpec
CONSTANTS
  MaxEvents = 6
  MaxRuns = 3
  QueueMax = 3
  EventSize <- MixedSizes
  BufferSizes = {4, 6}
INVARIANTS TypeOK Ledger BlockFits PublishedOrder
PROPERTIES ImplementsRelay AcceptedIsDelivered
