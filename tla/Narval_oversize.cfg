SPECIFICATION FairSpec
CONSTANTS
  MaxEvents = 3
  MaxRuns = 1
  QueueMax = 3
  EventSize <- OneOversize
  BufferSizes = {4, 6}
PROPERTY SetAsideIsDelivered
