SPECIFICATION Spec
CONSTANTS
  MaxFrames = 9
  MaxStarts = 2
  QueueMax = 2
  FrameSize <- SmallSizes
  BadFrames = {7}
  buffer_size = 3
  filesize = 3
  MegaByte = 2
  IntMax = 7
  Uint64Max = 31
INVARIANTS TypeOK BufferFits CountersAgree FileSizeKept FilesFilled Ledger FilesHoldRun RunInOrder LossBounded
CHECK_DEADLOCK FALSE
