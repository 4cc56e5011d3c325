SPECIFICATION Spec
CONSTANTS
  MaxFrames = 9
  MaxStarts = 1
  QueueMax = 2
  FrameSize <- SmallSizes
  BadFrames = {}
  buffer_size = 3
  filesize = 4
  MegaByte = 2
  IntMax = 7
  Uint64Max = 31
INVARIANT FileSizeKept
CHECK_DEADLOCK FALSE
