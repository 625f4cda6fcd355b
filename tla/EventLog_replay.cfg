CONSTANTS
  Caller = {h1, h2}
  HeaderSize = 2
  FrameLen = {2, 3}
  BatchSize = 2
  StartOffset = {0, 1, 99}
  SeekLimit = 99
  GarbageLen = {0, 1}
  MaxFrames = 2
  MaxTorn = 1
SPECIFICATION FairLogSpec
INVARIANT LogTypeOK
INVARIANT BookmarkReachesFrame
INVARIANT ReplayContiguous
INVARIANT ReplayComplete
PROPERTY ReplayTerminates
CHECK_DEADLOCK FALSE
