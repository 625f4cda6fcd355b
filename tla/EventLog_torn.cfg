CONSTANTS
  Caller = {h1}
  HeaderSize = 2
  FrameLen = {3}
  BatchSize = 2
  StartOffset = {0}
  SeekLimit = 99
  GarbageLen = {0, 1}
  MaxFrames = 2
  MaxTorn = 1
SPECIFICATION LogSpec
INVARIANT ReplayYieldsEveryFrame
CHECK_DEADLOCK FALSE
