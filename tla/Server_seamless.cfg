CONSTANTS
  Caller = {h1, h2}
  HeaderSize = 1
  FrameLen = {1}
  BatchSize = 1
  StartOffset = {0}
  SeekLimit = 99
  GarbageLen = {0}
  MaxFrames = 2
  MaxTorn = 0
  Topic = {t1}
  MetricsTopic = t1
  Priority = {255}
  Publisher = {h1}
  Watcher = {h2}
  MaxTicks = 0
  MaxKills = 0
SPECIFICATION Spec
SYMMETRY Symmetry
INVARIANT SeamlessTransition
CHECK_DEADLOCK FALSE
