CONSTANTS
  Caller = {h1, h2}
  HeaderSize = 1
  FrameLen = {1}
  BatchSize = 1
  StartOffset = {0, 99}
  SeekLimit = 99
  GarbageLen = {0}
  MaxFrames = 1
  MaxTorn = 0
  Topic = {t1}
  MetricsTopic = t1
  Priority = {255}
  Publisher = {h1}
  Watcher = {h1, h2}
  MaxTicks = 0
  MaxKills = 1
SPECIFICATION Spec
SYMMETRY Symmetry
INVARIANT SubscribeThenReplayHasNoGap
INVARIANT NoGhostClients
CHECK_DEADLOCK FALSE
