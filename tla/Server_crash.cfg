CONSTANTS
  Caller = {h1, h2}
  HeaderSize = 1
  FrameLen = {2}
  BatchSize = 1
  StartOffset = {}
  SeekLimit = 99
  GarbageLen = {0}
  MaxFrames = 2
  MaxTorn = 1
  Topic = {t1}
  MetricsTopic = t1
  Priority = {255}
  Publisher = {h1, h2}
  Watcher = {h2}
  MaxTicks = 1
  MaxKills = 1
SPECIFICATION Spec
SYMMETRY Symmetry
INVARIANT TypeOK
INVARIANT WriteAhead
INVARIANT PublisherOrder
INVARIANT MetricsAccurate
CHECK_DEADLOCK FALSE
