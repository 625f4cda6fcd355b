CONSTANTS
  Stream = {s1}
  Replay = {}
  QueueSize = 2
  MaxReplay = 0
  MaxBackoff = 3
  MaxEvents = 2
SPECIFICATION Spec
INVARIANT ListedStreamsAreConnected
CHECK_DEADLOCK FALSE
