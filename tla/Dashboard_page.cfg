CONSTANTS
  Stream = {s1, s2}
  Replay = {r1}
  NoStream = NoStream
  QueueSize = 2
  MaxReplay = 2
  MaxBackoff = 3
  MaxEvents = 3
SPECIFICATION FairPageSpec
INVARIANT PageTypeOK
INVARIANT OneConnectionLoop
INVARIANT StreamFollowsBroadcasts
INVARIANT ShownStatusTrue
INVARIANT DoneCountsReplayed
PROPERTY ButtonReenabled
CHECK_DEADLOCK FALSE
