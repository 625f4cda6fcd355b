SPECIFICATION FairSpec
CONSTANTS
  HeaderSize = 2
  MaxPayload = 3
  Bursts <- MCBursts
  FanoutLen = {0, 3}
  MaxFrames = 2
  WireSize = 2
  ReadLimit = 1
  WriteLimit = 1
INVARIANT TypeOK
INVARIANT EndMeansAll
PROPERTY ImplementsFrameChannel
PROPERTY OkArrives
PROPERTY SendingEnds
PROPERTY HandlerEnds
PROPERTY ListenerNotices
