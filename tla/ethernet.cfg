SPECIFICATION FairSpec
CONSTANTS
  s1 = s1  s2 = s2  f1 = f1  f2 = f2  v1 = v1  v2 = v2
  None = None
  Sender <- MCSender
  Frame <- MCFrame
  Speed <- MCSpeed
  RxCount = 2
  TxCount = 2
  MbSize = 1
  PbufNum = 2
  TcpipSize = 1
INVARIANT FramesAnnounced
INVARIANT RingSound
INVARIANT LinkSeen
INVARIANT SendSound
PROPERTY FramesRead
PROPERTY SendReturns
