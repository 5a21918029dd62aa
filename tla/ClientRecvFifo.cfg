\* Whole writes only; a buffer that just holds the longest frame.
CONSTANTS
  BufSize = 84
  ReconnectAfter = 2
  Sendable <- LongAndShort
  MaxFrames = 3
  MaxCut = 0
SPECIFICATION FairSpec
INVARIANTS
  TypeOK
  RoomToReceive
PROPERTIES
  ImplementsFifo
  NoticesClose
  Reconnects
