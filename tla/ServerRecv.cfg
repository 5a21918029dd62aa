\* Payload read as tags branches into every message: short frames keep it small.
CONSTANTS
  BufSize = 72
  Sendable <- ShortFrames
  MaxFrames = 3
  MaxCut = 1
SPECIFICATION FairSpec
INVARIANTS
  TypeOK
  InOrderWhileIntact
  ExpelledForCause
PROPERTIES
  ImplementsFifo
  OrderlyCloseDeliversAll
\* A session that is gone stays gone: the model ends there.
CHECK_DEADLOCK FALSE
