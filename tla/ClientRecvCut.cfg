\* One frame is cut short.
CONSTANTS
  BufSize = 84
  ReconnectAfter = 1
  Sendable <- ShortTags
  MaxFrames = 3
  MaxCut = 1
SPECIFICATION Spec
INVARIANTS
  InOrderUntilCut
  GarbageOnlyAfterCut
