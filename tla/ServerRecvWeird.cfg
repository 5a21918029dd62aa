CONSTANTS
  BufSize = 84
  Sendable <- WithResets
  MaxFrames = 4
  MaxCut = 0
SPECIFICATION Spec
INVARIANT NoWeirdState
CHECK_DEADLOCK FALSE
