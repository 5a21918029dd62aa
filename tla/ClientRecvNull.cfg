CONSTANTS
  BufSize = 84
  ReconnectAfter = 1
  Sendable <- ShortTags
  MaxFrames = 3
  MaxCut = 0
SPECIFICATION Spec
PROPERTY NullMeansDrained
