\* One client wins, another one is there to be told.
CONSTANTS
  MaxConnections = 2
  MaxClients = 2
  nameless = nameless
  alice = alice
  Names <- SomeNames
  NoName = nameless
  Sendable <- ClientTag
  Durations = {2}
  Distances = {0, 1}
  MaxScore = 1
  MaxLag = 0
SPECIFICATION Spec
PROPERTY WinIsAnnounced
\* The model stops when the table overflows.
CHECK_DEADLOCK FALSE
