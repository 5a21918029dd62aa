\* More connections than slots: slots are reused, and the table fills up.
CONSTANTS
  MaxConnections = 2
  MaxClients = 3
  nameless = nameless
  alice = alice
  Names <- SomeNames
  NoName = nameless
  Sendable <- ClientTag
  Durations = {2}
  Distances = {0, 1}
  MaxScore = 1
  MaxLag = 0
SPECIFICATION Spec
INVARIANTS
  TypeOK
  SlotOwnership
PROPERTIES
  OwnerStays
\* The model stops when the table overflows.
CHECK_DEADLOCK FALSE
