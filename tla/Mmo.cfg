CONSTANTS
  MaxConnections = 3
  MaxClients = 3
  nameless = nameless
  Names <- Nameless
  NoName = nameless
  Sendable = {"Update", "BeachballScored", "ResetBeachballScore"}
  Durations = {}
  Distances = {0}
  MaxScore = 1
  MaxLag = 1
  c1 = c1
  Client <- OneClient
  none = none
  waiting = waiting
  NoSocket = none
  Waiting = waiting
SPECIFICATION MmoFairSpec
INVARIANTS
  MmoTypeOK
  UpdatesAreOfKnownPlayers
  RosterAgrees
  ScoreAgrees
PROPERTIES
  DepartureIsSeen
