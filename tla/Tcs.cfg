\* A listening socket, three sessions and one descriptor more, or a client and
\* five connections; at most two calls fail.
SPECIFICATION FairSpec
CONSTANTS
  MinimumCapacity = 1
  Zero = zero
  NoPoll = null
  InvalidSocket = invalid
  NoUser = nobody
  FdSetSize = 2
  Socket <- MCSocket
  User <- MCUser
  MaxConnections = 3
  MaxFaults = 2
INVARIANTS TcsTypeOK DescriptorsAccountedFor SessionsArePolled
PROPERTIES UndefinedHasReason ImplementsPollSet ConnectsOrRunsOut
CHECK_DEADLOCK FALSE
