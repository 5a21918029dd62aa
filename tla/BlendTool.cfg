CONSTANTS
  SizeMod = 65536
  PtrSize = 8
  PrimSize <- MCPrims
  Files <- MCFiles
  Configs <- MCConfigs
  Underscored <- MCUnderscored
  Commands <- MCCommands
SPECIFICATION Spec
INVARIANTS
  WellFormedLoads
  OffsetsUpToFunctions
  DeclaredAsInitialized
  BindingsAreClosed
  UndefinedForCause
  NothingLeaks
PROPERTIES
  PartsAreInside
\* The program ends.
CHECK_DEADLOCK FALSE
