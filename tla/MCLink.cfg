SPECIFICATION LookSpec
CONSTANTS
  X = X
  Y = Y
  None = None
CONSTANT Paths <- MCPaths
CONSTANT Symbols <- MCSymbols
CONSTANT Collections <- MCCollections
CONSTANT Inputs <- MCInputs
CONSTANT Requests <- MCRequests
INVARIANTS LinkTypeOK UsesStayConnected AgreeingCollectionsAddUp DeclarationsReachDefinition AskedIsFound
CHECK_DEADLOCK FALSE
