SPECIFICATION LookSpec
CONSTANTS
  X = X
  Y = Y
  None = None
CONSTANT Paths <- MCPaths
CONSTANT Symbols <- MCSymbols
CONSTANT Collections <- MCCollections
CONSTANT Inputs <- MCInputs
CONSTANT Requests <- MCRequests
INVARIANT IncludesNameTheirFiles
CHECK_DEADLOCK FALSE
