SPECIFICATION Spec
CONSTANTS
  Files = {"h"}
  Symbols = {"s"}
  MaxCalls = 3
CONSTANT Size <- MCSize
CONSTANT CallRanges <- MCRanges
CONSTANT CallPositions <- MCPositions
INVARIANTS CodeIsTheLoop TypeOK Disjoint BandClosed UsesConnected SymbolsLocated IncludesInside
PROPERTY NeverShrinks
CHECK_DEADLOCK FALSE
