SPECIFICATION PluginSpec
CONSTANTS
  Files = {"m"}
  Main = "m"
  Macros = {"A"}
  Symbols = {"f", "g"}
  None = None
  MaxFids = 1
  MaxCalls = 100
  N = 7
  CallRanges = {}
  CallPositions = {}
CONSTANT Size <- MCSize
CONSTANT Texts <- MCTexts
CONSTANT Chunks <- DefineChunks
INVARIANT AllUsersStayBefore
CHECK_DEADLOCK FALSE
