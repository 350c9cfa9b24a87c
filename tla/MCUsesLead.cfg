SPECIFICATION PluginSpec
CONSTANTS
  Files = {"m"}
  Main = "m"
  Macros = {"A", "B"}
  Symbols = {"f", "g"}
  None = None
  MaxFids = 1
  MaxCalls = 100
  N = 6
  CallRanges = {}
  CallPositions = {}
CONSTANT Size <- MCSize
CONSTANT Texts <- MCTexts
CONSTANT Chunks <- WholeChunks
INVARIANT UsesLead
CHECK_DEADLOCK FALSE
