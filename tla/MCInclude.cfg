SPECIFICATION PluginSpec
CONSTANTS
  Files = {"m", "x"}
  Main = "m"
  Macros = {"A", "B"}
  Symbols = {"f", "g"}
  None = None
  MaxFids = 3
  MaxCalls = 100
  N = 6
  MainN = 5
  HeaderN = 3
  NestedN = 6
  CallRanges = {}
  CallPositions = {}
CONSTANT Size <- IncludeSize
CONSTANT Texts <- IncludeTexts
CONSTANT Chunks <- PieceChunks
INVARIANTS PluginTypeOK TextOrder NextDefinitionFollows ConditionalsAreWhole GuardsStayOut
CHECK_DEADLOCK FALSE
