SPECIFICATION Spec
CONSTANTS
  Files = {"m", "s", "t"}
  SystemFiles = {"s", "t"}
  ExcludedFiles = {}
  None = None
CONSTANT Size <- MCSize
CONSTANT TopLevel <- MCTopLevel
CONSTANT Graphs <- MCGraphs
CONSTANT Options <- MCOptions
INVARIANTS TypeOK ReachedExactly DependenciesFirst CycleIsReal OnlySelfLoopsAreFatal PrintedOnce PrintedInOrder
PROPERTY Terminates
CHECK_DEADLOCK FALSE
