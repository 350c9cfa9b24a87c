SPECIFICATION Spec
CONSTANTS
  IntMax = 7
  UserFiles = {0, 1, 2}
  ExcludeSets = {{}, {0}, {2}}
CONSTANT Lines <- MCLines
CONSTANT Inputs <- MCInputs
INVARIANTS FlattenIsExpansion GivesUpBeyondTheText PrintedAsCompiled
CHECK_DEADLOCK FALSE
