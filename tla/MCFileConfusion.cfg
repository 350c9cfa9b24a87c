SPECIFICATION Spec
CONSTANTS
  Files = {"m", "s", "u"}
  Main = "m"
  UserFiles = {"m", "u"}
  None = None
  MaxFids = 4
CONSTANT Includes <- Mixed
INVARIANT TopLevelLeadsThere
CHECK_DEADLOCK FALSE
