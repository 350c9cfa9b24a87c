SPECIFICATION Spec
CONSTANTS
  Files = {"m", "u", "s1", "s2"}
  Main = "m"
  UserFiles = {"m", "u"}
  None = None
  MaxFids = 4
CONSTANT Includes <- Separate
INVARIANTS TypeOK TopLevelLeadsThere
PROPERTY IndexIsStable
CHECK_DEADLOCK FALSE
