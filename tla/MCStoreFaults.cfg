SPECIFICATION Spec
CONSTANTS
  Jobs = {j1, j2}
  Extractors = {x}
  Sources = {1, 2, 3}
  Beyond = {3}
  Symbols = {foo, bar}
  foo = foo
  bar = bar
  None = None
  Faults = {"kill", "disk"}
CONSTANT Units <- AllUnits
CONSTANT Requests <- AllRequests
INVARIANTS WholeArchives NothingForgotten ArchivedIsFound
PROPERTY ImplementsCatalog
CHECK_DEADLOCK FALSE
SYMMETRY JobSymmetry
