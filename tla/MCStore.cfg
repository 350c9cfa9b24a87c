SPECIFICATION FairSpec
CONSTANTS
  Jobs = {j1, j2}
  Extractors = {x}
  Sources = {1, 2, 3}
  Beyond = {3}
  Symbols = {foo, bar}
  foo = foo
  bar = bar
  None = None
  Faults = {}
CONSTANT Units <- BothUnits
CONSTANT Requests <- FewRequests
INVARIANTS StoreTypeOK ReadersAndWriters LocksAreReleased
PROPERTY EveryProcessEnds
CHECK_DEADLOCK FALSE
