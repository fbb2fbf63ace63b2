SPECIFICATION Spec
CONSTANTS
  Values <- MCValues
INVARIANTS
  TypeOK
  CalleeSaved
  Aligned
  RunsOnce
PROPERTIES
  EntersAndReturns
