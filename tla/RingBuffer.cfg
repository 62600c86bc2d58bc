CONSTANTS
  Size = 4
  MaxCall = 4
  MaxPut = 14
SPECIFICATION Spec
INVARIANTS
  RegionsApart
PROPERTY ImplementsByteFifo
CHECK_DEADLOCK FALSE
