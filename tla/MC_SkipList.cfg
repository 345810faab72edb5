CONSTANTS
  Keys = {1, 3, 5}
  Targets = {0, 3, 4}
  MaxHeight = 2
  Readers = {r1}
  NIL = NIL
  UNINIT = UNINIT
SPECIFICATION Spec
INVARIANT TypeOK
INVARIANT WellFormed
INVARIANT NoUninitializedRead
INVARIANT Linearizable
PROPERTY RefinesOrderedSet
PROPERTY OperationsComplete
