CONSTANTS
  Capacities = {1, 2, 3, 4}
  Values = {v1, v2, v3}
  NULL = NULL
  GARBAGE = GARBAGE
SPECIFICATION Spec
INVARIANT TypeOK
INVARIANT LifetimesMatch
INVARIANT ReadsAgree
PROPERTY RefinesBoundedQueue
CHECK_DEADLOCK FALSE
