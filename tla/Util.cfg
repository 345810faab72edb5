CONSTANTS
  MaxCalls = 3
  W = 7
  Chars = {47, 48, 49, 50, 55, 56, 57, 58}
  MaxLen = 4
  Bytes = {0, 31, 32, 65, 126, 127, 128, 255}
SPECIFICATION Spec
INVARIANT StatusIsFirstFailure
INVARIANT OkMeansWholeFile
INVARIANT FailedWriteLeavesNoFile
INVARIANT ReadBackMatchesWrite
INVARIANT DecimalMatchesReference
INVARIANT SliceOrderIsLexicographic
INVARIANT EscapeIsBytewise
CHECK_DEADLOCK FALSE
