CONSTANTS
  Objects = {a, b}
  Fds = {3, 4}
  UserClose = TRUE
  INVALID = INVALID
SPECIFICATION Spec
INVARIANT FdOwnedExclusively
CHECK_DEADLOCK FALSE
