CONSTANTS
  Objects = {a, b, c}
  Fds = {3, 4}
  UserClose = TRUE
  INVALID = INVALID
  MaxPayload = 4
  Capacities = {0, 2, 3, 5}
  DefaultCap = 2
  NUL = NUL
SPECIFICATION Spec
INVARIANT NoDescriptorLeak
INVARIANT RecvReturnsWholeMessage
CHECK_DEADLOCK FALSE
