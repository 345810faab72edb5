CONSTANTS
  Descriptors = {e1, e2}
  MaxIds = 4
  NONE = NONE
SPECIFICATION Spec
INVARIANT HandlesMatchSubscriptions
INVARIANT PostDeliversSnapshot
