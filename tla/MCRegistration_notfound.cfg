CONSTANTS
  Registries = {u1, u2}
  NoURL = noURL
  DefaultURL = u1
  Last = 2
  MaxChanges = 2
SPECIFICATION FairSpec
PROPERTY NotFoundReregisters
CHECK_DEADLOCK FALSE
