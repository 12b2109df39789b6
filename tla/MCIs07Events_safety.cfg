CONSTANTS
  Clients = {c1, c2}
  Sources = {s1}
  MaxEvents = 1
SYMMETRY ClientSymmetry
SPECIFICATION Spec
INVARIANTS
  TypeOK
  OnlySubscribersHear
  NothingLeftBehind
CHECK_DEADLOCK FALSE
