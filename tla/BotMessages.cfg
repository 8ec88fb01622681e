SPECIFICATION Spec
CONSTANTS
  u1 = u1
  u2 = u2
  u3 = u3
  me = me
  other = other
  Nobody = Nobody
  Me = me
  Other = other
  Updates <- ThreeUpdates
  MaxTracked = 2
  FirstRows <- SomeRows
SYMMETRY Symmetry
INVARIANTS NothingEscapesClear NoDeadEnds
CHECK_DEADLOCK FALSE
