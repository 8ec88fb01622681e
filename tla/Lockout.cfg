SPECIFICATION Spec
CONSTANTS
  k1 = k1
  k2 = k2
  k3 = k3
  Keys <- ThreeKeys
  MaxAttempts = 2
  WindowMs = 2
  MaxTracked = 2
  MaxChecking = 2

INVARIANTS Bounded OvershootBounded GuessesBounded
PROPERTIES EvictsUnderPressure LocksEnd
