SPECIFICATION Spec
CONSTANTS
  u1 = u1
  u2 = u2
  u3 = u3
  u4 = u4
  None = None
  Updates <- FourUpdates
SYMMETRY Symmetry
INVARIANTS DuplicatesHaveCause DeadlineOrOverlapped StoppedForGood
  AbortedOrOverlapped WizardsAreKept CancellationsAreKept
