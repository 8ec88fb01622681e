SPECIFICATION Spec
CONSTANTS
  r1 = r1
  r2 = r2
  r3 = r3
  r4 = r4
  r5 = r5
  NoRequest = NoRequest
  Users = {ann}
  Requests <- FiveRequests
  Ops = {"register", "login", "refresh", "logout", "logoutAll", "block", "unblock"}
SYMMETRY Symmetry
INVARIANTS SingleUse OneTokenPerSignIn BlockSparesOnlyOverlapping NewestTokenSignsOut SessionsSurviveRotation
PROPERTIES ImplementsChains
