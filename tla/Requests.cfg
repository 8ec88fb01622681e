SPECIFICATION Spec
CONSTANTS
  r1 = r1
  r2 = r2
  r3 = r3
  home = home
  office = office
  ann = ann
  bob = bob
  None = None
  Requests = {r1, r2, r3}
  Calls <- SomeCalls
  Addresses = {home, office}
  Emails = {ann, bob}
  Windows <- SomeWindows
  AuthLimits <- SomeLimits
  Outcomes = {"returns", "error"}
  MaxClock = 3
INVARIANTS LimitsHold GuardAndServiceAgree
SYMMETRY Symmetry
