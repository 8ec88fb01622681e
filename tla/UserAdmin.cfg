SPECIFICATION Spec
CONSTANTS
  ann = ann
  bob = bob
  r1 = r1
  r2 = r2
  e1 = e1
  e2 = e2
  NoValue = NoValue
  Users <- TwoUsers
  Emails = {e1, e2}
  Requests = {r1, r2}
  InitialTables <- TwoTables
  NewRoles = {"ADMIN", "WORKER"}
INVARIANTS LastAdminFallsToAFallen ConflictsAreReal
PROPERTY DemotionReachesClaims
CHECK_DEADLOCK FALSE
