SPECIFICATION Spec
CONSTANTS
  o1 = o1
  adm = adm
  crea = crea
  wrk = wrk
  oth = oth
  r1 = r1
  r2 = r2
  r3 = r3
  r4 = r4
  Nobody = Nobody
  NoRequest = NoRequest
  Omitted = Omitted
  Users <- MCUsers
  Orders <- MCOrders
  Requests <- FourRequests
  Calls <- LifeCalls
  Blockable <- NoBlocks
SYMMETRY Symmetry
INVARIANTS GuardedOrOvertaken NoOrphanEntries OldValueOrOvertaken
PROPERTIES ImplementsHistory
