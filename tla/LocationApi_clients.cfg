SPECIFICATION FairSpec
CONSTANTS
  c1 = c1  c2 = c2
  Clients = {c1, c2}
  Adapters = {"gnss", "geofence"}
  Narrowing = FALSE
  None = None
  MaxCalls = 2
CHECK_DEADLOCK FALSE
INVARIANTS DeletedClientIsForgotten
PROPERTIES DestroyCompletes CapabilitiesReachClient
