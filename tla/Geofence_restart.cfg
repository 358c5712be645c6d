SPECIFICATION FairSpec
CONSTANTS
  c1 = c1  m1 = m1  m2 = m2
  Clients = {c1}
  Masks = {m1}
  NewMask = m2
  HwIds = {1, 2}
  None = None
  EarlyCalls = FALSE
  ReusesIds = FALSE
  MaxCount = 2
  MaxEvents = 2
  MaxRestarts = 1
CHECK_DEADLOCK FALSE
INVARIANTS MapsAgree ModemAgrees GeofencesSurvive BreachIsOfItsGeofence
PROPERTIES CommandIsAnswered
