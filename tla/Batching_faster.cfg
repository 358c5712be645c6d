SPECIFICATION Spec
CONSTANTS
  c1 = c1
  Clients = {c1}
  None = None
  Width = 16
  Bounds <- Faster
INVARIANTS DistanceSoFarIsRecorded
CHECK_DEADLOCK FALSE
