SPECIFICATION Spec
CONSTANTS
  c1 = c1  c2 = c2
  MaxSessions = 2
  Clients = {c1, c2}
  Owner <- MCOwner
  Listeners = {c1, c2}
  MaxHasty = 4
  TimeOptions <- MCTimeOptions
  Distance = Distance
  None = None
  Faults = {}
  MaxCommands = 4
  MaxRestarts = 2
CHECK_DEADLOCK FALSE
INVARIANTS StopEndsSession
