SPECIFICATION Spec
CONSTANTS
  c1 = c1  c2 = c2
  MaxSessions = 3
  Clients = {c1, c2}
  Owner <- MCOwner
  Listeners = {c1, c2}
  MaxHasty = 3
  TimeOptions <- MCTimeOptions
  Distance = Distance
  None = None
  Faults = {"timeRefused", "clientRemoved"}
  MaxCommands = 4
  MaxRestarts = 2
CHECK_DEADLOCK FALSE
INVARIANTS AnswersMatchCommands TimeSessionsAreServed NoSessionNoFix DistanceSessionsAreServed StoppedSessionIsGone
