SPECIFICATION Spec
CONSTANTS
  c1 = c1
  Clients = {c1}
  None = None
  Width = 16
  Bounds <- MCBounds
INVARIANTS BatchFullIsReported PlainSessionsAreServed TripsAreServed
INVARIANTS NoTripEndsEarly AcceptedIsAnswered
CHECK_DEADLOCK FALSE
