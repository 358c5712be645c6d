SPECIFICATION MCSpec
CONSTANTS
  h1 = h1  h2 = h2  agnss = agnss  internet = internet
  Handles = {h1, h2}
  Nifs = {agnss}
  Faults = {}
  MaxInFlight = 5
  NoArg = NoArg
INVARIANTS ReleasedConnectionIsClosed
