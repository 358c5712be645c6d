SPECIFICATION MCSpec
CONSTANTS
  h1 = h1  h2 = h2  agnss = agnss  internet = internet
  Handles = {h1, h2}
  Nifs = {agnss, internet}
  Faults = {"badApn", "closeFails"}
  MaxInFlight = 3
  NoArg = NoArg
CONSTRAINT NotRaced
INVARIANTS AtlAgreement
PROPERTIES GoodApnsRequestIsAnswered AtlReleaseIsConfirmed
