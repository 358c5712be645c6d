SPECIFICATION Spec
CONSTANTS
  Requests = {r1, r2}
  None = None
  UserResponses = {"accept", "deny"}
  SuplEs = TRUE
  CpMtlrEs = TRUE
  MaxReplies = 2
CHECK_DEADLOCK FALSE
INVARIANTS PayloadIsDisposedOnce HeldRequestIsAwaited AcceptNeedsConsent
PROPERTIES HeldRequestIsSettled
