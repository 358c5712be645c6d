SPECIFICATION Spec
CONSTANTS
  m1 = m1  m2 = m2  m3 = m3
  Msgs = {m1, m2, m3}
  None = None
CHECK_DEADLOCK FALSE
INVARIANTS DestroyHasTask
