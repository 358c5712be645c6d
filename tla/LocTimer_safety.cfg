SPECIFICATION Spec
CONSTANTS
  t1 = t1  t2 = t2
  d1 = d1  d2 = d2  d3 = d3
  sw = sw  hw = hw
  Timers = {t1, t2}
  Wrappers = {t2}
  Delegates = {d1, d2, d3}
  Containers = {sw}
  Delays = {1, 2}
  MaxTime = 2
  MaxHandles = 2
  None = None
CHECK_DEADLOCK FALSE
SYMMETRY DelegateSymmetry
INVARIANTS FreedDelegateIsForgotten NoLostWakeup NoDelegateOfDeadTimer NoWrapperIsLeaked
