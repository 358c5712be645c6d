SPECIFICATION Spec
CONSTANTS
  t1 = t1  t2 = t2
  d1 = d1  d2 = d2  d3 = d3
  sw = sw  hw = hw
  Timers = {t1, t2}
  Wrappers = {}
  Delegates = {d1, d2}
  Containers = {sw}
  Delays = {1}
  MaxTime = 2
  MaxHandles = 2
  None = None
CHECK_DEADLOCK FALSE
INVARIANT OnlyDueTimersArePopped
