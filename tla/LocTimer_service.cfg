SPECIFICATION FairSpec
CONSTANTS
  t1 = t1  t2 = t2
  d1 = d1  d2 = d2  d3 = d3
  sw = sw  hw = hw
  Timers = {t1, t2}
  Wrappers = {}
  Delegates = {d1, d2}
  Containers = {sw}
  Delays = {0, 1}
  MaxTime = 1
  MaxHandles = 2
  None = None
PROPERTIES ImplementsTimerService
