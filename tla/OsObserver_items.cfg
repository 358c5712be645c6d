SPECIFICATION ObserverSpec
CONSTANTS
  xtra = xtra  c1 = c1  c2 = c2  a = a  b = b  d = d  t1 = t1
  None = None
  Xtra = xtra
  Clients = {xtra, c1, c2}
  Networks = {a, b, d}
  Tacs = {t1}
  Mccmncs = {}
  NetworkEvents <- Events
  ItemLists <- Lists
  TableSize = 2
  MaxCalls = 3
  MaxReports = 3
  MaxQueue = 1
CHECK_DEADLOCK FALSE
INVARIANTS FrameworkServesClients ClientsAreUpToDate ConnectedIsListed
