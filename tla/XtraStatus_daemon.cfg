SPECIFICATION FairSpec
CONSTANTS
  xtra = xtra  a = a  t1 = t1
  None = None
  Xtra = xtra
  Clients = {xtra}
  Networks = {a}
  Tacs = {t1}
  Mccmncs = {}
  NetworkEvents <- OneNetwork
  ItemLists = {}
  Locks = {"open"}
  TableSize = 2
  MaxCalls = 0
  MaxReports = 2
  MaxQueue = 2
  MaxUpdates = 1
  MaxStarts = 1
CHECK_DEADLOCK FALSE
INVARIANTS DaemonIsUpToDate
PROPERTIES DaemonIsInformed
