SPECIFICATION Spec
CONSTANTS
  a = a
  b = b
  c3 = c3
  wan = wan
  lan = lan
  d1 = d1
  d2 = d2
  Clients = {a, b}
  SRV = SRV
  NoQ = NoQ
  QIds = {1, 2, 3, 4, 5, 6}
  max_msg = 2
  ClientCap = 2
  Topics = {wan, lan}
  ALL = ALL
  EMPTY = EMPTY
  SET_LOG = SET_LOG
  Datas = {d1}
  LogLevels = {}
  max_topic = 2
  NoMsg = NoMsg
  Outages = {}
  MaxServerStarts = 1
  Requests <- DropRequests
  Exits = {}
  MaxRequests = 6
  MaxClientStarts = 2
INVARIANTS
  DeleteIndexesFresh
  DeletesSucceed
  PurgedHaveNoRows
  OneMonitorEntryPerClient
  MonitorTracksQueue
CHECK_DEADLOCK FALSE
PROPERTY ImplementsService
