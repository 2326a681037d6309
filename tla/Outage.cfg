SPECIFICATION Spec
CONSTANTS
  a = a
  b = b
  c3 = c3
  wan = wan
  lan = lan
  d1 = d1
  d2 = d2
  Clients = {a, b}
  SRV = SRV
  NoQ = NoQ
  QIds = {1, 2, 3, 4, 5, 6, 7, 8}
  max_msg = 1
  ClientCap = 1
  Topics = {wan}
  ALL = ALL
  EMPTY = EMPTY
  SET_LOG = SET_LOG
  Datas = {d1}
  LogLevels = {}
  max_topic = 1
  NoMsg = NoMsg
  Outages = {"sigint", "kill"}
  MaxServerStarts = 2
  Requests <- OutageRequests
  Exits = {"close", "crash"}
  MaxRequests = 4
  MaxClientStarts = 3
INVARIANTS
  MonitorTracksQueue
  RoomAfterEvict
CHECK_DEADLOCK FALSE
