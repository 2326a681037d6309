SPECIFICATION FairSpec
CONSTANTS
  a = a
  b = b
  c3 = c3
  wan = wan
  lan = lan
  d1 = d1
  d2 = d2
  Clients = {a, b}
  SRV = SRV
  NoQ = NoQ
  QIds = {1, 2, 3, 4, 5}
  max_msg = 1
  ClientCap = 1
  Topics = {wan}
  ALL = ALL
  EMPTY = EMPTY
  SET_LOG = SET_LOG
  Datas = {d1, d2}
  LogLevels = {}
  max_topic = 2
  NoMsg = NoMsg
  Outages = {}
  MaxServerStarts = 1
  Requests <- OverflowRequests
  Exits = {}
  MaxRequests = 4
  MaxClientStarts = 2
PROPERTY SubscribeReturns
CHECK_DEADLOCK FALSE
