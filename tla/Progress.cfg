SPECIFICATION FairSpec
CONSTANTS
  a = a
  b = b
  c3 = c3
  wan = wan
  lan = lan
  d1 = d1
  d2 = d2
  Clients = {a, b}
  SRV = SRV
  NoQ = NoQ
  QIds = {1, 2, 3, 4, 5, 6}
  max_msg = 1
  ClientCap = 1
  Topics = {wan}
  ALL = ALL
  EMPTY = EMPTY
  SET_LOG = SET_LOG
  Datas = {d1, d2}
  LogLevels = {d1}
  max_topic = 2
  NoMsg = NoMsg
  Outages = {}
  MaxServerStarts = 1
  Requests <- ProgressRequests
  Exits = {"crash"}
  MaxRequests = 3
  MaxClientStarts = 2
PROPERTIES
  HandlerReturns
  SenderUnblocked
CHECK_DEADLOCK FALSE
INVARIANT TypeOK
