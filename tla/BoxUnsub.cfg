SPECIFICATION OlderSpec
CONSTANTS
  mqa = mqa
  mqb = mqb
  send1 = send1
  send2 = send2
  other = other
  echo = echo
  wan = wan
  lan = lan
  d1 = d1
  d2 = d2
  Garbage = {"answer", "other"}
  Casts <- StopCasts
  Clients = {mqa, mqb, send1, send2, other, echo}
  SRV = SRV
  NoQ = NoQ
  QIds = {1, 2, 3, 4, 5, 6}
  max_msg = 1
  ClientCap = 1
  Topics = {wan, lan}
  ALL = ALL
  EMPTY = EMPTY
  SET_LOG = SET_LOG
  Datas = {d1, d2}
  LogLevels = {}
  max_topic = 2
  NoMsg = NoMsg
  Outages = {}
  MaxServerStarts = 1
  Requests <- OtherRequests
  Exits = {"close", "sigint"}
  MaxRequests = 6
  MaxClientStarts = 3
PROPERTY UnsubcribeRemovesOwn
CHECK_DEADLOCK FALSE
