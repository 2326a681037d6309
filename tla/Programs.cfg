SPECIFICATION DemoSpec
CONSTANTS
  HMX_CLIENT_1 = HMX_CLIENT_1
  HMX_CLIENT_2 = HMX_CLIENT_2
  HMX_CLIENT_3 = HMX_CLIENT_3
  HMX_CLIENT_4 = HMX_CLIENT_4
  HMX_CLIENT_5 = HMX_CLIENT_5
  wan = wan
  lan = lan
  gpon = gpon
  w0 = w0
  d1 = d1
  d2 = d2
  numbered <- OneNumbered
  text = d2
  strings <- TwoStrings
  Launches <- DemoLaunches
  Clients = {HMX_CLIENT_1, HMX_CLIENT_2, HMX_CLIENT_3, HMX_CLIENT_4, HMX_CLIENT_5}
  SRV = SRV
  NoQ = NoQ
  QIds = {1, 2, 3, 4}
  max_msg = 1
  ClientCap = 1
  Topics = {wan, lan, gpon, w0}
  ALL = ALL
  EMPTY = EMPTY
  SET_LOG = SET_LOG
  Datas = {d1, d2}
  LogLevels = {}
  max_topic = 2
  NoMsg = NoMsg
  Outages = {}
  MaxServerStarts = 1
  Requests <- ProgramRequests
  Exits = {}
  MaxRequests = 99
  MaxClientStarts = 5
INVARIANTS
  ToldStaysListed
  SharedTopicsAgree
CHECK_DEADLOCK FALSE
