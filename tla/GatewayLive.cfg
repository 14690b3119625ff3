CONSTANTS
  d1 = d1
  d2 = d2
  b1 = b1
  n1 = n1
  DeviceOf = {p1, p2}
  BareReqs = {p2}
  Devices = {d1}
  Addrs = {a1}
  None = None
  MaxQueue = 2
  Faults = {"delete", "start", "nvs", "refuse", "leave", "reboot"}
  Berths = {b1}
  NodeIds = {n1}
  NoEntry = NoEntry
  MaxRecords = 2
  ProvReqs = {p1, p2}
  DecomReqs = {q1}
  ReqDev <- MCReqDev
  ReqEntry <- MCReqEntry
  NoReq = NoReq
  CFG_MAX_ATTEMPTS = 2
  DECOM_MAX_ATTEMPTS = 2
  BadReqs = {}
  MaxDeliveries = 1
  OneAtATime = FALSE
SPECIFICATION LiveSpec
INVARIANTS TypeOK FlowAgreement OneAnswerEach
PROPERTIES EveryAdoptionEnds EveryDecommissionEnds
CHECK_DEADLOCK FALSE
