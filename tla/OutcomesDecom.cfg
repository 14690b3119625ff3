CONSTANTS
  d1 = d1
  d2 = d2
  b1 = b1
  n1 = n1
  DeviceOf = {p1, p2}
  BareReqs = {p1, p2}
  Devices = {d1}
  Addrs = {a1}
  None = None
  MaxQueue = 2
  Faults = {"leave", "delete"}
  Berths = {b1}
  NodeIds = {n1}
  NoEntry = NoEntry
  MaxRecords = 2
  ProvReqs = {p1, p2}
  DecomReqs = {q1, q2}
  ReqDev <- MCReqDev
  ReqEntry <- MCReqEntry
  NoReq = NoReq
  CFG_MAX_ATTEMPTS = 1
  DECOM_MAX_ATTEMPTS = 2
  BadReqs = {}
  MaxDeliveries = 1
  OneAtATime = FALSE
SPECIFICATION HSpec
PROPERTIES DecomOkWipedNode
CHECK_DEADLOCK FALSE
