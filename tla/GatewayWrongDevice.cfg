CONSTANTS
  d1 = d1
  d2 = d2
  b1 = b1
  n1 = n1
  DeviceOf = {p1}
  BareReqs = {}
  Devices = {d1, d2}
  Addrs = {a1, a2}
  None = None
  MaxQueue = 3
  Faults = {}
  Berths = {b1}
  NodeIds = {n1}
  NoEntry = NoEntry
  MaxRecords = 2
  ProvReqs = {p1, p2}
  DecomReqs = {}
  ReqDev <- MCReqDev
  ReqEntry <- MCReqEntry
  NoReq = NoReq
  CFG_MAX_ATTEMPTS = 2
  DECOM_MAX_ATTEMPTS = 2
  BadReqs = {}
  MaxDeliveries = 1
  OneAtATime = FALSE
SPECIFICATION Spec
PROPERTIES OkNamesRequestedDevice
CHECK_DEADLOCK FALSE
