CONSTANTS
  Addrs = {a1, a2, a3}
  Berths = {b1, b2, b3}
  NodeIds = {noNode, n1}
  NoEntry = NoEntry
  NoAddr = noAddr
  NoBerth = noBerth
  NoNode = noNode
  MaxRecords = 2
  Faults = {"write", "open"}
SPECIFICATION Spec
INVARIANTS TypeOK OneRecordPerAddr OneRecordPerBerth CountsOccupied OkIsDurable
SYMMETRY Symmetric
PROPERTIES ImplementsBerthMap BootKeepsMappings
