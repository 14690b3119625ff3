CONSTANTS
  Addrs = {a1, a2}
  Berths = {b1, b2}
  NodeIds = {noNode, n1}
  NoEntry = NoEntry
  NoAddr = noAddr
  NoBerth = noBerth
  NoNode = noNode
  MaxRecords = 2
  Faults = {"read"}
SPECIFICATION Spec
PROPERTY BootKeepsMappings
