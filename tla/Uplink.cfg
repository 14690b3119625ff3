CONSTANTS
  s1 = s1
  s2 = s2
  b1 = b1
  b2 = b2
  n1 = n1
  Asked <- AllAsked
  Sensors = {s1, s2}
  Addrs = {a1, a2, a3}
  Berths = {b1, b2}
  NodeIds = {n1, noNode}
  NoEntry = NoEntry
  MaxRecords = 2
  None = None
  FallbackOf <- MCFallbackOf
  NoNode = noNode
  BenchNode = bench
  MaxFlight = 1
  Faults = {"broker", "reboot", "nvs", "button", "wipe"}
SPECIFICATION Spec
INVARIANTS TypeOK PairedAsRecorded RoutedAsBackendBelieves
CHECK_DEADLOCK FALSE
SYMMETRY Symmetric
