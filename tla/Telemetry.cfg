CONSTANTS
  GATE_COUNT = 2
  MAX_FRAME = 40
  FIFO_CAP = 4
  Reports <- MCReports
  Bare <- MCBare
  NoiseBytes = {30, 241}
  Stamp = 305419896
  MaxDamage = 2
  NoSample = NoSample
  NodeId = 7
  PinVolts = {1850}
  Nothing = Nothing
SPECIFICATION Spec
INVARIANTS TypeOK FaultsCostOneWindow PublishedAsMeasured
PROPERTY SampleIsLatest
