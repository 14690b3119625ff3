CONSTANTS
  MaxQueue = 3
  Faults = {}
  PROX_FRAMES = 1
  RECOVERY_THRESHOLD = 2
  PublishRounds = 1
  HoldPolls = 2
SPECIFICATION Spec
PROPERTY WatchdogFindsUnfinished
