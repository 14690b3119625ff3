CONSTANTS
  MaxQueue = 3
  Faults = {"reboot-in-cfg"}
  PROX_FRAMES = 1
  RECOVERY_THRESHOLD = 2
  PublishRounds = 1
  HoldPolls = 2
SPECIFICATION LiveSpec
PROPERTY HalfConfiguredEndsAfterCuts
