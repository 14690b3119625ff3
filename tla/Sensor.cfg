CONSTANTS
  MaxQueue = 3
  Faults = {"reboot", "reset", "button", "radar", "publish", "garble"}
  PROX_FRAMES = 2
  RECOVERY_THRESHOLD = 2
  PublishRounds = 1
  HoldPolls = 2
SPECIFICATION LiveSpec
INVARIANTS TypeOK ReadyMeansConfigured PublishFindsConfiguration LightIsVerdict
PROPERTIES HalfConfiguredEnds ConfiguredBecomesReady
  SilentRadarRecovers BoatIsReported HeldButtonWipes
