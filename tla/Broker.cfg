CONSTANTS
  WIFI_MAX_RETRY = 2
  MaxTrouble = 5
  LongOutages = FALSE
  ClientLocks = TRUE
SPECIFICATION LiveSpec
INVARIANTS ConnectedIsServed HeardHasHandler
PROPERTY GatewayComesBack
CHECK_DEADLOCK FALSE
