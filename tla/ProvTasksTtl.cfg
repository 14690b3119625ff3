CONSTANTS
  Reqs = {r1, r2}
  Addrs = {a1, a2}
  None = None
  HandlersLocked = TRUE
  Faults = {"ttl"}
SPECIFICATION Spec
CHECK_DEADLOCK FALSE
INVARIANT CbFiresOnce
