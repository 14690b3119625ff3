CONSTANTS
  Reqs = {r1, r2, r3}
  Addrs = {a1, a2}
  None = None
  HandlersLocked = TRUE
  Faults = {"send", "start", "preempt"}
SPECIFICATION Spec
CHECK_DEADLOCK FALSE
INVARIANTS AnsweredOnce FlagsAgree AdoptedStays
