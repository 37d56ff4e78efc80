CONSTANTS
  Threads = {t1, t2}
  Addresses = {a1, a2}
  Stacks = {s1, s2}
  Sizes = {1, 2}
  NonAscii = {}
  Untracked = {}
  Stealth = TRUE
  RawFrees = TRUE
  ReallocFails = FALSE
  MaxSessions = 1
  FaultyNames = {s2}
  FaultyThreads = {t2}
  FaultySessions = 2
  stopper = stopper
  nullptr = nullptr
SPECIFICATION MCSpec
INVARIANTS
  RetrieveSafe TrackedLive 
PROPERTIES AllocationReturnsWithoutFaults
CHECK_DEADLOCK FALSE
