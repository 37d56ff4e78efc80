CONSTANTS
  Threads = {t1, t2}
  Addresses = {a1, a2}
  Stacks = {s1, s2}
  Sizes = {1}
  NonAscii = {}
  Untracked = {t2}
  Stealth = TRUE
  RawFrees = FALSE
  ReallocFails = FALSE
  MaxSessions = 1
  stopper = stopper
  nullptr = nullptr
SPECIFICATION FairSpec
CHECK_DEADLOCK FALSE
PROPERTY
  AllocationReturns
