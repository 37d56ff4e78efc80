CONSTANTS
  Threads = {m, t1}
  MainThread = m
  EarlyThreads = {}
  AsyncioThreads = {t1}
  GreenletThreads = {}
  Ids = {i1, i2}
  Walkers = {"sampler", "listener"}
  Cpu = FALSE
  MaxSessions = 1
  MaxDumps = 1
  nullptr = nullptr
SPECIFICATION Spec
CHECK_DEADLOCK FALSE
INVARIANT
  StacksOfThread
