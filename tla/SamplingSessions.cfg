CONSTANTS
  Threads = {m, t1, t2}
  MainThread = m
  EarlyThreads = {}
  AsyncioThreads = {t1}
  GreenletThreads = {}
  Ids = {i1, i2, i3}
  Walkers = {"sampler"}
  Cpu = TRUE
  MaxSessions = 2
  MaxDumps = 0
  nullptr = nullptr
SPECIFICATION Spec
CHECK_DEADLOCK FALSE
INVARIANTS
  
  
  StacksOfThread
  PassComplete
