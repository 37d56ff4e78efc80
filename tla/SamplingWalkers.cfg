CONSTANTS
  Threads = {m, t1}
  MainThread = m
  EarlyThreads = {t1}
  AsyncioThreads = {t1}
  GreenletThreads = {m}
  Ids = {i1, i2}
  Walkers = {"sampler", "listener"}
  Cpu = FALSE
  MaxSessions = 2
  MaxDumps = 1
  nullptr = nullptr
SPECIFICATION FairSpec
CHECK_DEADLOCK FALSE
INVARIANTS InfoPinned CallbacksExclusive
PROPERTY
  Sampled
