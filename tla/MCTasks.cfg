CONSTANTS
  Tasks = {t1, t2, t3}
  Loops = {main_loop}
  Programs <- MCPrograms
  Threads = {th1}
  Greenlets = {g1, g2, g3}
  MaxSpawns = 2
  MaxJoins = 2
  IgnoreIdle = FALSE
  MAX_GREENLET_DEPTH = 3
  FRAME_NOT_SET = FRAME_NOT_SET
  Py_None = Py_None
  nullptr = nullptr
SPECIFICATION MCSpec
INVARIANTS
  TypesOK AllRendered 
PROPERTIES LinksKept ReadsLiveFrames WalksEnd
CHECK_DEADLOCK FALSE
