CONSTANTS
  nullptr = nullptr
  Locations = {l1, l2}
  CodeStrings = {s1}
  StringsOf <- MCStringsOf
  TaskNames = {n1}
  GreenletNames = {n1}
  Capacity = 2
  MaxFrames = 2
  MaxExtra = 2
  MaxSessions = 2
  MaxDumps = 1
  Threads = {t1, t2}
  LastCell = 3
  MAX_CHUNK_SIZE = 3
  MaxWrites = 3
  Functions = {f1}
  max_frames = 5
  MaxDepth = 4
  PyEval_EvalFrameDefault = PyEval_EvalFrameDefault
  HANDLER = HANDLER
  TRAMPOLINE = TRAMPOLINE
  UNKNOWN_FRAME = UNKNOWN_FRAME
  Units <- MCUnits
  Deltas <- MCDeltas
  MaxRuns = 2
  Width = 16
  Values <- MCValues
  PyLong_SHIFT = 3
  MAX_DIGITS = 7
SPECIFICATION MCSpec
SYMMETRY MCSymmetry
CHECK_DEADLOCK FALSE
INVARIANTS
  TypesOK
  StackLive
  RefsDefined
  StringsDefined
  FramesFresh
  Interleaved
  
