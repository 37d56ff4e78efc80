CONSTANTS
  Threads = {m, t1}
  MainThread = m
  TableUsers = {t1}
  MaxSessions = 1
  Pages = {p1}
  Copiers = {sampler, where_listener}
  Cells = 2
  BufferSize = 1
  MaxMaps = 2
  Addresses = {a1, a2, a3}
  MaxBorn = 3
  MaxWalks = 2
  nullptr = nullptr
SPECIFICATION MCSpec
INVARIANTS
  TypesOK StacksOfTarget SignalsHandled CopiesSafe CallsBackAll
 
CHECK_DEADLOCK FALSE
