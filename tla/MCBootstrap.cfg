CONSTANTS
  Samplers = {s1, s2}
  Modes = {"stealth", "plain"}
  WhereModes = {TRUE, FALSE}
  MaxWakeups = 2
  nullptr = nullptr
  Strings = {n1, n2}
  ForkSamplers = {s1, s2, s3}
  MaxStarts = 2
  MaxForks = 2
  Modules = {asyncio, gevent}
  Gevent = gevent
SPECIFICATION MCSpec
INVARIANTS
  TypesOK StoppedMeansStopped SingleSampler  
PROPERTIES FairSessionEnds 
CHECK_DEADLOCK FALSE
