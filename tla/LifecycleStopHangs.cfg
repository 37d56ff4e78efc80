CONSTANTS
  Samplers = {s1}
  Modes = {"stealth"}
  WhereModes = {FALSE}
  MaxWakeups = 0
  nullptr = nullptr
SPECIFICATION FairSpec
CHECK_DEADLOCK FALSE
PROPERTY
  StopReturns
