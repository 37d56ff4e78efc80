CONSTANTS
  Samplers = {s1, s2, s3}
  Modes = {"stealth"}
  WhereModes = {TRUE, FALSE}
  MaxWakeups = 2
  nullptr = nullptr
SPECIFICATION StealthSpec
CHECK_DEADLOCK FALSE
INVARIANT
  SingleSession
PROPERTIES
  ImplementsSession
  StopReturnsOrLostWakeup
