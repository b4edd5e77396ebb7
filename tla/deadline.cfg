SPECIFICATION Spec
CONSTANTS
  NWorkers = 1
  NConns = 2
  Plans <- MCSilent
  Timeout = 1
INVARIANT DeadlineArmed
CHECK_DEADLOCK FALSE
