SPECIFICATION FairSpec
CONSTANTS
  NWorkers = 2
  NConns = 3
  Plans <- MCPlans
  Timeout = 1
INVARIANTS TypeOK AnswersRight NothingSwallowed DeadlineWhileReading Balanced
PROPERTY Ends
CHECK_DEADLOCK FALSE
