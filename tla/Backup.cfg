SPECIFICATION Spec
CONSTANTS
  Limit = 3
  TermPause = 1
  ReapGrace = 2
  WaitMayFail = TRUE
  MaxTime = 16
INVARIANTS
  TypeOK
  LimitIsKept
  OneAtATime
  TimelySuccessCounts
\* The backup is over.
CHECK_DEADLOCK FALSE
