SPECIFICATION Spec
CONSTANTS
  StartGrace = 4
  WrapIdle = 2
  Natural = 3
  TermGrace = 3
  KillGrace = 1
  Limits <- EveryLimit
  Codes = {0, 5, 137}
  WaitMayFail = TRUE
  MaxTime = 18
INVARIANTS
  TypeOK
  LimitIsKept
  IdleMeansIdle
\* The wait is over, or time is up.
CHECK_DEADLOCK FALSE
