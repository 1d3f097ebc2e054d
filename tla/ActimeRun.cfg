SPECIFICATION FairSpec
CONSTANTS
  Rules = {r1}
  Modes = {"off", "observe", "enforce"}
  SaveOutcomes = {"ok"}
  EngineFailures = {"loud", "quiet"}
  PollMayFail = FALSE
  AgentCodes = {0, 5}
INVARIANTS
  TypeOK
  FailClosed
  LoudFailureDemoted
  NoEngineLeftBehind
PROPERTIES
  AgentEndsRunEnds
  LimitEndsRun
\* The run is over: nothing is left to do.
CHECK_DEADLOCK FALSE
