SPECIFICATION Spec
CONSTANTS
  Rules = {r1}
  Modes = {"enforce"}
  SaveOutcomes = {"ok"}
  EngineFailures = {"quiet"}
  PollMayFail = FALSE
  AgentCodes = {0, 5}
INVARIANT
  ActiveMeansInstalled
\* The run is over: nothing is left to do.
CHECK_DEADLOCK FALSE
