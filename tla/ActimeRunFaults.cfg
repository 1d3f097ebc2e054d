SPECIFICATION Spec
CONSTANTS
  Rules = {r1, r2}
  Modes = {"off", "observe", "enforce"}
  SaveOutcomes = {"ok", "refused", "torn"}
  EngineFailures = {"loud", "quiet"}
  PollMayFail = TRUE
  AgentCodes = {5}
SYMMETRY RuleSymmetry
INVARIANTS
  RefusalIsAudited
  ExitMeansRecorded
PROPERTY
  RecordRefinement
\* The run is over: nothing is left to do.
CHECK_DEADLOCK FALSE
