SPECIFICATION FairSpec
CONSTANTS
  Rules = {r1}
  Modes = {"off", "observe", "enforce"}
  SaveOutcomes = {"ok", "refused", "torn"}
  EngineFailures = {"loud", "quiet"}
INVARIANTS
  TypeOK
  RefusedMeansNotJoined
  NothingLeftAttached
PROPERTIES
  RecordRefinement
  TargetEndsAttach
\* The attach is over: nothing is left to do.
CHECK_DEADLOCK FALSE
