SPECIFICATION FairScanSpec
CONSTANTS
  Pids = {2, 3, 4, 5}
  Wrap = 2
  Guard = 3
INVARIANTS
  ScanTypeOK
  StableAgentIsSeen
PROPERTY
  WalkEnds
