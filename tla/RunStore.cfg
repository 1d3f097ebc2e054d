SPECIFICATION Spec
CONSTANTS
  p1 = p1
  p2 = p2
  Procs = {p1, p2}
  Clients = {c1, c2}
  Ops = {"latest", "prune"}
  Suffixes = 2
  Draws <- OverlappingDraws
  MaxRetries = 1
  Keep = 1
  OldRuns = {0}
  MaxClock = 2
  MaxActors = 3
  MaxSaves = 1
INVARIANTS
  TypeOK
  ListIsComplete
  LatestIsRecent
PROPERTIES
  ClosedRecordKept
  PruneSparesNewest
\* The runs are made and the clients are done: nothing is left to do.
CHECK_DEADLOCK FALSE
