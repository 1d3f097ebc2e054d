SPECIFICATION Spec
CONSTANTS
  Violations = {v1, v2, v3}
  Layouts = {"scoped", "direct"}
  Polls = 2
  Foreign = foreign
INVARIANTS
  TypeOK
  FlushedIsComplete
  FeedbackStandsIn
\* The violations have been counted: nothing is left to do.
CHECK_DEADLOCK FALSE
