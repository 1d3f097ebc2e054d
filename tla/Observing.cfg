SPECIFICATION Spec
CONSTANTS
  Facts <- MCFacts
INVARIANTS
  TypeOK
  CleanStopIsCounted
PROPERTY
  ReportKeepsRecord
\* A run that is recorded and whose engines are gone.
CHECK_DEADLOCK FALSE
