SPECIFICATION Spec
CONSTANTS
  Facts <- MCFacts
INVARIANT
  ZeroMeansUnknownSchema
\* A run that is recorded and whose engines are gone.
CHECK_DEADLOCK FALSE
