SPECIFICATION FairSpec
\* The extractions are used up, or the window is closed.
CHECK_DEADLOCK FALSE
CONSTANTS
  e1 = e1
  e2 = e2
  Extractors <- TwoExtractors
  MaxRuns = 3
INVARIANTS
  TypeOK
  OneWorker
  FreeIsReaped
PROPERTIES
  ExtractionEnds
  ClosingEnds
