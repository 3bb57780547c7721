SPECIFICATION FairSpec
CONSTANTS
  Operations <- AllOperations
  MaxEdits = 3
  MaxCrashes = 2
  MaxFaults = 1
INVARIANTS
  TypeOK
  VerdictHonest
  NothingLeftBehind
PROPERTIES
  OriginalPreserved
  OutsiderDataPreserved
  DecisionFinal
  ImplementsAtomic
  Settles
\* An acknowledged, refused or lost operation is over.
CHECK_DEADLOCK FALSE
