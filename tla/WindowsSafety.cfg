SPECIFICATION FairSpec
CONSTANTS
  SharesDirectories = TRUE
  Operations <- AllOperations
  MaxEdits = 3
  MaxHolds = 2
  MaxCrashes = 2
  MaxFaults = 1
INVARIANTS
  TypeOK
  NothingLeftBehind
PROPERTIES
  FilesPreserved
  ImplementsAtomic
  Settles
\* An acknowledged, refused or lost operation is over.
CHECK_DEADLOCK FALSE
