SPECIFICATION FairSpec
CONSTANTS
  Files <- FourFiles
  AuditFile = "memory"
  Operations <- AnyOperation
  MaxEdits = 2
  MaxCrashes = 2
  MaxFaults = 2
INVARIANTS
  TypeOK
  WholeOrNothing
  OutcomeTold
  EditsKept
PROPERTIES
  ImplementsAtomic
  RecordsEnd
\* A change that was answered or refused is over.
CHECK_DEADLOCK FALSE
