SPECIFICATION Spec
CONSTANTS
  Files <- FourFiles
  AuditFile = "memory"
  Operations <- Backup
  MaxEdits = 0
  MaxCrashes = 1
  MaxFaults = 0
INVARIANTS
  OneVerdict
\* A change that was answered or refused is over.
CHECK_DEADLOCK FALSE
