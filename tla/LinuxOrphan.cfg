SPECIFICATION FairSpec
CONSTANTS
  Operations <- AllOperations
  MaxEdits = 0
  MaxCrashes = 2
  MaxFaults = 0
PROPERTIES
  PreparedRecordsCleaned
CHECK_DEADLOCK FALSE
