SPECIFICATION FairSpec
CONSTANTS
  \* NTFS applies share modes to directories.
  SharesDirectories = FALSE
  Operations <- AllOperations
  MaxEdits = 0
  MaxHolds = 0
  MaxCrashes = 0
  MaxFaults = 0
PROPERTY QuietProposalApplied
CHECK_DEADLOCK FALSE
