SPECIFICATION FairSpec
CONSTANTS
  Versions = {1, 2}
  MaxDownloads = 3
  MaxFaults = 1
  MaxCrashes = 1
INVARIANTS
  TypeOK
  LeftoversBounded
  OfferHolds
PROPERTIES
  InstallerRetained
  RecordKept
  StartSettles
