SPECIFICATION FairSpec
CONSTANTS
  r1 = r1
  r2 = r2
  Rejects <- TwoRejects
  MaxClaims = 2
  MaxDoubts = 2
  MaxCrashes = 2
INVARIANTS
  TypeOK
  RecordTrue
  NoStrayClaim
PROPERTIES
  ImplementsAtomic
  CardReturns
\* A proposal that was answered or deleted is over.
CHECK_DEADLOCK FALSE
