SPECIFICATION Spec
CONSTANTS
  r1 = r1
  r2 = r2
  Rejects <- TwoRejects
  MaxClaims = 2
  MaxDoubts = 1
  MaxCrashes = 1
INVARIANTS
  ReceiptSettled
\* A proposal that was answered or deleted is over.
CHECK_DEADLOCK FALSE
