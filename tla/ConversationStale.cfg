SPECIFICATION Spec
CONSTANTS
  old = old
  new = new
  c1 = c1
  c2 = c2
  c3 = c3
  Ids <- TwoIds
  Initial <- OldOnly
  Calls <- ThreeCalls
  MaxFailures = 0
  MaxCrashes = 0
INVARIANTS
  NeverStale
\* All the calls may have been made.
CHECK_DEADLOCK FALSE
