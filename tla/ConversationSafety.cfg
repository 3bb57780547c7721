SPECIFICATION FairSpec
CONSTANTS
  old = old
  new = new
  c1 = c1
  c2 = c2
  c3 = c3
  Ids <- TwoIds
  Initial <- OldOnly
  Calls <- ThreeCalls
  MaxFailures = 1
  MaxCrashes = 1
INVARIANTS
  TypeOK
  ChangesKept
  ShownIsStored
  ManualTitleKept
PROPERTIES
  QueueMoves
\* All the calls may have been made.
CHECK_DEADLOCK FALSE
