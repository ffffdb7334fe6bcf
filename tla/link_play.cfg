CONSTANTS
  N = 3
  Data = {"a"}
  Increment = 2
  Step = 2
  Rest = 2
  MaxLate = 1
  MaxPosted = 4
  Sessions <- CableSessions
SPECIFICATION FairSpec
INVARIANTS
  NeverAhead
  WaitersAreKnown
  NoAbort
  WaitIsAnswered
PROPERTIES
  TransfersAgree
  TransferEnds
  SlaveGoesOn
CHECK_DEADLOCK FALSE
