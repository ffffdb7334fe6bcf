CONSTANTS
  N = 3
  Data = {"a"}
  Increment = 2
  Step = 2
  Rest = 2
  MaxLate = 1
  MaxPosted = 4
  Sessions <- StoppedSessions
SPECIFICATION Spec
INVARIANTS
  ToldToContinue
CHECK_DEADLOCK FALSE
