CONSTANTS
  Frames = {a, b, c}
  Capacities = {1, 2}
  Timely = TRUE
SPECIFICATION Spec
INVARIANTS
  SlotsInRange
  CoreIsWhole
PROPERTIES
  ImplementsStack
  DeinitReturns
