CONSTANTS
  Frames = {a, b, c}
  Capacities = {1, 2}
  Timely = FALSE
SPECIFICATION Spec
INVARIANTS
  CoreIsWhole
