CONSTANTS
  cpu = cpu
  main = main
  peer = peer
  Threads = {cpu, main, peer}
  CPU = cpu
  Owner = main
  Nobody = Nobody
  Samples = 1
  Switches = {}
  MaxDepth = 2
  LateCalls = FALSE
  Frontends <- AllFrontends
SPECIFICATION Spec
INVARIANTS
  InterruptExcludesCore
  StoppedStatesAreReal
  NoLostWakeup
  InterruptionsEnd
  SyncAsAsked
  PausedDisplayIsFree
  PromptHolds
  NoClientForgotten
PROPERTIES
  FunctionRunsOnce
