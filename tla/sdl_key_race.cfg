CONSTANTS
  cpu = cpu
  main = main
  peer = peer
  Threads = {cpu, main, peer}
  CPU = cpu
  Owner = main
  Nobody = Nobody
  Samples = 1
  Switches = {}
  MaxDepth = 2
  LateCalls = FALSE
  Frontends <- KeyFrontends
SPECIFICATION Spec
INVARIANTS
  InterruptExcludesCore
