CONSTANTS
  cpu = cpu
  main = main
  peer = peer
  Threads = {cpu, main}
  CPU = cpu
  Owner = main
  Nobody = Nobody
  Samples = 1
  Switches = {}
  MaxDepth = 1
  LateCalls = FALSE
  Frontends <- EndingFrontends
SPECIFICATION FairSpec
PROPERTIES
  EndIsFinal
  CallsReturn
  ThreadEnds
