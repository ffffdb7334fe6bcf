CONSTANTS
  Video = Video
  IRQ = IRQ
  Timer = Timer
  Dma = Dma
  Nil = Nil
  Width = 4
  Line = 4
  Reload = 3
  IrqDelay = 1
  DmaDelay = 1
  Unit = 1
  Words = 1
  Lengths = {1, 2}
  IrqLength = 1
  Sessions <- LoadedSessions
  SavedStates <- TimingStates
SPECIFICATION Spec
INVARIANTS
  OnTime
