CONSTANTS
  cpu = cpu
  display = display
  Threads = {cpu, display}
  CPU = cpu
  Nobody = Nobody
  Samples = 2
  Switches = {"videoFrameWait", "videoFrameOn", "audioWait"}
SPECIFICATION SyncSpec
INVARIANTS
  NeverBothAsleep
  SleepsOnlyWhenFull
PROPERTIES
  NoFrameLostForLong
  FramesAreTaken
  CpuGoesOn
