CONSTANTS
  Sender = {s1, s2}
  Lens = {1, 3}
  Shortest = 1
  HeaderLen = 2
  PipeSize = 3
  MaxFrames = 3
  Env = {"readFails", "writeFails"}
SPECIFICATION FairSpec
PROPERTIES ImplementsChannel EveryFrameArrives
CHECK_DEADLOCK FALSE
