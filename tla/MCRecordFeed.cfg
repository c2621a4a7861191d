CONSTANTS
  FCapcity = 3
  FrameLen = 2
  Env = {"openFails"}
  Handle = {h1, h2, h3}
  Period = {1, 2}
  DeviceEnv = {}
  Kilo = 100
  Word = 32768
  Freq = {8, 16, 19}
  Caps = {"low", "plain"}
  TunerEnv = {}
  Line <- MCLine
  bufsize = 4
  PipeSize = 4
  MaxLines = 3
  LineEnv = {"short", "readFails"}
SPECIFICATION MCSpec
INVARIANTS MCTypeOK RingThere OpenIsReady FreqKept
PROPERTIES NoLateFrame CallReturns StreamGoesOn LinesArrive
CHECK_DEADLOCK FALSE
