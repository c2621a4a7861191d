SPECIFICATION Spec
CONSTANTS
  Player = {p1, p2}
  Radio = {r1}
  None = None
  Params = {cd, speech}
  MaxPaused = 3
INVARIANTS TypeOK OnlyOneActive Attachment RacedWaits Heard
PROPERTY ImplementsStack
