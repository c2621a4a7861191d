CONSTANTS
  Client = {c1}
  Worker = {w1}
  Msg = {m1}
  CAPACITY = 2
  MaxSem = 2
SPECIFICATION FairSpec
PROPERTY StoppedThreadExits
