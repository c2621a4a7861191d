CONSTANTS
  Thread = {t1, t2}
  MaxLoop = 2
  MaxRefs = 2
SPECIFICATION FairSpec
INVARIANTS TypeOK RunningIsServed
PROPERTY StopReturns
