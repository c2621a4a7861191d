CONSTANTS
  Client = {c1, c2}
  Worker = {w1, w2}
  Msg = {m1, m2, m3, m4}
  CAPACITY = 2
  MaxSem = 4
SPECIFICATION FairSpec
INVARIANTS TypeOK SemCoversQueue OneOwner
PROPERTY EveryMessageLeaves
