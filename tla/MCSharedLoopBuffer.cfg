CONSTANTS
  Producer = {p1, p2}
  FCapcity = 2
  Word = 5
  ReadCounts = {1, 3}
  WriteCounts = {1, 3}
SYMMETRY MCProducers
SPECIFICATION HistorySpec
INVARIANT RingBounds
