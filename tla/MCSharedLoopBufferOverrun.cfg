CONSTANTS
  Producer = {p1}
  FCapcity = 3
  Word = 7
  ReadCounts = {2}
  WriteCounts = {1, 2}
SPECIFICATION HistorySpec
INVARIANT ReadWithinRequest
