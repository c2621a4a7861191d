CONSTANTS
  Thread = {t1, t2}
  MaxLoop = 2
  MaxRefs = 2
SPECIFICATION HistorySpec
INVARIANTS DecoderInUse StateTellsDecoder StopClosesLive ReleasedAlone
SYMMETRY MCThreads
