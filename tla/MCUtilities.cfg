CONSTANTS
  FCapcity = 3
  Byte = {b0, b1}
  Longest = 4
  Counts <- MCCounts
  Inputs <- MCInputs
  Node = {n1, n2, n3}
  Value = {a, b}
  MaxCount = 4
  Event = {e1}
  Kinds <- MCKinds
  DayLen = 4
  UtcOffset = 1
  Word = 64
  Start = 9
  MaxNow = 39
  MaxEntries = 2
SPECIFICATION MCSpec
INVARIANTS RingTypeOK Accounted IteratorInList
PROPERTIES ImplementsFifo ImplementsList OnceOnly Spaced IntervalIsServed OnceADay DayIsServed
SYMMETRY MCSymmetry
