CONSTANTS
  Event = {e1}
  Kinds <- MCKinds
  DayLen = 4
  UtcOffset = 1
  Word = 64
  Start = 9
  MaxNow = 39
  MaxEntries = 1
SPECIFICATION Spec
PROPERTY LeastOneSecond
