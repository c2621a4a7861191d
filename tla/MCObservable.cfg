CONSTANTS
  Node = {n1, n2, n3, n4}
  Value = {o1, o2, o3}
  MaxCount = 4
  SelfDelete = FALSE
SPECIFICATION ObservableSpec
INVARIANT NotifySafe
PROPERTY ToldOnce
SYMMETRY MCSymmetry
