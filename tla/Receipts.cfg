CONSTANTS
  Calls = {c1, c2, c3}
  Prints = {f1, f2}
SPECIFICATION Spec
SYMMETRY Symmetry
CHECK_DEADLOCK FALSE
INVARIANTS
  ExclusiveWithinLease
  ExecutesWhatItRecords
PROPERTY SettledIsFinal
