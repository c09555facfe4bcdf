CONSTANTS
  planned = planned
  other = other
  replacement = replacement
  Operations = {a, b, replacement}
  Sources <- MCSources
  SourceOf <- MCSourceOf
  Calls = {c1, c2}
  MaxPosts = 2
  MaxSubmits = 2
  MaxRepairs = 1
  MaxDeletions = 1
SPECIFICATION Spec
CHECK_DEADLOCK FALSE
SYMMETRY Symmetry
INVARIANTS
  TypeOK
  OnePostPerSlot
  PersistedStaysLinked
  LineupAndHypothesisAgree
PROPERTIES
  LockedHypothesisStands
  PersistedIsComplete
