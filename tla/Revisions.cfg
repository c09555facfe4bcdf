CONSTANTS
  Texts = {ta, tb}
  Editors = {e1, e2}
  Publisher = cron
  MaxIds = 3
SPECIFICATION Spec
CHECK_DEADLOCK FALSE
SYMMETRY Symmetry
INVARIANTS
  TypeOK
  CurrentIsRecorded
  CreditedIsSentOutsideWindows
PROPERTIES
  CreditStands
