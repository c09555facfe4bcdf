CONSTANTS
  Texts = {ta, tb}
  Editors = {e1}
  Publisher = cron
  MaxIds = 4
SPECIFICATION Spec
CHECK_DEADLOCK FALSE
INVARIANT CreditedIsSent
