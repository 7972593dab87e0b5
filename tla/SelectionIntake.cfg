SPECIFICATION Spec
CONSTANTS
  Last = 3
  Options <- MCOptions
  SkipIf <- MCSkipIf
  Drawing = 3
  Form = {f1}
  Panel = {p1}
  MaxRequests = 2
  MaxRevision = 3
  MaxVersion = 2
  MaxFiles = 1
CHECK_DEADLOCK FALSE
INVARIANTS ChatIsTrue
PROPERTIES SidesAgree ConfirmationStands
