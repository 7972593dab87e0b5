SPECIFICATION Spec
CONSTANTS
  Last = 3
  Options <- MCOptions
  SkipIf <- MCSkipIf
  Drawing = 3
  Form = {f1}
  Panel = {}
  MaxRequests = 1
  MaxRevision = 4
  MaxVersion = 1
  MaxFiles = 1
CHECK_DEADLOCK FALSE
INVARIANTS ConfirmedIsComplete
