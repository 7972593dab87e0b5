SPECIFICATION Spec
CONSTANTS
  MaxJobs = 1
  MaxAttempts = 2
  MaxCrashes = 0
  Workers = {w1}
  TimeLimit = TRUE
  SelectionFlow = TRUE
  Form = form
  NoOne = none
PROPERTIES
  StopIsTerminal
