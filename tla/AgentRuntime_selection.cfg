SPECIFICATION Spec
CONSTANTS
  MaxJobs = 2
  MaxAttempts = 1
  MaxCrashes = 1
  Workers = {w1, w2}
  TimeLimit = TRUE
  SelectionFlow = TRUE
  Form = form
  NoOne = none
SYMMETRY Symmetry
PROPERTIES NoPostAfterStop
