SPECIFICATION FairSpec
CONSTANTS
  MaxJobs = 2
  MaxAttempts = 1
  MaxCrashes = 1
  Workers = {w1}
  TimeLimit = TRUE
  SelectionFlow = FALSE
  Form = form
  NoOne = none
PROPERTIES
  EveryTurnSettles
