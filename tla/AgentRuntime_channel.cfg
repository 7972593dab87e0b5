SPECIFICATION Spec
CONSTANTS
  MaxJobs = 2
  MaxAttempts = 2
  MaxCrashes = 2
  Workers = {w1, w2}
  TimeLimit = TRUE
  SelectionFlow = FALSE
  Form = form
  NoOne = none
SYMMETRY Symmetry
INVARIANTS AtMostOnePost OneTurnInFlight BlockedIsReviewed
PROPERTIES PostsInOrder PausedIsSilent ImplementsDelivery
