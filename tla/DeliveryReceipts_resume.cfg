SPECIFICATION Spec
CONSTANTS
  Hooks = {h1}
  Times = {1}
  HistoryLimit = 100
  MaxReceipts = 2
  NoHook = NoHook
CHECK_DEADLOCK FALSE
PROPERTIES ProofNeverRetracted
