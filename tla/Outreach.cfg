SPECIFICATION OutreachSpec
CONSTANTS
    Batches = {b1, b2}
    Phones = {p1}
    Workers = {w1, w2}
    Operators = {o1}
    Hooks = {h1}
    Cap = 2
    MaxCrashes = 1
    NoOne = NoOne
    Raws <- MCRaws
    Tasks = {t1, t2}
    MaxKills = 1
    Bar = 80
    Callers = {c1, c2}
    Times = {1, 2}
    HistoryLimit = 2
    MaxReceipts = 3
SYMMETRY Interchangeable
CONSTRAINT Unraced
INVARIANTS AtMostOnePost OneSendPerPhone CleanLeads ReceiptsAreEvidence
PROPERTIES NoPostAfterStop NoPostAfterCancel
CHECK_DEADLOCK FALSE
