SPECIFICATION BackgroundSpec
CONSTANTS
    Batches = {b1, b2}
    Phones = {p1, p2}
    Workers = {worker}
    Operators = {o1, o2}
    Hooks = {}
    Cap = 1
    MaxCrashes = 1
    NoOne = NoOne
    Requests = {q1, q2}
    Replies = {r1}
    Keys = {k1, k2}
    MaxDeaths = 1
    Cards = {card}
    StartKinds = {"outreach", "create_template"}
    Texts = {"text"}
    MaxCommands = 5
    MaxRecord = 0
    MaxBatches = 1
    MaxRevision = 2
    Raws <- MCRaws
    Tasks = {t1, t2}
    MaxKills = 1
    Bar = 80
INVARIANTS CapHolds HonestReplies
PROPERTIES EverySendSettles PostedAlone RequestsEnd BackgroundSettles
CHECK_DEADLOCK FALSE
