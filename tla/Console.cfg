SPECIFICATION ConsoleSpec
CONSTANTS
    anna = anna bora = bora c1 = c1 c2 = c2
    Emails = {anna, bora}
    Calls = {c1, c2}
    MaxInvites = 2
    Payloads <- MCPayloads
    Requests = {r1, r2}
    MaxTokens = 3
    MaxFetches = 3
    MaxTimeouts = 1
    Texts <- MCTexts
    MaxMessages = 2
    MaxPosts = 3
    MaxFaults = 2
    GoalLists <- MCGoalLists
    Worlds <- MCWorlds
    MaxErrors = 1
    MaxSteps = 3
    MaxPages = 2
    Room = 2
SYMMETRY Symmetry
INVARIANTS ExchangedOnce PageStaysSignedIn MessageOnce WordsDecide HonestTask
PROPERTIES OwnerRemains ChangedAsReviewed
CHECK_DEADLOCK FALSE
