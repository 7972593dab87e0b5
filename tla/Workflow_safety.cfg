SPECIFICATION Spec
CONSTANTS
    Cards = {w1, w2}
    StartKinds = {"person", "member", "publish", "outreach", "create_template", "records"}
    Texts = {"old", "new"}
    MaxCommands = 5
    MaxRecord = 1
    MaxBatches = 2
    MaxRevision = 1
INVARIANTS
    OneOpenCard
    ApprovedIsDone
    TemplatePostedOnce
    OnlyTheReviewedBatch
SYMMETRY CardSymmetry
CHECK_DEADLOCK FALSE
