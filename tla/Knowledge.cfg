SPECIFICATION KnowledgeSpec
CONSTANTS
    Operators = {o1}
    MaxVersions = 3
    MaxContents = 2
    Included = {"organization", "offerings", "offering-provider-bindings", "policies", "policy-conditions", "agent-policy", "module-registry", "lifecycle-review"}
    Items = {"i1", "i2"}
    Templated = {}
    Modules = {"m"}
    MaxChildren = 1
    MaxTries = 1
    Catalogues <- MCCatalogues
    Texts <- MCTexts
    Intent <- MCIntent
    Topics = {"details", "price", "stock", "social", "visuals"}
    CueWords = {"detail", "weight"}
    SmallSpace = 7
    MaxRequests = 2
INVARIANTS CompleteMaterializes GroundedReply NoNeedDropped OneVoice
PROPERTIES ReviewedSession ReviewedVersions
CHECK_DEADLOCK FALSE
