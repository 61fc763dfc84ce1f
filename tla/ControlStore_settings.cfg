\* AutoMigration and the score gap change.
SPECIFICATION Spec
CONSTANTS
    NodeIDs = {1, 2}
    ClientIDs = {c1}
    Links <- GoodAndPoor
    Gaps <- AnyGap
    AutoAtStart = {TRUE}
    OnlineFor = 1
    FreshFor = 0
    NoNode = NoNode
    NoClient = NoClient
INVARIANTS
    TypeOK
    CountsSound
    LeftNodeIsEmpty
PROPERTIES
    PendingTargetIsElsewhere
    StaysWherePut
    ManualTargetHolds
    StrandedIsRecommended
