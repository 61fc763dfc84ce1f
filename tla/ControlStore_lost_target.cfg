\* An administrator's target with AutoMigration on, as the store starts.
SPECIFICATION Spec
CONSTANTS
    NodeIDs = {1, 2}
    ClientIDs = {c1}
    Links <- GoodOnly
    Gaps = {}
    AutoAtStart = {TRUE}
    OnlineFor = 1
    FreshFor = 1
    NoNode = NoNode
    NoClient = NoClient
PROPERTIES
    ManualTargetSticks
