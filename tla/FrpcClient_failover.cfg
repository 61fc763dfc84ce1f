\* Failover mode asking for two nodes of three.
SPECIFICATION FairSpec
CONSTANTS
    NodeIDs = {n1, n2, n3}
    Mode = "failover"
    Limit = 2
    Versions = {1, 2}
    NoFile = NoFile
    NoProcess = NoProcess
INVARIANTS
    TypeOK
    OnePerNode
PROPERTIES
    NoOrphans
    NeverStopsTheLast
    SyncEnds
    ExitIsRetried
