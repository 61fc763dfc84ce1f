\* Failover mode asking for one node of two.
SPECIFICATION FairSystemSpec
CONSTANTS
    NodeIDs = {n1, n2}
    Mode = "failover"
    Limit = 1
    Versions = {1}
    NoFile = NoFile
    NoProcess = NoProcess
    NoClient = NoClient
    None = None
PROPERTIES
    TargetIsFollowed
    DownIsRetried
