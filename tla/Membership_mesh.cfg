\* Two control planes polling each other, one node, one token of one use, and
\* a request that waits for a mutex while later ones are served.
SPECIFICATION FairSpec
CONSTANTS
    A = A
    B = B
    X = X
    Replicas = {A, B}
    NodeIDs = {n1}
    TokenIDs = {t1}
    Peers <- Mesh
    UsesAsked <- OneUseOnly
    TTLs = {1, 3}
    NoToken = NoToken
    NoNode = NoNode
    MaxClock = 3
    MaxWaiting = 1
    MaxPosts = 1
INVARIANTS
    TypeOK
    OneUsePerReplica
    NodeVersionsAgree
PROPERTIES
    SpentStaysSpent
    OnlyWaitingRegresses
    NodesAreRegisters
    NodesConverge
