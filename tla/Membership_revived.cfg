\* A token of three uses whose copies reach X by two ways.
SPECIFICATION PullSpec
CONSTANTS
    A = A
    B = B
    X = X
    Replicas = {A, B, X}
    NodeIDs = {n1, n2}
    TokenIDs = {t1}
    Peers <- Chain
    UsesAsked <- ThreeUses
    TTLs = {9}
    NoToken = NoToken
    NoNode = NoNode
    MaxClock = 5
    MaxWaiting = 0
    MaxPosts = 0
PROPERTIES
    ExhaustedIsFinal
