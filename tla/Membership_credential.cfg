\* A node rejoins at one control plane while its old agent still reports to another.
SPECIFICATION Spec
CONSTANTS
    A = A
    B = B
    X = X
    Replicas = {A, B}
    NodeIDs = {n1}
    TokenIDs = {t1}
    Peers <- Mesh
    UsesAsked <- UsesAnyway
    TTLs = {9}
    NoToken = NoToken
    NoNode = NoNode
    MaxClock = 5
    MaxWaiting = 0
    MaxPosts = 1
INVARIANTS
    NodeTokenLives
