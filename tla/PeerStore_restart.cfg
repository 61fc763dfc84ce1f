\* Two control planes, one client; a handler that waits for a mutex; saves that
\* fail and restarts, two in all.
SPECIFICATION FairSpec
CONSTANTS
    A = A
    B = B
    Replicas = {A, B}
    Bootstrap <- BKnowsA
    Joins <- AllAtA
    NodeIDs = {1}
    ClientIDs = {c1}
    NoClient = NoClient
    None = None
    MaxClock = 2
    MaxWaiting = 1
    MaxFaults = 2
    MaxPosts = 1
INVARIANTS
    TypeOK
    AcknowledgedSurvives
    ClientVersionsAgree
PROPERTIES
    EveryoneAgrees
