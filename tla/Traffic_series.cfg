\* Two control planes; the agent of one node reports to one of them.
SPECIFICATION Spec
CONSTANTS
    A = A
    B = B
    Replicas = {A, B}
    NodeIDs = {1}
    Home <- HomeIsA
    Interval = 3
    Retention = 5
    MaxSamples = 2
    MaxDelay = 1
    MaxReports = 2
    MaxPosts = 1
    MaxBytes = 3
    MaxClock = 7
INVARIANTS
    TypeOK
    SeriesWithinCarried
PROPERTIES
    SamplesStay
