\* Two saving requests, two sessions and two runs of the hook.
SPECIFICATION Spec
CONSTANTS
    Files = {"auth", "alidns", "node"}
    Requests = {w1, w2}
    Values <- AllValues
    Absent = Absent
    Empty = Empty
    Torn = Torn
    NoSave = NoSave
    SessionIDs = {s1, s2}
    NoSession = NoSession
    SessionTTL = 1
    Secrets = {x1, x2}
    Keys <- KeysEntered
    Altered <- NotReadBack
    Blank = Blank
    NoKey = NoKey
    NodeToken = NodeToken
    Hooks = {h1, h2}
    Targets = {1}
    NoRecord = NoRecord
    MaxLength = 4
SYMMETRY Symmetry
INVARIANTS
    TypeOK
    FilesSayWhatIsDue
    OnlyUnseenIsAdded
    OthersAreKept
PROPERTIES
    EndedStaysEnded
