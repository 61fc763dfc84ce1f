\* One administrator and the auto-switch loop.
SPECIFICATION SwitchSpec
CONSTANTS
    NodeIDs = {1, 2}
    ClientIDs = {c1}
    Links = {}
    Gaps = {}
    AutoAtStart = {TRUE}
    OnlineFor = 0
    FreshFor = 0
    NoNode = NoNode
    NoClient = NoClient
    Admins = {a1}
    Loop = Loop
    Nobody = Nobody
INVARIANTS
    SwitchTypeOK
PROPERTIES
    SwitchedWhereDNSPoints
    OnlyRequestsMove
