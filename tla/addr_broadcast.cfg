SPECIFICATION FairSpec
CONSTANTS
    c1 = c1
    c2 = c2
    c3 = c3
    Client = {c1, c2, c3}
    Listen = Listen
    NoNode = NoNode
    Leaver = {c2, c3}
    Talker = {c1, c2}
    MaxSends = 1
CHECK_DEADLOCK FALSE
INVARIANTS TypeOK IdsDistinct InStep ForOwner
PROPERTY Converges
