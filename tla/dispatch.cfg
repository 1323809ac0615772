SPECIFICATION FairSpec
CONSTANTS
    c1 = c1
    c2 = c2
    Conn = {c1, c2}
    Listen = Listen
    Unset = Unset
    Eager = {c2}
    Lines <- MCLines
    MaxLines = 3
    Behind <- MCBehind
    MaxPackets = 2
    MaxThreads = 2
CHECK_DEADLOCK FALSE
INVARIANTS TypeOK ConfRight EventsAccounted WholePackets
PROPERTY Served
