SPECIFICATION FairSpec
CONSTANTS
    k1 = k1
    k2 = k2
    p1 = p1
    p2 = p2
    Client = {k1, k2}
    Pwd = {p1}
    MaxRows = 1
    MaxRequests = 2
    MaxStarts = 2
    Faults = {"insert", "select", "login"}
CHECK_DEADLOCK FALSE
INVARIANTS TypeOK NoSpareReplies NoSparePosts
PROPERTY LoginAnswered
