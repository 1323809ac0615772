SPECIFICATION FairSpec
CONSTANTS
    c1 = c1
    c2 = c2
    c3 = c3
    p1 = p1
    p2 = p2
    t1 = t1
    t2 = t2
    Conn = {c1, c2}
    NoConn = NoConn
    Fd = {3, 4}
    NoFd <- MinusOne
    Id = {1, 2, 3}
    Pwd = {p1}
    Thread = {t1, t2}
    NoEntry = NoEntry
    NoPkt = NoPkt
    None = None
    Faults = {"log_query", "log_friends", "off_query"}
    InitUsers <- TwoUsers
    InitFriends <- TwoStrangers
    Account <- OneAccount
    Menu = {"register","login","offline"}
    MaxRequests = 2

CHECK_DEADLOCK FALSE

 
PROPERTIES LoginAnswered 
