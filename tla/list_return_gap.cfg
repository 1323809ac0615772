SPECIFICATION Spec
CONSTANTS
    t1 = t1
    t2 = t2
    n1 = n1
    n2 = n2
    n3 = n3
    noEntry = noEntry
    Thread = {t1, t2}
    NoThread = NoThread
    Node = {n1, n2, n3}
    Sentinel = Sentinel
    NULL = NULL
    Entry <- MCEntry
    NoEntry = noEntry
    NoArg = NoArg
PROPERTY SearchReturnsMatch
