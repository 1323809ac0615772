SPECIFICATION Spec
CONSTANTS
    k1 = k1
    k2 = k2
    p1 = p1
    p2 = p2
    Client = {k1}
    Pwd = {p1}
    MaxRows = 2
    MaxRequests = 2
    MaxStarts = 1
    Faults = {}
CHECK_DEADLOCK FALSE
PROPERTY ToldOwnId
