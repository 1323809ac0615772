SPECIFICATION FairSpec
CONSTANTS
    f1 = f1
    f2 = f2
    None = None
    Friend = {f1, f2}
    Rows = 2
    MaxPackets = 2
    MaxMsgs = 2
    MaxLines = 2
CHECK_DEADLOCK FALSE
INVARIANTS TypeOK BroadcastWalk InFaceRight
PROPERTIES  AnswerShown PacketHandled
