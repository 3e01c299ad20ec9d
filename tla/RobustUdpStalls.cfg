\* One lost datagram, nothing else.
SPECIFICATION FairSpec
CONSTANTS
    NumFiles = 2
    Total <- TwoAndOne
    MaxPackets = 2
    WinSize = 1
    InitSend = 1
    FINISH = FINISH
    NoSuchFile = NoSuchFile
    NoFile = NoFile
    NoPiece = NoPiece
    Corruptible = {}
    MaxCorruptions = 1
    MaxLosses = 1
PROPERTY
    TransferEnds
CHECK_DEADLOCK FALSE
