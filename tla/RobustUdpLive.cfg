\* A link that loses nothing; the client starts with the first file only and
\* is asked for one file at a time.
SPECIFICATION FairSpec
CONSTANTS
    NumFiles = 3
    Total <- TwoOneOne
    MaxPackets = 2
    WinSize = 2
    InitSend = 1
    FINISH = FINISH
    NoSuchFile = NoSuchFile
    NoFile = NoFile
    NoPiece = NoPiece
    Corruptible = {"covered"}
    MaxCorruptions = 1
    MaxLosses = 0
PROPERTIES
    ImplementsTransfer
    LosslessEnds
CHECK_DEADLOCK FALSE
