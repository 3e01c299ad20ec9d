\* Every fault of the link, and a file with a packet beyond the size of an
\* acknowledgement.
SPECIFICATION Spec
CONSTANTS
    NumFiles = 2
    Total <- TwoAndOne
    MaxPackets = 1
    WinSize = 2
    InitSend = 2
    FINISH = FINISH
    NoSuchFile = NoSuchFile
    NoFile = NoFile
    NoPiece = NoPiece
    Corruptible = {"covered", "length", "ack"}
    MaxCorruptions = 1
    MaxLosses = 1
INVARIANTS
    TypeOK
    SavedFilesAreIntact
    AcksAreTrue
    EndedMeansSaved
PROPERTY SavedOnce
CHECK_DEADLOCK FALSE
