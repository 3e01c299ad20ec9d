\* Two clients; the fourth address is the server's own.
SPECIFICATION FairSpec
CONSTANTS
    Clients = {c1, c2}
    Server = Server
    NumAddrs = 4
    MYADDR = 3
    Dests = {1, 3}
    NoAddr = NoAddr
    Header = Header
    NoClient = NoClient
    MaxStarts <- OneTwice
    MaxRestarts = 1
    MaxLosses = 1
    MaxRepeats = 1
    MaxNet = 1
INVARIANTS
    TypeOK
    HeldIsRouted
    OnlyAddresseeGets
    FailsForAReason
PROPERTY AskingIsAnswered
CHECK_DEADLOCK FALSE
