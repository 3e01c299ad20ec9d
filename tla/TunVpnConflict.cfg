\* No faults of the link; the server keeps running.
SPECIFICATION Spec
CONSTANTS
    Clients = {c1, c2}
    Server = Server
    NumAddrs = 3
    MYADDR = 2
    Dests = {0, 2}
    NoAddr = NoAddr
    Header = Header
    NoClient = NoClient
    MaxStarts <- OneTwice
    MaxRestarts = 0
    MaxLosses = 0
    MaxRepeats = 0
    MaxNet = 2
INVARIANT NonConflicting
CHECK_DEADLOCK FALSE
