\* Two slots for three descriptors: the table fills, descriptors are reused
\* and the process runs out of them.
SPECIFICATION LoopSpec
CONSTANTS
    u1 = u1
    p1 = p1
    Fds = {4, 5, 6}
    ServerFd = 3
    MaxClients = 2
    Lines <- SessionLines
    MaxPending = 2
    MaxBacklog = 1
    Users = {u1}
    Passwords = {p1}
    Rooms = {r1}
    Words = {w1}
    NoUser = NoUser
    NoPassword = NoPassword
    NoRoom = NoRoom
    NoPin = NoPin
    ShowLast = 1
    MaxHistory = 1
INVARIANTS
    TableAgreement
    ReadsDoNotBlock
PROPERTIES
    ImplementsChatServer
CHECK_DEADLOCK FALSE
