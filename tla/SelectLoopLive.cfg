\* Two clients at a time, a third in the backlog, under the fairness of the
\* server's own loop.
SPECIFICATION FairLoopSpec
CONSTANTS
    u1 = u1
    p1 = p1
    Fds = {4, 5}
    ServerFd = 3
    MaxClients = 2
    Lines <- SessionLines
    MaxPending = 2
    MaxBacklog = 1
    Users = {u1}
    Passwords = {p1}
    Rooms = {r1}
    Words = {w1}
    NoUser = NoUser
    NoPassword = NoPassword
    NoRoom = NoRoom
    NoPin = NoPin
    ShowLast = 1
    MaxHistory = 1
PROPERTIES
    InputIsRead
    DeadConnectionsLeave
    WaitingAreAccepted
CHECK_DEADLOCK FALSE
