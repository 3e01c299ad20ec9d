\* What a client can send, or where it can leave, so that the process ends.
SPECIFICATION Spec
CONSTANTS
    Fds = {f1, f2}
    Users = {u1, u2}
    Passwords = {p1}
    Rooms = {r1}
    Words = {w1}
    NoUser = NoUser
    NoPassword = NoPassword
    NoRoom = NoRoom
    NoPin = NoPin
    ShowLast = 1
    MaxHistory = 1
PROPERTY OnlyAcceptEndsServer
CHECK_DEADLOCK FALSE
