\* Two descriptors, two users and one room: sessions and memberships overlap,
\* move to other descriptors and outlive connections.
SPECIFICATION Spec
CONSTANTS
    Fds = {f1, f2}
    Users = {u1, u2}
    Passwords = {p1}
    Rooms = {r1}
    Words = {w1}
    NoUser = NoUser
    NoPassword = NoPassword
    NoRoom = NoRoom
    NoPin = NoPin
    ShowLast = 1
    MaxHistory = 2
SYMMETRY Symmetry
INVARIANTS
    TypeOK
    SessionAgreement
    RoomAgreement
    MembersAreLoggedIn
    OfflineUnlessLoggedIn
    ClosedRoomsAreEmpty
    NothingFoulShown
    TranscriptsAgree
PROPERTIES
    OnlyOwnerEndsRoom
    HistoryGrowsByMembers
    ImplementsUserChat
\* The process may end: see OnlyAcceptEndsServer.
CHECK_DEADLOCK FALSE
