---------------------------- MODULE ChatServer ----------------------------
(***************************************************************************)
(* The command layer of the chat server (homework2/server.cpp): accounts,  *)
(* login sessions and chat rooms, as the methods of class Server change    *)
(* them.  Sessions and memberships are keyed by file descriptor, as in the *)
(* code; a connection's life is reduced to what the methods can see of it: *)
(* SelectLoop says which descriptor a connection gets and when it is read. *)
(*                                                                         *)
(* Data: a message text is a record that says whether it contains a word   *)
(* of the filter list; replies are not modelled, only that one is sent.    *)
(***************************************************************************)
EXTENDS Naturals, Sequences

CONSTANTS
    Fds,         \* file descriptors of client connections
    Users,       \* user names
    Passwords,
    Rooms,       \* the valid room numbers (1..100 in the code)
    Words,       \* what distinguishes one message text from another
    NoUser, NoPassword, NoRoom, NoPin,
    ShowLast,    \* records shown to a newcomer (10 in the code)
    MaxHistory   \* bound: a room takes no more messages than this

ASSUME NoneAreNew ==
    /\ NoUser \notin Users
    /\ NoPassword \notin Passwords
    /\ NoRoom \notin Rooms

(* A room number is no place outside a room and no malformed argument.     *)
ASSUME RoomsAreNumbers == Rooms \cap {"away", "lobby", "invalid", "huge"} = {}

ASSUME BoundsAreNat == ShowLast \in Nat /\ MaxHistory \in Nat

VARIABLES
    up,                   \* the process runs
    conn,                 \* state of the connection under each descriptor
    registerd_user,       \* password of each registered user
    status,               \* User::status
    clients,              \* the user logged in on each descriptor
    loggedInUsers,        \* names of the users that are logged in
    client_in_chat_room,  \* the room each descriptor is in
    owner,                \* ChatRoom::owner; NoUser: no such room
    roomClients,          \* ChatRoom::clients, as the count of each descriptor
    history,              \* ChatRoom::history
    pinned_message,       \* ChatRoom::pinned_message
    authed,               \* ghost: who logged in on the present connection
    seen                  \* ghost: records of its room the connection was shown

accountVars == <<registerd_user, status>>
sessionVars == <<clients, loggedInUsers, authed>>
roomVars == <<client_in_chat_room, owner, roomClients, history, pinned_message, seen>>
vars == <<up, conn, accountVars, sessionVars, roomVars>>

Text == [word : Words, foul : BOOLEAN]
Record == [user : Users, text : Text]

TypeOK ==
    /\ up \in BOOLEAN
    /\ conn \in [Fds -> {"closed", "open", "left", "reset"}]
    /\ registerd_user \in [Users -> Passwords \cup {NoPassword}]
    /\ status \in [Users -> {"online", "offline", "busy"}]
    /\ clients \in [Fds -> Users \cup {NoUser}]
    /\ loggedInUsers \subseteq Users
    /\ client_in_chat_room \in [Fds -> Rooms \cup {NoRoom}]
    /\ owner \in [Rooms -> Users \cup {NoUser}]
    /\ roomClients \in [Rooms -> [Fds -> Nat]]
    /\ history \in [Rooms -> Seq(Record)]
    /\ pinned_message \in [Rooms -> Record \cup {NoPin}]
    /\ authed \in [Fds -> Users \cup {NoUser}]
    /\ seen \in [Fds -> Seq(Record)]

Init ==
    /\ up = TRUE
    /\ conn = [f \in Fds |-> "closed"]
    /\ registerd_user = [u \in Users |-> NoPassword]
    /\ status = [u \in Users |-> "offline"]
    /\ clients = [f \in Fds |-> NoUser]
    /\ loggedInUsers = {}
    /\ client_in_chat_room = [f \in Fds |-> NoRoom]
    /\ owner = [r \in Rooms |-> NoUser]
    /\ roomClients = [r \in Rooms |-> [f \in Fds |-> 0]]
    /\ history = [r \in Rooms |-> <<>>]
    /\ pinned_message = [r \in Rooms |-> NoPin]
    /\ authed = [f \in Fds |-> NoUser]
    /\ seen = [f \in Fds |-> <<>>]

----------------------------------------------------------------------------
(* Helpers.                                                                *)

LoggedIn(f) == clients[f] # NoUser /\ clients[f] \in loggedInUsers
InRoom(f) == client_in_chat_room[f] # NoRoom
Exists(r) == owner[r] # NoUser
Members(r) == {f \in Fds : roomClients[r][f] > 0}

Censor(t) == [t EXCEPT !.foul = FALSE]

\* Mutant of Latest: the first records instead of the last.
LatestIsOldest(s) == SubSeq(s, 1, IF Len(s) > ShowLast THEN ShowLast ELSE Len(s))

Latest(s) ==
    LET from == IF Len(s) > ShowLast THEN Len(s) - ShowLast ELSE 0
    IN SubSeq(s, from + 1, Len(s))

(* send() to every descriptor of R.  The peer of a connection it has left  *)
(* answers data with a reset; a send after the reset raises SIGPIPE, which *)
(* the server neither handles nor masks.  Until the reset has arrived that *)
(* send still succeeds, so the process may survive it.  A send to a closed *)
(* descriptor fails and does nothing.                                      *)
SurvivesSend(R) == up' \in (IF \E f \in R : conn[f] = "reset" THEN BOOLEAN ELSE {TRUE})

AfterSend(R) ==
    [f \in Fds |-> IF f \in R /\ conn[f] = "left" THEN "reset" ELSE conn[f]]

Send(R) == SurvivesSend(R) /\ conn' = AfterSend(R)

(* A send of zero bytes: nothing for the peer to answer.                   *)
SendNothing(f) == SurvivesSend({f}) /\ UNCHANGED conn

(* A chat record reaches those of R that are still connected.              *)
Show(R, rec) ==
    seen' = [f \in Fds |-> IF f \in R /\ conn[f] = "open" THEN Append(seen[f], rec)
                                                          ELSE seen[f]]

(* A usage or error reply, or a listing: nothing changes but the wire.     *)
ReplyOnly(f) == Send({f}) /\ UNCHANGED <<accountVars, sessionVars, roomVars>>

----------------------------------------------------------------------------
(* Basic commands.                                                         *)

registerUser(f, u, p) ==
    /\ registerd_user[u] = NoPassword
    /\ registerd_user' = [registerd_user EXCEPT ![u] = p]
    /\ Send({f})
    /\ UNCHANGED <<status, sessionVars, roomVars>>

\* Mutant of MayLogin: does not ask whether the user is logged in elsewhere.
MayLoginTwice(f, u, p) == ~LoggedIn(f) /\ registerd_user[u] = p

MayLogin(f, u, p) ==
    /\ ~LoggedIn(f)
    /\ u \notin loggedInUsers
    /\ registerd_user[u] = p

loginUser(f, u, p) ==
    /\ MayLogin(f, u, p)
    /\ clients' = [clients EXCEPT ![f] = u]
    /\ authed' = [authed EXCEPT ![f] = u]
    /\ status' = [status EXCEPT ![u] = "online"]
    /\ loggedInUsers' = loggedInUsers \cup {u}
    /\ Send({f})
    /\ UNCHANGED <<registerd_user, roomVars>>

\* Mutant of EndSession: the status stays what it was.
EndSessionKeepsStatus(f) ==
    /\ loggedInUsers' = loggedInUsers \ {clients[f]}
    /\ clients' = [clients EXCEPT ![f] = NoUser]
    /\ authed' = [authed EXCEPT ![f] = NoUser]
    /\ UNCHANGED status

(* What logoutUser does to the session; exitUser calls it too.             *)
EndSession(f) ==
    /\ loggedInUsers' = loggedInUsers \ {clients[f]}
    /\ status' = [status EXCEPT ![clients[f]] = "offline"]
    /\ clients' = [clients EXCEPT ![f] = NoUser]
    /\ authed' = [authed EXCEPT ![f] = NoUser]

logoutUser(f) ==
    /\ LoggedIn(f)
    /\ EndSession(f)
    /\ Send({f})
    /\ UNCHANGED <<registerd_user, roomVars>>

(* The implicit logout sends "Bye"; the descriptor is closed before        *)
(* handleCommand sends the prompt to it.                                   *)
exitUser(f) ==
    /\ IF LoggedIn(f)
         THEN EndSession(f) /\ SurvivesSend({f})
         ELSE up' = up /\ UNCHANGED <<status, sessionVars>>
    /\ conn' = [conn EXCEPT ![f] = "closed"]
    /\ UNCHANGED <<registerd_user, roomVars>>

\* Mutant of setClientStatus: stores whatever word it is given.
SetAnyStatus(f, s) ==
    /\ LoggedIn(f)
    /\ status' = [status EXCEPT ![clients[f]] = s]
    /\ Send({f})
    /\ UNCHANGED <<registerd_user, sessionVars, roomVars>>

setClientStatus(f, s) ==
    /\ LoggedIn(f)
    /\ s \in {"online", "offline", "busy"}
    /\ status' = [status EXCEPT ![clients[f]] = s]
    /\ Send({f})
    /\ UNCHANGED <<registerd_user, sessionVars, roomVars>>

CreateRoom(f, r) ==
    /\ ~Exists(r)
    /\ owner' = [owner EXCEPT ![r] = clients[f]]
    /\ roomClients' = [roomClients EXCEPT ![r] = [g \in Fds |-> IF g = f THEN 1 ELSE 0]]
    /\ history' = [history EXCEPT ![r] = <<>>]
    /\ pinned_message' = [pinned_message EXCEPT ![r] = NoPin]
    /\ seen' = [seen EXCEPT ![f] = <<>>]
    /\ Send({f})

JoinRoom(f, r) ==
    /\ Exists(r)
    /\ roomClients' = [roomClients EXCEPT ![r][f] = @ + 1]
    /\ seen' = [seen EXCEPT ![f] = Latest(history[r])]
    /\ Send(Members(r) \cup {f})
    /\ UNCHANGED <<owner, history, pinned_message>>

enterChatRoom(f, r) ==
    /\ LoggedIn(f)
    /\ r \in Rooms
    /\ CreateRoom(f, r) \/ JoinRoom(f, r)
    /\ client_in_chat_room' = [client_in_chat_room EXCEPT ![f] = r]
    /\ UNCHANGED <<accountVars, sessionVars>>

\* Mutant of EraseRoom: the room loses its owner and members, not its messages.
EraseRoomKeepsMessages(r) ==
    /\ owner' = [owner EXCEPT ![r] = NoUser]
    /\ roomClients' = [roomClients EXCEPT ![r] = [g \in Fds |-> 0]]
    /\ UNCHANGED <<history, pinned_message>>

(* The part of closeChatRoom that erases the room.                         *)
EraseRoom(r) ==
    /\ owner' = [owner EXCEPT ![r] = NoUser]
    /\ roomClients' = [roomClients EXCEPT ![r] = [g \in Fds |-> 0]]
    /\ history' = [history EXCEPT ![r] = <<>>]
    /\ pinned_message' = [pinned_message EXCEPT ![r] = NoPin]

\* Mutant of KickOut: only those still connected are put out.
KickOutConnected(r) ==
    /\ client_in_chat_room' = [g \in Fds |-> IF g \in Members(r) /\ conn[g] # "closed" THEN NoRoom
                                                ELSE client_in_chat_room[g]]
    /\ seen' = [g \in Fds |-> IF g \in Members(r) THEN <<>> ELSE seen[g]]

(* Its part that puts the members out.                                     *)
KickOut(r) ==
    /\ client_in_chat_room' = [g \in Fds |-> IF g \in Members(r) THEN NoRoom
                                                ELSE client_in_chat_room[g]]
    /\ seen' = [g \in Fds |-> IF g \in Members(r) THEN <<>> ELSE seen[g]]

\* Mutant of closeChatRoom: anyone who is logged in may close.
CloseByAnyone(f, r) ==
    /\ LoggedIn(f)
    /\ r \in Rooms /\ Exists(r)
    /\ KickOut(r)
    /\ EraseRoom(r)
    /\ Send(Members(r) \cup {f})
    /\ UNCHANGED <<accountVars, sessionVars>>

closeChatRoom(f, r) ==
    /\ LoggedIn(f)
    /\ r \in Rooms /\ Exists(r)
    /\ owner[r] = clients[f]
    /\ KickOut(r)
    /\ EraseRoom(r)
    /\ Send(Members(r) \cup {f})
    /\ UNCHANGED <<accountVars, sessionVars>>

(* std::stoi throws out_of_range, which enterChatRoom and closeChatRoom do *)
(* not catch: std::terminate ends the process.                             *)
OutOfRange(f) ==
    /\ LoggedIn(f)
    /\ up' = FALSE
    /\ UNCHANGED <<conn, accountVars, sessionVars, roomVars>>

----------------------------------------------------------------------------
(* Chat room commands, in the room r the descriptor is in.                 *)

\* Mutant of setPinMessage: the second copy of the filter is missing.
PinUncensored(f, t) ==
    LET r == client_in_chat_room[f] IN
    /\ LoggedIn(f)
    /\ pinned_message' = [pinned_message EXCEPT ![r] = [user |-> clients[f], text |-> t]]
    /\ Send(Members(r) \cup {f})
    /\ UNCHANGED <<accountVars, sessionVars, client_in_chat_room, owner, roomClients, history, seen>>

setPinMessage(f, t) ==
    LET r == client_in_chat_room[f] IN
    /\ LoggedIn(f)
    /\ pinned_message' = [pinned_message EXCEPT ![r] = [user |-> clients[f], text |-> Censor(t)]]
    /\ Send(Members(r) \cup {f})
    /\ UNCHANGED <<accountVars, sessionVars, client_in_chat_room, owner, roomClients, history, seen>>

deletePinMessage(f) ==
    LET r == client_in_chat_room[f] IN
    /\ LoggedIn(f)
    /\ pinned_message[r] # NoPin
    /\ pinned_message' = [pinned_message EXCEPT ![r] = NoPin]
    /\ SendNothing(f)
    /\ UNCHANGED <<accountVars, sessionVars, client_in_chat_room, owner, roomClients, history, seen>>

\* Mutant of exitChatRoom: the room's list of clients keeps the descriptor.
ExitKeepsMember(f) ==
    LET r == client_in_chat_room[f] IN
    /\ LoggedIn(f)
    /\ client_in_chat_room' = [client_in_chat_room EXCEPT ![f] = NoRoom]
    /\ seen' = [seen EXCEPT ![f] = <<>>]
    /\ Send(Members(r) \cup {f})
    /\ UNCHANGED <<accountVars, sessionVars, owner, roomClients, history, pinned_message>>

exitChatRoom(f) ==
    LET r == client_in_chat_room[f] IN
    /\ LoggedIn(f)
    /\ roomClients' = [roomClients EXCEPT ![r][f] = IF @ > 0 THEN @ - 1 ELSE 0]
    /\ client_in_chat_room' = [client_in_chat_room EXCEPT ![f] = NoRoom]
    /\ seen' = [seen EXCEPT ![f] = <<>>]
    /\ Send(Members(r) \cup {f})
    /\ UNCHANGED <<accountVars, sessionVars, owner, history, pinned_message>>

\* Mutant of sendMessage: the record names the room's owner as its author.
SendAsOwner(f, t) ==
    LET r == client_in_chat_room[f]
        rec == [user |-> owner[r], text |-> Censor(t)]
    IN
    /\ Len(history[r]) < MaxHistory
    /\ history' = [history EXCEPT ![r] = Append(@, rec)]
    /\ Show(Members(r) \cup {f}, rec)
    /\ Send(Members(r) \cup {f})
    /\ UNCHANGED <<accountVars, sessionVars, client_in_chat_room, owner, roomClients, pinned_message>>

(* No login check here: the author is clients[f], whatever it holds.       *)
sendMessage(f, t) ==
    LET r == client_in_chat_room[f]
        rec == [user |-> clients[f], text |-> Censor(t)]
    IN
    /\ Len(history[r]) < MaxHistory
    /\ history' = [history EXCEPT ![r] = Append(@, rec)]
    /\ Show(Members(r) \cup {f}, rec)
    /\ Send(Members(r) \cup {f})
    /\ UNCHANGED <<accountVars, sessionVars, client_in_chat_room, owner, roomClients, pinned_message>>

----------------------------------------------------------------------------
(* handleCommand: one command c, a record of its operation and arguments.  *)
(* "none" is any line that has no effect outside a room (unknown word,     *)
(* wrong number of tokens, whoami, the listings), "/none" any line with a  *)
(* leading slash that has no effect in one either.                         *)
Command ==
         [op : {"register", "login"}, user : Users, pass : Passwords]
    \cup [op : {"logout", "exit", "/delete-pin", "/exit-chat-room", "none", "/none", "empty"}]
    \cup [op : {"set-status"}, arg : {"online", "offline", "busy", "unknown"}]
    \cup [op : {"enter-chat-room", "close-chat-room"}, arg : Rooms \cup {"invalid", "huge"}]
    \cup [op : {"/pin", "say"}, text : Text]

BasicCommand(f, c) ==
    \/ c.op = "register" /\ registerUser(f, c.user, c.pass)
    \/ c.op = "login" /\ loginUser(f, c.user, c.pass)
    \/ c.op = "logout" /\ logoutUser(f)
    \/ c.op = "exit" /\ exitUser(f)
    \/ c.op = "set-status" /\ setClientStatus(f, c.arg)
    \/ c.op = "enter-chat-room" /\ enterChatRoom(f, c.arg)
    \/ c.op = "close-chat-room" /\ closeChatRoom(f, c.arg)
    \/ c.op \in {"enter-chat-room", "close-chat-room"} /\ c.arg = "huge" /\ OutOfRange(f)

(* The early returns: every command that is refused, with what refuses it. *)
RefusedBasic(f, c) ==
    \/ c.op \in {"/pin", "/delete-pin", "/exit-chat-room", "none", "/none", "empty", "say"}
    \/ c.op = "register" /\ registerd_user[c.user] # NoPassword
    \/ c.op = "login" /\ ~MayLogin(f, c.user, c.pass)
    \/ c.op \in {"logout", "set-status", "enter-chat-room", "close-chat-room"} /\ ~LoggedIn(f)
    \/ c.op = "set-status" /\ c.arg = "unknown"
    \/ c.op \in {"enter-chat-room", "close-chat-room"} /\ c.arg = "invalid"
    \/ c.op = "close-chat-room" /\ c.arg \in Rooms /\ owner[c.arg] # clients[f]

(* In a room a line without a leading slash is a chat message, whatever    *)
(* command it would be outside.                                            *)
Spoken(c) == IF c.op = "say" THEN {c.text} ELSE Text

RoomCommand(f, c) ==
    \/ c.op = "/pin" /\ setPinMessage(f, c.text)
    \/ c.op = "/delete-pin" /\ deletePinMessage(f)
    \/ c.op = "/exit-chat-room" /\ exitChatRoom(f)
    \/ /\ c.op \notin {"/pin", "/delete-pin", "/exit-chat-room", "/none", "empty"}
       /\ \E t \in Spoken(c) : sendMessage(f, t)

RefusedInRoom(f, c) ==
    \/ c.op = "/none"
    \/ c.op \in {"/pin", "/delete-pin", "/exit-chat-room"} /\ ~LoggedIn(f)
    \/ c.op = "/delete-pin" /\ pinned_message[client_in_chat_room[f]] = NoPin

EmptyInRoom(f, c) ==
    /\ c.op = "empty"
    /\ SendNothing(f)
    /\ UNCHANGED <<accountVars, sessionVars, roomVars>>

handleCommand(f, c) ==
    \/ ~InRoom(f) /\ BasicCommand(f, c)
    \/ ~InRoom(f) /\ RefusedBasic(f, c) /\ ReplyOnly(f)
    \/ InRoom(f) /\ RoomCommand(f, c)
    \/ InRoom(f) /\ RefusedInRoom(f, c) /\ ReplyOnly(f)
    \/ InRoom(f) /\ EmptyInRoom(f, c)

----------------------------------------------------------------------------
(* The life of a connection, as far as the methods of Server depend on it. *)

(* main accepts a connection: addSocket, and nothing of the session state. *)
(* The welcome it sends leads to a reset if the client has left already.   *)
Connect(f) ==
    /\ up
    /\ conn[f] = "closed"
    /\ \E c \in {"open", "reset"} : conn' = [conn EXCEPT ![f] = c]
    /\ authed' = [authed EXCEPT ![f] = NoUser]
    /\ seen' = [seen EXCEPT ![f] = <<>>]
    /\ UNCHANGED <<up, accountVars, clients, loggedInUsers, client_in_chat_room, owner,
                   roomClients, history, pinned_message>>

(* The client goes away, closing or aborting; the server does not know yet.*)
PeerLeaves(f) ==
    /\ up
    /\ conn[f] = "open"
    /\ conn' = [conn EXCEPT ![f] = "left"]
    /\ UNCHANGED <<up, accountVars, sessionVars, roomVars>>

(* read() fails on a connection that was aborted: main prints the error and*)
(* keeps the connection.  The error is reported once, the next read finds  *)
(* end of file.                                                            *)
ReadFails(f) ==
    /\ up
    /\ conn[f] = "left"
    /\ conn' = [conn EXCEPT ![f] = "reset"]
    /\ UNCHANGED <<up, accountVars, sessionVars, roomVars>>

\* Mutant of Disconnect: logs the user out and leaves him in his room.
DisconnectLogsOut(f) ==
    /\ up
    /\ conn[f] \in {"left", "reset"}
    /\ conn' = [conn EXCEPT ![f] = "closed"]
    /\ IF LoggedIn(f) THEN EndSession(f) ELSE UNCHANGED <<status, sessionVars>>
    /\ UNCHANGED <<up, registerd_user, roomVars>>

(* main reads end of file: close and removeSocket.  Neither the session    *)
(* nor the room hears of it.                                               *)
Disconnect(f) ==
    /\ up
    /\ conn[f] \in {"left", "reset"}
    /\ conn' = [conn EXCEPT ![f] = "closed"]
    /\ UNCHANGED <<up, accountVars, sessionVars, roomVars>>

(* A connection arrives and every descriptor is in use: accept fails and   *)
(* main calls exit(EXIT_FAILURE).                                          *)
OutOfDescriptors ==
    /\ up
    /\ \A f \in Fds : conn[f] # "closed"
    /\ up' = FALSE
    /\ UNCHANGED <<conn, accountVars, sessionVars, roomVars>>

Handle(f) ==
    /\ up
    /\ conn[f] # "closed"
    /\ \E c \in Command : handleCommand(f, c)

Next ==
    \/ \E f \in Fds :
          Connect(f) \/ PeerLeaves(f) \/ ReadFails(f) \/ Disconnect(f) \/ Handle(f)
    \/ OutOfDescriptors

Spec == Init /\ [][Next]_vars

----------------------------------------------------------------------------
(* Safety.                                                                 *)

(* Who is logged in is kept twice: the names in loggedInUsers and the users*)
(* of clients agree, and no user is logged in on two descriptors.  Every   *)
(* handler tests the one and then uses the other.                          *)
SessionAgreement ==
    /\ loggedInUsers = {clients[f] : f \in Fds} \ {NoUser}
    /\ \A f, g \in Fds : clients[f] = clients[g] /\ clients[f] # NoUser => f = g

(* Who is in which room is kept twice as well: a room lists exactly the    *)
(* descriptors that point to it, each once, and only existing rooms are    *)
(* pointed to (operator[] of chatRooms would silently make an ownerless    *)
(* room otherwise).                                                        *)
RoomAgreement ==
    /\ \A f \in Fds, r \in Rooms :
          roomClients[r][f] = IF client_in_chat_room[f] = r THEN 1 ELSE 0
    /\ \A f \in Fds : InRoom(f) => Exists(client_in_chat_room[f])

(* A descriptor in a room has a user: sendMessage and listUserinChatRoom   *)
(* dereference clients[fd] of members without a test.                      *)
MembersAreLoggedIn == \A f \in Fds : InRoom(f) => LoggedIn(f)

(* A user who is not logged in is offline, and has an account if he is:    *)
(* status is written by login, logout, exit and set-status.                *)
OfflineUnlessLoggedIn ==
    /\ \A u \in Users : status[u] # "offline" => u \in loggedInUsers
    /\ \A u \in loggedInUsers : registerd_user[u] # NoPassword

(* A room that was closed leaves nothing behind for a room of the same     *)
(* number to show its newcomers.                                           *)
ClosedRoomsAreEmpty ==
    \A r \in Rooms : ~Exists(r) =>
        Members(r) = {} /\ history[r] = <<>> /\ pinned_message[r] = NoPin

(* No word of the filter list is shown: in the history, in a pin, or on a  *)
(* client's screen.                                                        *)
NothingFoulShown ==
    /\ \A r \in Rooms :
          /\ \A i \in DOMAIN history[r] : ~history[r][i].text.foul
          /\ pinned_message[r] # NoPin => ~pinned_message[r].text.foul
    /\ \A f \in Fds : \A i \in DOMAIN seen[f] : ~seen[f][i].text.foul

(* What a connected member was shown, the backlog at entry and every       *)
(* message since, is without gap or repetition the end of the history: all *)
(* members agree on the conversation.                                      *)
TranscriptsAgree ==
    \A f \in Fds : InRoom(f) /\ conn[f] = "open" =>
        LET h == history[client_in_chat_room[f]] IN
        /\ Len(seen[f]) <= Len(h)
        /\ seen[f] = SubSeq(h, Len(h) - Len(seen[f]) + 1, Len(h))

(* A fresh connection is nobody's session: whoever a descriptor is logged  *)
(* in as, logged in on the connection that has the descriptor now.         *)
SessionIsOfThisConnection ==
    \A f \in Fds : conn[f] # "closed" => clients[f] = authed[f]

----------------------------------------------------------------------------
(* What a step may not do.                                                 *)

(* A room keeps its owner until the owner, logged in and outside every     *)
(* room, closes it; then nobody is left in it.                             *)
OnlyOwnerEndsRoom ==
    [][\A r \in Rooms : Exists(r) /\ owner'[r] # owner[r] =>
          /\ owner'[r] = NoUser
          /\ \E f \in Fds : clients[f] = owner[r] /\ ~InRoom(f)
          /\ \A f \in Fds : client_in_chat_room'[f] # r]_vars

(* While a room exists its history only grows, one record at a time, and   *)
(* by a user who is in the room.                                           *)
HistoryGrowsByMembers ==
    [][\A r \in Rooms : Exists(r) /\ owner'[r] = owner[r] /\ history'[r] # history[r] =>
          \E f \in Fds, t \in Text :
              /\ client_in_chat_room[f] = r
              /\ history'[r] = Append(history[r], [user |-> clients[f], text |-> t])]_vars

(* No command, and no client that leaves, ends the process: it ends only   *)
(* where main says so, when accept fails.                                  *)
OnlyAcceptEndsServer == [][up' = FALSE => OutOfDescriptors]_vars

----------------------------------------------------------------------------
(* What the server promises its users, who know nothing of descriptors:    *)
(* the refinement mapping places each user by the one descriptor he is     *)
(* logged in on.                                                           *)
FdOf(u) == CHOOSE f \in Fds : clients[f] = u

Place(u) ==
    IF u \notin loggedInUsers THEN "away"
    ELSE IF InRoom(FdOf(u)) THEN client_in_chat_room[FdOf(u)] ELSE "lobby"

Promise == INSTANCE UserChat WITH
    Texts <- {t \in Text : ~t.foul},
    account <- registerd_user,
    place <- [u \in Users |-> Place(u)],
    pin <- pinned_message

(* Through every interleaving of connections, disconnections and commands  *)
(* the server behaves, to its users, as the chat of UserChat.              *)
ImplementsUserChat == Promise!Spec
============================================================================
