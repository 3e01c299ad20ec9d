------------------------- MODULE ChatServerProofs -------------------------
(***************************************************************************)
(* Proofs about ChatServer for any numbers of descriptors, users and rooms.*)
(* A session is kept in clients and loggedInUsers, a membership in         *)
(* client_in_chat_room and roomClients.  The type of a record rests on its *)
(* author being logged in, that rests on memberships agreeing, and so on:  *)
(* only the conjunction Books is inductive.                                *)
(***************************************************************************)
EXTENDS ChatServer, TLAPS

Books == TypeOK /\ SessionAgreement /\ RoomAgreement /\ MembersAreLoggedIn

----------------------------------------------------------------------------
(* The steps, with what handleCommand has established when a handler runs. *)

BasicStep(f) ==
    \/ \E u \in Users, p \in Passwords : registerUser(f, u, p)
    \/ \E u \in Users, p \in Passwords : loginUser(f, u, p)
    \/ logoutUser(f)
    \/ exitUser(f)
    \/ \E s \in {"online", "offline", "busy"} : setClientStatus(f, s)
    \/ \E r \in Rooms : enterChatRoom(f, r)
    \/ \E r \in Rooms : closeChatRoom(f, r)
    \/ OutOfRange(f)

RoomStep(f) ==
    \/ \E t \in Text : setPinMessage(f, t)
    \/ deletePinMessage(f)
    \/ exitChatRoom(f)
    \/ \E t \in Text : sendMessage(f, t)
    \/ SendNothing(f) /\ UNCHANGED <<accountVars, sessionVars, roomVars>>

(* handleCommand runs a basic command outside a room, a room command in    *)
(* one, or only replies.                                                   *)
LEMMA CommandCases ==
    ASSUME NEW f \in Fds, NEW c \in Command, handleCommand(f, c)
    PROVE  \/ ~InRoom(f) /\ BasicStep(f)
           \/ InRoom(f) /\ RoomStep(f)
           \/ ReplyOnly(f)
<1>1. c.op \in {"register", "login"} => c.user \in Users /\ c.pass \in Passwords
  BY DEF Command
<1>2. c.op \in {"/pin", "say"} => c.text \in Text
  BY DEF Command
<1>3. CASE ~InRoom(f) /\ BasicCommand(f, c)
  BY <1>1, <1>3 DEF BasicCommand, BasicStep, enterChatRoom, closeChatRoom, setClientStatus
<1>4. CASE InRoom(f) /\ RoomCommand(f, c)
  <2>1. Spoken(c) \subseteq Text
    BY <1>2 DEF Spoken
  <2>2. QED
    BY <1>2, <1>4, <2>1 DEF RoomCommand, RoomStep
<1>5. CASE InRoom(f) /\ EmptyInRoom(f, c)
  BY <1>5 DEF EmptyInRoom, RoomStep
<1>6. QED
  BY <1>3, <1>4, <1>5 DEF handleCommand

----------------------------------------------------------------------------
(* What the parts of a step leave alone.                                   *)

LEMMA SendTyped ==
    ASSUME TypeOK, NEW R, Send(R) \/ (SurvivesSend(R) /\ UNCHANGED conn)
    PROVE  up' \in BOOLEAN /\ conn' \in [Fds -> {"closed", "open", "left", "reset"}]
  BY DEF TypeOK, Send, SurvivesSend, AfterSend

LEMMA SameSessions ==
    ASSUME UNCHANGED sessionVars, SessionAgreement
    PROVE  SessionAgreement'
  BY DEF sessionVars, SessionAgreement

LEMMA SameRooms ==
    ASSUME UNCHANGED roomVars, RoomAgreement
    PROVE  RoomAgreement'
  BY DEF roomVars, RoomAgreement, InRoom, Exists

LEMMA CensorTyped == ASSUME NEW t \in Text PROVE Censor(t) \in Text
  BY DEF Text, Censor

(* In agreement with Books, a descriptor outside every room is nobody's    *)
(* member, and the members of a room are exactly those that point to it.   *)
LEMMA MembersPoint ==
    ASSUME Books, NEW r \in Rooms
    PROVE  Members(r) = {f \in Fds : client_in_chat_room[f] = r}
  BY DEF Books, RoomAgreement, Members

----------------------------------------------------------------------------
(* Commands that change accounts and sessions.                             *)

LEMMA RegisterPreserves ==
    ASSUME Books, NEW f \in Fds, NEW u \in Users, NEW p \in Passwords, registerUser(f, u, p)
    PROVE  Books'
<1>1. TypeOK'
  BY SendTyped DEF Books, TypeOK, registerUser, sessionVars, roomVars
<1>2. SessionAgreement' /\ RoomAgreement'
  BY SameSessions, SameRooms DEF Books, registerUser
<1>3. MembersAreLoggedIn'
  BY DEF Books, MembersAreLoggedIn, registerUser, InRoom, LoggedIn, sessionVars, roomVars
<1>4. QED
  BY <1>1, <1>2, <1>3 DEF Books

LEMMA LoginPreserves ==
    ASSUME Books, NEW f \in Fds, NEW u \in Users, NEW p \in Passwords, loginUser(f, u, p)
    PROVE  Books'
<1>1. TypeOK'
  BY SendTyped DEF Books, TypeOK, loginUser, roomVars
<1>2. clients[f] = NoUser
  BY DEF Books, TypeOK, SessionAgreement, loginUser, MayLogin, LoggedIn
<1>3. SessionAgreement'
  <2>1. u # NoUser /\ u \notin {clients[g] : g \in Fds}
    BY NoneAreNew DEF Books, SessionAgreement, loginUser, MayLogin
  <2>2. \A g \in Fds : clients'[g] = IF g = f THEN u ELSE clients[g]
    BY DEF Books, TypeOK, loginUser
  <2>3. loggedInUsers' = {clients'[g] : g \in Fds} \ {NoUser}
    BY <1>2, <2>1, <2>2 DEF Books, SessionAgreement, loginUser
  <2>4. QED
    BY <2>1, <2>2, <2>3 DEF Books, SessionAgreement
<1>4. RoomAgreement'
  BY SameRooms DEF Books, loginUser
<1>5. MembersAreLoggedIn'
  <2>1. loggedInUsers' = loggedInUsers \cup {u} /\ UNCHANGED client_in_chat_room
    BY DEF loginUser, roomVars
  <2>2. \A g \in Fds : clients'[g] = IF g = f THEN u ELSE clients[g]
    BY DEF Books, TypeOK, loginUser
  <2>3. QED
    BY <2>1, <2>2, NoneAreNew DEF Books, MembersAreLoggedIn, InRoom, LoggedIn
<1>6. QED
  BY <1>1, <1>3, <1>4, <1>5 DEF Books

(* logoutUser, and exitUser when it logs out, run outside every room: the  *)
(* user who goes is no member, and no member has his name.                 *)
LEMMA EndSessionPreserves ==
    ASSUME Books, NEW f \in Fds, LoggedIn(f), ~InRoom(f), EndSession(f),
           UNCHANGED <<registerd_user, roomVars>>,
           up' \in BOOLEAN, conn' \in [Fds -> {"closed", "open", "left", "reset"}]
    PROVE  Books'
<1>1. clients[f] \in Users /\ clients[f] # NoUser
  BY DEF Books, TypeOK, LoggedIn
<1>2. \A g \in Fds : clients'[g] = IF g = f THEN NoUser ELSE clients[g]
  BY DEF Books, TypeOK, EndSession
<1>3. TypeOK'
  BY <1>1 DEF Books, TypeOK, EndSession, roomVars
<1>4. SessionAgreement'
  <2>1. \A g \in Fds : clients[g] = clients[f] => g = f
    BY <1>1 DEF Books, SessionAgreement
  <2>2. loggedInUsers' = {clients'[g] : g \in Fds} \ {NoUser}
    BY <1>1, <1>2, <2>1 DEF Books, SessionAgreement, EndSession
  <2>3. QED
    BY <1>2, <2>2 DEF Books, SessionAgreement
<1>5. RoomAgreement'
  BY SameRooms DEF Books
<1>6. MembersAreLoggedIn'
  BY <1>1, <1>2 DEF Books, SessionAgreement, MembersAreLoggedIn, EndSession, InRoom, LoggedIn, roomVars
<1>7. QED
  BY <1>3, <1>4, <1>5, <1>6 DEF Books

LEMMA ExitPreserves ==
    ASSUME Books, NEW f \in Fds, up, ~InRoom(f), exitUser(f)
    PROVE  Books'
<1>1. conn' \in [Fds -> {"closed", "open", "left", "reset"}]
  BY DEF Books, TypeOK, exitUser
<1>2. CASE LoggedIn(f)
  <2>1. up' \in BOOLEAN
    BY <1>2 DEF exitUser, SurvivesSend
  <2>2. QED
    BY <1>1, <1>2, <2>1, EndSessionPreserves DEF exitUser
<1>3. CASE ~LoggedIn(f)
  <2>1. UNCHANGED <<up, accountVars, sessionVars, roomVars>>
    BY <1>3 DEF exitUser, accountVars
  <2>2. TypeOK'
    BY <1>1, <2>1 DEF Books, TypeOK, accountVars, sessionVars, roomVars
  <2>3. MembersAreLoggedIn'
    BY <2>1 DEF Books, MembersAreLoggedIn, InRoom, LoggedIn, sessionVars, roomVars
  <2>4. QED
    BY <2>1, <2>2, <2>3, SameSessions, SameRooms DEF Books
<1>4. QED
  BY <1>2, <1>3

LEMMA SetStatusPreserves ==
    ASSUME Books, NEW f \in Fds, NEW s \in {"online", "offline", "busy"}, setClientStatus(f, s)
    PROVE  Books'
<1>1. TypeOK'
  BY SendTyped DEF Books, TypeOK, setClientStatus, sessionVars, roomVars
<1>2. SessionAgreement' /\ RoomAgreement'
  BY SameSessions, SameRooms DEF Books, setClientStatus
<1>3. MembersAreLoggedIn'
  BY DEF Books, MembersAreLoggedIn, setClientStatus, InRoom, LoggedIn, sessionVars, roomVars
<1>4. QED
  BY <1>1, <1>2, <1>3 DEF Books

----------------------------------------------------------------------------
(* Commands that change rooms and memberships.                             *)

LEMMA LatestTyped ==
    ASSUME NEW s \in Seq(Record)
    PROVE  Latest(s) \in Seq(Record)
  BY BoundsAreNat DEF Latest

LEMMA EnterPreserves ==
    ASSUME Books, NEW f \in Fds, NEW r \in Rooms, ~InRoom(f), enterChatRoom(f, r)
    PROVE  Books'
<1>1. clients[f] \in Users /\ clients[f] # NoUser
  BY DEF Books, TypeOK, enterChatRoom, LoggedIn
<1>2. \A g \in Fds : client_in_chat_room'[g] = IF g = f THEN r ELSE client_in_chat_room[g]
  BY DEF Books, TypeOK, enterChatRoom
<1>3. client_in_chat_room[f] = NoRoom
  BY DEF InRoom
<1>4. MembersAreLoggedIn'
  BY <1>2 DEF Books, MembersAreLoggedIn, enterChatRoom, InRoom, LoggedIn, sessionVars
<1>5. SessionAgreement'
  BY SameSessions DEF Books, enterChatRoom
<1>6. client_in_chat_room' \in [Fds -> Rooms \cup {NoRoom}]
  BY DEF Books, TypeOK, enterChatRoom
<1>7. CASE CreateRoom(f, r)
  <2>1. TypeOK'
    <3>1. history' \in [Rooms -> Seq(Record)] /\ seen' \in [Fds -> Seq(Record)]
      BY <1>7 DEF Books, TypeOK, CreateRoom
    <3>2. roomClients' \in [Rooms -> [Fds -> Nat]]
      BY <1>7 DEF Books, TypeOK, CreateRoom
    <3>3. QED
      BY <1>1, <1>6, <1>7, <3>1, <3>2, SendTyped
      DEF Books, TypeOK, CreateRoom, enterChatRoom, accountVars, sessionVars
  <2>2. \A q \in Rooms, g \in Fds : roomClients'[q][g] =
           IF q = r THEN (IF g = f THEN 1 ELSE 0) ELSE roomClients[q][g]
    BY <1>7 DEF Books, TypeOK, CreateRoom
  <2>3. \A g \in Fds : client_in_chat_room[g] # r
    BY <1>7, NoneAreNew DEF Books, RoomAgreement, CreateRoom, InRoom
  <2>4. \A q \in Rooms : owner'[q] = IF q = r THEN clients[f] ELSE owner[q]
    BY <1>7 DEF Books, TypeOK, CreateRoom
  <2>5. RoomAgreement'
    BY <1>1, <1>2, <1>3, <1>6, <2>2, <2>3, <2>4, NoneAreNew DEF Books, TypeOK, RoomAgreement, InRoom, Exists
  <2>6. QED
    BY <1>4, <1>5, <2>1, <2>5 DEF Books
<1>8. CASE JoinRoom(f, r)
  <2>1. TypeOK'
    <3>1. roomClients' \in [Rooms -> [Fds -> Nat]]
      BY <1>8 DEF Books, TypeOK, JoinRoom
    <3>2. seen' \in [Fds -> Seq(Record)]
      BY <1>8, LatestTyped DEF Books, TypeOK, JoinRoom
    <3>3. QED
      BY <1>6, <1>8, <3>1, <3>2, SendTyped
      DEF Books, TypeOK, JoinRoom, enterChatRoom, accountVars, sessionVars
  <2>2. \A q \in Rooms, g \in Fds : roomClients'[q][g] =
           IF q = r /\ g = f THEN roomClients[r][f] + 1 ELSE roomClients[q][g]
    BY <1>8 DEF Books, TypeOK, JoinRoom
  <2>3. roomClients[r][f] = 0
    BY <1>3, NoneAreNew DEF Books, RoomAgreement
  <2>4. RoomAgreement'
    <3>1. \A g \in Fds, q \in Rooms :
             roomClients'[q][g] = IF client_in_chat_room'[g] = q THEN 1 ELSE 0
      BY <1>2, <1>3, <2>2, <2>3, NoneAreNew DEF Books, RoomAgreement
    <3>2. \A g \in Fds : client_in_chat_room'[g] # NoRoom => owner'[client_in_chat_room'[g]] # NoUser
      BY <1>2, <1>8 DEF Books, RoomAgreement, JoinRoom, InRoom, Exists
    <3>3. QED
      BY <3>1, <3>2 DEF RoomAgreement, InRoom, Exists
  <2>5. QED
    BY <1>4, <1>5, <2>1, <2>4 DEF Books
<1>9. QED
  BY <1>7, <1>8 DEF enterChatRoom

(* Closing puts out everyone who points to the room, so nobody is left     *)
(* pointing to a room that is gone.                                        *)
LEMMA ClosePreserves ==
    ASSUME Books, NEW f \in Fds, NEW r \in Rooms, closeChatRoom(f, r)
    PROVE  Books'
<1>1. \A g \in Fds : client_in_chat_room'[g] =
         IF client_in_chat_room[g] = r THEN NoRoom ELSE client_in_chat_room[g]
  BY MembersPoint DEF closeChatRoom, KickOut
<1>2. client_in_chat_room' \in [Fds -> Rooms \cup {NoRoom}]
  BY DEF Books, TypeOK, closeChatRoom, KickOut
<1>3. TypeOK'
  <2>1. history' \in [Rooms -> Seq(Record)] /\ seen' \in [Fds -> Seq(Record)]
    BY DEF Books, TypeOK, closeChatRoom, KickOut, EraseRoom
  <2>2. roomClients' \in [Rooms -> [Fds -> Nat]]
    BY DEF Books, TypeOK, closeChatRoom, EraseRoom
  <2>3. QED
    BY <1>2, <2>1, <2>2, SendTyped
    DEF Books, TypeOK, closeChatRoom, EraseRoom, accountVars, sessionVars
<1>4. SessionAgreement'
  BY SameSessions DEF Books, closeChatRoom
<1>5. RoomAgreement'
  <2>1. \A q \in Rooms, g \in Fds : roomClients'[q][g] = IF q = r THEN 0 ELSE roomClients[q][g]
    BY DEF Books, TypeOK, closeChatRoom, EraseRoom
  <2>2. \A q \in Rooms : owner'[q] = IF q = r THEN NoUser ELSE owner[q]
    BY DEF Books, TypeOK, closeChatRoom, EraseRoom
  <2>3. QED
    <3>1. \A g \in Fds, q \in Rooms :
             roomClients'[q][g] = IF client_in_chat_room'[g] = q THEN 1 ELSE 0
      BY <1>1, <2>1, NoneAreNew DEF Books, RoomAgreement
    <3>2. \A g \in Fds : client_in_chat_room'[g] # NoRoom => owner'[client_in_chat_room'[g]] # NoUser
      BY <1>1, <2>2 DEF Books, TypeOK, RoomAgreement, InRoom, Exists
    <3>3. QED
      BY <3>1, <3>2 DEF RoomAgreement, InRoom, Exists
<1>6. MembersAreLoggedIn'
  BY <1>1 DEF Books, MembersAreLoggedIn, closeChatRoom, InRoom, LoggedIn, sessionVars
<1>7. QED
  BY <1>3, <1>4, <1>5, <1>6 DEF Books

LEMMA LeaveRoomPreserves ==
    ASSUME Books, NEW f \in Fds, InRoom(f), exitChatRoom(f)
    PROVE  Books'
<1> DEFINE r == client_in_chat_room[f]
<1>1. r \in Rooms
  BY DEF Books, TypeOK, InRoom
<1>2. \A g \in Fds : client_in_chat_room'[g] = IF g = f THEN NoRoom ELSE client_in_chat_room[g]
  BY DEF Books, TypeOK, exitChatRoom
<1>3. roomClients[r][f] = 1
  BY <1>1 DEF Books, RoomAgreement
<1>4. \A q \in Rooms, g \in Fds : roomClients'[q][g] =
         IF q = r /\ g = f THEN 0 ELSE roomClients[q][g]
  BY <1>1, <1>3 DEF Books, TypeOK, exitChatRoom
<1>5. TypeOK'
  <2>1. roomClients' \in [Rooms -> [Fds -> Nat]]
    BY <1>1, <1>3 DEF Books, TypeOK, exitChatRoom
  <2>2. client_in_chat_room' \in [Fds -> Rooms \cup {NoRoom}] /\ seen' \in [Fds -> Seq(Record)]
    BY DEF Books, TypeOK, exitChatRoom
  <2>3. QED
    BY <2>1, <2>2, SendTyped DEF Books, TypeOK, exitChatRoom, accountVars, sessionVars
<1>6. SessionAgreement'
  BY SameSessions DEF Books, exitChatRoom
<1>7. RoomAgreement'
  BY <1>1, <1>2, <1>4, NoneAreNew DEF Books, TypeOK, RoomAgreement, exitChatRoom, InRoom, Exists
<1>8. MembersAreLoggedIn'
  BY <1>2 DEF Books, MembersAreLoggedIn, exitChatRoom, InRoom, LoggedIn, sessionVars
<1>9. QED
  BY <1>5, <1>6, <1>7, <1>8 DEF Books

----------------------------------------------------------------------------
(* Commands that change what a room shows, and steps that change only the  *)
(* connection: the books are as they were.                                 *)

LEMMA SameBooks ==
    ASSUME Books, TypeOK',
           UNCHANGED <<clients, loggedInUsers, client_in_chat_room, owner, roomClients>>
    PROVE  Books'
<1>1. SessionAgreement'
  BY DEF Books, SessionAgreement
<1>2. RoomAgreement'
  BY DEF Books, RoomAgreement, InRoom, Exists
<1>3. MembersAreLoggedIn'
  BY DEF Books, MembersAreLoggedIn, InRoom, LoggedIn
<1>4. QED
  BY <1>1, <1>2, <1>3 DEF Books

LEMMA TalkPreserves ==
    ASSUME Books, NEW f \in Fds, InRoom(f), NEW t \in Text,
           setPinMessage(f, t) \/ deletePinMessage(f) \/ sendMessage(f, t)
    PROVE  Books'
<1> DEFINE r == client_in_chat_room[f]
           rec == [user |-> clients[f], text |-> Censor(t)]
<1>1. r \in Rooms
  BY DEF Books, TypeOK, InRoom
<1>2. rec \in Record
  BY CensorTyped DEF Books, TypeOK, MembersAreLoggedIn, LoggedIn, Record
<1>3. CASE setPinMessage(f, t)
  <2>1. TypeOK'
    BY <1>2, <1>3, SendTyped DEF Books, TypeOK, setPinMessage, accountVars, sessionVars
  <2>2. QED
    BY <1>3, <2>1, SameBooks DEF setPinMessage, sessionVars
<1>4. CASE deletePinMessage(f)
  <2>1. TypeOK'
    BY <1>4, SendTyped DEF Books, TypeOK, deletePinMessage, SendNothing, accountVars, sessionVars
  <2>2. QED
    BY <1>4, <2>1, SameBooks DEF deletePinMessage, sessionVars
<1>5. CASE sendMessage(f, t)
  <2>1. history' \in [Rooms -> Seq(Record)]
    BY <1>1, <1>2, <1>5 DEF Books, TypeOK, sendMessage
  <2>2. seen' \in [Fds -> Seq(Record)]
    BY <1>2, <1>5 DEF Books, TypeOK, sendMessage, Show
  <2>3. TypeOK'
    BY <1>5, <2>1, <2>2, SendTyped DEF Books, TypeOK, sendMessage, accountVars, sessionVars
  <2>4. QED
    BY <1>5, <2>3, SameBooks DEF sendMessage, sessionVars
<1>6. QED
  BY <1>3, <1>4, <1>5

LEMMA WirePreserves ==
    ASSUME Books, NEW f \in Fds,
           \/ ReplyOnly(f)
           \/ SendNothing(f) /\ UNCHANGED <<accountVars, sessionVars, roomVars>>
           \/ OutOfRange(f) \/ OutOfDescriptors
           \/ Connect(f) \/ PeerLeaves(f) \/ ReadFails(f) \/ Disconnect(f)
           \/ UNCHANGED vars
    PROVE  Books'
<1>1. UNCHANGED <<clients, loggedInUsers, client_in_chat_room, owner, roomClients,
                  history, pinned_message, accountVars>>
  BY DEF ReplyOnly, OutOfRange, OutOfDescriptors, Connect, PeerLeaves, ReadFails, Disconnect,
         vars, sessionVars, roomVars
<1>2. up' \in BOOLEAN /\ conn' \in [Fds -> {"closed", "open", "left", "reset"}]
  BY SendTyped DEF Books, TypeOK, ReplyOnly, SendNothing, OutOfRange, OutOfDescriptors,
         Connect, PeerLeaves, ReadFails, Disconnect, vars
<1>3. authed' \in [Fds -> Users \cup {NoUser}] /\ seen' \in [Fds -> Seq(Record)]
  <2>1. CASE Connect(f)
    BY <2>1 DEF Books, TypeOK, Connect
  <2>2. CASE ~Connect(f)
    <3>1. UNCHANGED <<authed, seen>>
      BY <2>2 DEF ReplyOnly, OutOfRange, OutOfDescriptors, PeerLeaves, ReadFails, Disconnect,
                  vars, sessionVars, roomVars
    <3>2. QED
      BY <3>1 DEF Books, TypeOK
  <2>3. QED
    BY <2>1, <2>2
<1>4. UNCHANGED <<registerd_user, status>>
  BY <1>1 DEF accountVars
<1>5. TypeOK'
  BY <1>1, <1>2, <1>3, <1>4 DEF Books, TypeOK
<1>6. QED
  BY <1>1, <1>5, SameBooks

----------------------------------------------------------------------------
(* The theorems.                                                           *)

LEMMA InitBooks == Init => Books
<1> SUFFICES ASSUME Init PROVE Books
  OBVIOUS
<1>1. TypeOK
  BY DEF Init, TypeOK
<1>2. SessionAgreement
  BY DEF Init, SessionAgreement
<1>3. RoomAgreement /\ MembersAreLoggedIn
  BY NoneAreNew DEF Init, RoomAgreement, MembersAreLoggedIn, InRoom
<1>4. QED
  BY <1>1, <1>2, <1>3 DEF Books

LEMMA NextBooks == Books /\ [Next]_vars => Books'
<1> SUFFICES ASSUME Books, [Next]_vars PROVE Books'
  OBVIOUS
<1>1. CASE UNCHANGED vars
  <2>1. TypeOK'
    BY <1>1 DEF Books, TypeOK, vars, accountVars, sessionVars, roomVars
  <2>2. QED
    BY <1>1, <2>1, SameBooks DEF vars, sessionVars, roomVars
<1>2. CASE OutOfDescriptors
  <2>1. TypeOK'
    BY <1>2 DEF Books, TypeOK, OutOfDescriptors, accountVars, sessionVars, roomVars
  <2>2. QED
    BY <1>2, <2>1, SameBooks DEF OutOfDescriptors, sessionVars, roomVars
<1>3. ASSUME NEW f \in Fds, Connect(f) \/ PeerLeaves(f) \/ ReadFails(f) \/ Disconnect(f)
      PROVE  Books'
  BY <1>3, WirePreserves
<1>4. ASSUME NEW f \in Fds, up, NEW c \in Command, handleCommand(f, c)
      PROVE  Books'
  <2>1. CASE ~InRoom(f) /\ BasicStep(f)
    <3>1. CASE logoutUser(f)
      BY <2>1, <3>1, EndSessionPreserves, SendTyped DEF logoutUser, Books
    <3>2. QED
      BY <1>4, <2>1, <3>1, RegisterPreserves, LoginPreserves, ExitPreserves, SetStatusPreserves,
         EnterPreserves, ClosePreserves, WirePreserves DEF BasicStep
  <2>2. CASE InRoom(f) /\ RoomStep(f)
    <3>1. CASE deletePinMessage(f)
      <4>1. TypeOK'
        BY <3>1, SendTyped DEF Books, TypeOK, deletePinMessage, SendNothing, accountVars, sessionVars
      <4>2. QED
        BY <3>1, <4>1, SameBooks DEF deletePinMessage, sessionVars
    <3>2. QED
      BY <2>2, <3>1, TalkPreserves, LeaveRoomPreserves, WirePreserves DEF RoomStep
  <2>3. QED
    BY <1>4, <2>1, <2>2, CommandCases, WirePreserves
<1>5. QED
  BY <1>1, <1>2, <1>3, <1>4 DEF Next, Handle

(* The books of the server agree in every reachable state.                 *)
THEOREM BooksHold == Spec => []Books
<1>1. QED
  BY InitBooks, NextBooks, PTL DEF Spec

(* The state of the server keeps its types.                                *)
THEOREM TypeCorrect == Spec => []TypeOK
<1>1. Books => TypeOK
  BY DEF Books
<1>2. QED
  BY <1>1, BooksHold, PTL

(* loggedInUsers names exactly the users of clients, one descriptor each.  *)
THEOREM SessionsAgree == Spec => []SessionAgreement
<1>1. Books => SessionAgreement
  BY DEF Books
<1>2. QED
  BY <1>1, BooksHold, PTL

(* A room lists exactly the descriptors that point to it, each once, and   *)
(* no descriptor points to a room that does not exist.                     *)
THEOREM RoomsAgree == Spec => []RoomAgreement
<1>1. Books => RoomAgreement
  BY DEF Books
<1>2. QED
  BY <1>1, BooksHold, PTL

(* No handler dereferences the user of a member that has none.             *)
THEOREM MembersHaveUsers == Spec => []MembersAreLoggedIn
<1>1. Books => MembersAreLoggedIn
  BY DEF Books
<1>2. QED
  BY <1>1, BooksHold, PTL
============================================================================
