-------------------------- MODULE ChatRoomProofs --------------------------
(***************************************************************************)
(* Proofs about what ChatServer's rooms keep and show, for any numbers of  *)
(* descriptors, users and rooms.  They rest on Books of ChatServerProofs:  *)
(* a message reaches the members of a room and changes its history in the  *)
(* same step only because both books of the memberships agree.  With them  *)
(* the server implements UserChat, at the end.                             *)
(***************************************************************************)
EXTENDS ChatServerProofs, SequenceTheorems

(* A step that tells nobody anything: the books and the rooms stay, and a  *)
(* connection that is open afterwards was open, or is new.                 *)
Quiet ==
    /\ UNCHANGED <<accountVars, clients, loggedInUsers, client_in_chat_room, owner,
                   roomClients, history, pinned_message>>
    /\ \A f \in Fds : seen'[f] = seen[f] \/ seen'[f] = <<>>
    /\ \A f \in Fds : conn'[f] = "open" => (conn[f] = "open" /\ seen'[f] = seen[f]) \/ seen'[f] = <<>>

(* A step of the accounts and sessions: the rooms hear nothing of it.      *)
AccountStep(f) ==
    /\ ~InRoom(f)
    /\ \/ \E u \in Users, p \in Passwords : registerUser(f, u, p) \/ loginUser(f, u, p)
       \/ logoutUser(f)
       \/ LoggedIn(f) /\ exitUser(f)
       \/ \E s \in {"online", "offline", "busy"} : setClientStatus(f, s)

(* A step of the rooms.                                                    *)
RoomsStep(f) ==
    \/ ~InRoom(f) /\ \E r \in Rooms : enterChatRoom(f, r) \/ closeChatRoom(f, r)
    \/ InRoom(f) /\ (deletePinMessage(f) \/ exitChatRoom(f))
    \/ InRoom(f) /\ \E t \in Text : setPinMessage(f, t) \/ sendMessage(f, t)

(* What is open after a send was open before.                              *)
LEMMA SendOpensNothing ==
    ASSUME TypeOK, NEW R, Send(R) \/ (SurvivesSend(R) /\ UNCHANGED conn)
    PROVE  \A f \in Fds : conn'[f] = "open" <=> conn[f] = "open"
  BY DEF TypeOK, Send, AfterSend

LEMMA WireIsQuiet ==
    ASSUME Books, NEW f \in Fds,
           \/ ReplyOnly(f)
           \/ SendNothing(f) /\ UNCHANGED <<accountVars, sessionVars, roomVars>>
           \/ OutOfRange(f) \/ OutOfDescriptors
           \/ Connect(f) \/ PeerLeaves(f) \/ ReadFails(f) \/ Disconnect(f)
           \/ UNCHANGED vars
    PROVE  Quiet
<1>1. UNCHANGED <<accountVars, clients, loggedInUsers, client_in_chat_room, owner,
                  roomClients, history, pinned_message>>
  BY DEF ReplyOnly, OutOfRange, OutOfDescriptors, Connect, PeerLeaves, ReadFails, Disconnect,
         vars, sessionVars, roomVars
<1>2. CASE Connect(f)
  BY <1>1, <1>2 DEF Books, TypeOK, Quiet, Connect
<1>3. CASE ~Connect(f)
  <2>1. UNCHANGED seen
    BY <1>3 DEF ReplyOnly, OutOfRange, OutOfDescriptors, PeerLeaves, ReadFails, Disconnect,
                vars, roomVars
  <2>2. \A g \in Fds : conn'[g] = "open" => conn[g] = "open"
    BY <1>3, SendOpensNothing DEF Books, TypeOK, ReplyOnly, SendNothing, OutOfRange,
       OutOfDescriptors, PeerLeaves, ReadFails, Disconnect, vars
  <2>3. QED
    BY <1>1, <2>1, <2>2 DEF Quiet
<1>4. QED
  BY <1>2, <1>3

LEMMA StepCases ==
    ASSUME Books, [Next]_vars
    PROVE  Quiet \/ \E f \in Fds : AccountStep(f) \/ RoomsStep(f)
<1>1. CASE UNCHANGED vars \/ OutOfDescriptors
  <2>1. \A f \in Fds : conn'[f] = conn[f]
    BY <1>1 DEF OutOfDescriptors, vars
  <2>2. QED
    BY <1>1, <2>1 DEF Quiet, OutOfDescriptors, vars, sessionVars, roomVars
<1>2. ASSUME NEW f \in Fds, Connect(f) \/ PeerLeaves(f) \/ ReadFails(f) \/ Disconnect(f)
      PROVE  Quiet
  BY <1>2, WireIsQuiet
<1>3. ASSUME NEW f \in Fds, NEW c \in Command, handleCommand(f, c)
      PROVE  Quiet \/ AccountStep(f) \/ RoomsStep(f)
  <2>1. CASE ~InRoom(f) /\ BasicStep(f)
    <3>1. CASE exitUser(f) /\ ~LoggedIn(f)
      <4>1. UNCHANGED <<accountVars, sessionVars, roomVars>>
        BY <3>1 DEF exitUser, accountVars
      <4>2. \A g \in Fds : conn'[g] = "open" => conn[g] = "open"
        BY <3>1 DEF Books, TypeOK, exitUser
      <4>3. QED
        BY <4>1, <4>2 DEF Quiet, sessionVars, roomVars
    <3>2. CASE OutOfRange(f)
      BY <3>2, WireIsQuiet
    <3>3. QED
      BY <2>1, <3>1, <3>2 DEF BasicStep, AccountStep, RoomsStep
  <2>2. CASE InRoom(f) /\ RoomStep(f)
    <3>1. CASE SendNothing(f) /\ UNCHANGED <<accountVars, sessionVars, roomVars>>
      BY <3>1, WireIsQuiet
    <3>2. QED
      BY <2>2, <3>1 DEF RoomStep, RoomsStep
  <2>3. QED
    BY <1>3, <2>1, <2>2, CommandCases, WireIsQuiet
<1>4. QED
  BY <1>1, <1>2, <1>3 DEF Next, Handle

(* Accounts and sessions change behind the rooms' backs.                   *)
LEMMA RoomsUntouched ==
    ASSUME Books, NEW f \in Fds, AccountStep(f)
    PROVE  /\ UNCHANGED roomVars
           /\ \A g \in Fds : conn'[g] = "open" => conn[g] = "open"
<1>1. UNCHANGED roomVars
  BY DEF AccountStep, registerUser, loginUser, logoutUser, exitUser, setClientStatus
<1>2. \A g \in Fds : conn'[g] = "open" => conn[g] = "open"
  <2>1. CASE exitUser(f)
    BY <2>1 DEF Books, TypeOK, exitUser
  <2>2. CASE Send({f})
    BY <2>2, SendOpensNothing DEF Books
  <2>3. QED
    BY <2>1, <2>2 DEF AccountStep, registerUser, loginUser, logoutUser, setClientStatus
<1>3. QED
  BY <1>1, <1>2
----------------------------------------------------------------------------
(* Accounts.                                                               *)

LEMMA OfflineStep ==
    ASSUME Books, OfflineUnlessLoggedIn, [Next]_vars
    PROVE  OfflineUnlessLoggedIn'
<1>1. CASE Quiet
  BY <1>1 DEF Quiet, OfflineUnlessLoggedIn, accountVars
<1>2. ASSUME NEW f \in Fds, RoomsStep(f)
      PROVE  OfflineUnlessLoggedIn'
  <2>1. UNCHANGED <<accountVars, sessionVars>>
    BY <1>2 DEF RoomsStep, enterChatRoom, closeChatRoom, deletePinMessage, exitChatRoom,
                setPinMessage, sendMessage
  <2>2. QED
    BY <2>1 DEF OfflineUnlessLoggedIn, accountVars, sessionVars
<1>3. ASSUME NEW f \in Fds, AccountStep(f)
      PROVE  OfflineUnlessLoggedIn'
  <2>1. ASSUME NEW u \in Users, NEW p \in Passwords, registerUser(f, u, p)
        PROVE  OfflineUnlessLoggedIn'
    BY <2>1, NoneAreNew DEF Books, TypeOK, OfflineUnlessLoggedIn, registerUser, sessionVars
  <2>2. ASSUME NEW u \in Users, NEW p \in Passwords, loginUser(f, u, p)
        PROVE  OfflineUnlessLoggedIn'
    BY <2>2, NoneAreNew DEF Books, TypeOK, OfflineUnlessLoggedIn, loginUser, MayLogin
  <2>3. CASE logoutUser(f) \/ (LoggedIn(f) /\ exitUser(f))
    <3>1. EndSession(f) /\ UNCHANGED registerd_user
      BY <2>3 DEF logoutUser, exitUser
    <3>2. QED
      BY <3>1 DEF Books, TypeOK, OfflineUnlessLoggedIn, EndSession
  <2>4. ASSUME NEW s \in {"online", "offline", "busy"}, setClientStatus(f, s)
        PROVE  OfflineUnlessLoggedIn'
    BY <2>4 DEF Books, TypeOK, OfflineUnlessLoggedIn, setClientStatus, LoggedIn, sessionVars
  <2>5. QED
    BY <1>3, <2>1, <2>2, <2>3, <2>4 DEF AccountStep
<1>4. QED
  BY <1>1, <1>2, <1>3, StepCases

(* A user who is not logged in is offline; one who is has an account.      *)
THEOREM NobodyElseOnline == Spec => []OfflineUnlessLoggedIn
<1>1. Init => OfflineUnlessLoggedIn
  BY DEF Init, OfflineUnlessLoggedIn
<1>2. QED
  BY <1>1, BooksHold, OfflineStep, PTL DEF Spec

----------------------------------------------------------------------------
(* Rooms that are closed.                                                  *)

LEMMA EmptyStep ==
    ASSUME Books, ClosedRoomsAreEmpty, [Next]_vars
    PROVE  ClosedRoomsAreEmpty'
<1>1. CASE Quiet
  BY <1>1 DEF Quiet, ClosedRoomsAreEmpty, Exists, Members
<1>2. ASSUME NEW f \in Fds, AccountStep(f)
      PROVE  ClosedRoomsAreEmpty'
  BY <1>2, RoomsUntouched DEF ClosedRoomsAreEmpty, Exists, Members, roomVars
<1>3. ASSUME NEW f \in Fds, NEW r \in Rooms, enterChatRoom(f, r)
      PROVE  ClosedRoomsAreEmpty'
  <2>1. clients[f] # NoUser
    BY <1>3 DEF enterChatRoom, LoggedIn
  <2>2. \A q \in Rooms : q # r =>
           /\ owner'[q] = owner[q] /\ history'[q] = history[q]
           /\ pinned_message'[q] = pinned_message[q]
           /\ \A g \in Fds : roomClients'[q][g] = roomClients[q][g]
    BY <1>3 DEF Books, TypeOK, enterChatRoom, CreateRoom, JoinRoom
  <2>3. owner'[r] # NoUser
    BY <1>3, <2>1 DEF Books, TypeOK, enterChatRoom, CreateRoom, JoinRoom, Exists
  <2>4. QED
    BY <2>2, <2>3 DEF ClosedRoomsAreEmpty, Exists, Members
<1>4. ASSUME NEW f \in Fds, NEW r \in Rooms, closeChatRoom(f, r)
      PROVE  ClosedRoomsAreEmpty'
  <2>1. \A q \in Rooms : q # r =>
           /\ owner'[q] = owner[q] /\ history'[q] = history[q]
           /\ pinned_message'[q] = pinned_message[q]
           /\ \A g \in Fds : roomClients'[q][g] = roomClients[q][g]
    BY <1>4 DEF Books, TypeOK, closeChatRoom, EraseRoom
  <2>2. history'[r] = <<>> /\ pinned_message'[r] = NoPin /\ \A g \in Fds : roomClients'[r][g] = 0
    BY <1>4 DEF Books, TypeOK, closeChatRoom, EraseRoom
  <2>3. QED
    BY <2>1, <2>2 DEF ClosedRoomsAreEmpty, Exists, Members
<1>5. ASSUME NEW f \in Fds, InRoom(f),
             \/ deletePinMessage(f) \/ exitChatRoom(f)
             \/ \E t \in Text : setPinMessage(f, t) \/ sendMessage(f, t)
      PROVE  ClosedRoomsAreEmpty'
  <2> DEFINE r == client_in_chat_room[f]
  <2>1. r \in Rooms /\ owner[r] # NoUser
    BY <1>5 DEF Books, TypeOK, RoomAgreement, InRoom, Exists
  <2>2. UNCHANGED owner
    BY <1>5 DEF deletePinMessage, exitChatRoom, setPinMessage, sendMessage
  <2>3. \A q \in Rooms : q # r =>
           /\ history'[q] = history[q] /\ pinned_message'[q] = pinned_message[q]
           /\ \A g \in Fds : roomClients'[q][g] = roomClients[q][g]
    BY <1>5 DEF Books, TypeOK, deletePinMessage, exitChatRoom, setPinMessage, sendMessage
  <2>4. QED
    BY <2>1, <2>2, <2>3 DEF ClosedRoomsAreEmpty, Exists, Members
<1>6. QED
  BY <1>1, <1>2, <1>3, <1>4, <1>5, StepCases DEF RoomsStep

(* A closed room leaves no member, message or pin to its successor.        *)
THEOREM ClosedRoomsLeaveNothing == Spec => []ClosedRoomsAreEmpty
<1>1. Init => ClosedRoomsAreEmpty
  BY DEF Init, ClosedRoomsAreEmpty, Members, Exists
<1>2. QED
  BY <1>1, BooksHold, EmptyStep, PTL DEF Spec

----------------------------------------------------------------------------
(* What a step may not do to a room.                                       *)

(* Only the owner ends a room, and nobody is left in it.                   *)
THEOREM OwnersEndRooms == Spec => OnlyOwnerEndsRoom
<1> DEFINE Ends == \A r \in Rooms : Exists(r) /\ owner'[r] # owner[r] =>
                      /\ owner'[r] = NoUser
                      /\ \E f \in Fds : clients[f] = owner[r] /\ ~InRoom(f)
                      /\ \A f \in Fds : client_in_chat_room'[f] # r
<1>1. ASSUME Books, [Next]_vars PROVE Ends
  <2> SUFFICES ASSUME NEW r \in Rooms, Exists(r), owner'[r] # owner[r]
               PROVE  /\ owner'[r] = NoUser
                      /\ \E f \in Fds : clients[f] = owner[r] /\ ~InRoom(f)
                      /\ \A f \in Fds : client_in_chat_room'[f] # r
    OBVIOUS
  <2>1. ~Quiet
    BY DEF Quiet
  <2>2. \A f \in Fds : ~AccountStep(f)
    BY RoomsUntouched, <1>1 DEF roomVars
  <2>3. PICK f \in Fds : RoomsStep(f)
    BY <1>1, <2>1, <2>2, StepCases
  <2>4. ~InRoom(f) /\ \E q \in Rooms : enterChatRoom(f, q) \/ closeChatRoom(f, q)
    BY <2>3 DEF RoomsStep, deletePinMessage, exitChatRoom, setPinMessage, sendMessage
  <2>5. PICK q \in Rooms : enterChatRoom(f, q) \/ closeChatRoom(f, q)
    BY <2>4
  <2>6. closeChatRoom(f, q) /\ q = r
    BY <1>1, <2>5 DEF Books, TypeOK, enterChatRoom, CreateRoom, JoinRoom, Exists, closeChatRoom, EraseRoom
  <2>7. owner'[r] = NoUser /\ clients[f] = owner[r]
    BY <1>1, <2>6 DEF Books, TypeOK, closeChatRoom, EraseRoom
  <2>8. \A g \in Fds : client_in_chat_room'[g] # r
    BY <1>1, <2>6, MembersPoint, NoneAreNew DEF closeChatRoom, KickOut
  <2>9. QED
    BY <2>4, <2>7, <2>8
<1>2. Spec => [][Ends]_vars
  BY <1>1, BooksHold, PTL DEF Spec
<1>3. QED
  BY <1>2 DEF OnlyOwnerEndsRoom

(* The history of a room that exists grows by its members' messages only.  *)
THEOREM MembersWriteHistory == Spec => HistoryGrowsByMembers
<1> DEFINE Grows == \A r \in Rooms :
                       Exists(r) /\ owner'[r] = owner[r] /\ history'[r] # history[r] =>
                          \E f \in Fds, t \in Text :
                             /\ client_in_chat_room[f] = r
                             /\ history'[r] = Append(history[r], [user |-> clients[f], text |-> t])
<1>1. ASSUME Books, [Next]_vars PROVE Grows
  <2> SUFFICES ASSUME NEW r \in Rooms,
                      Exists(r), owner'[r] = owner[r], history'[r] # history[r]
               PROVE  \E f \in Fds, t \in Text :
                         /\ client_in_chat_room[f] = r
                         /\ history'[r] = Append(history[r], [user |-> clients[f], text |-> t])
    OBVIOUS
  <2>1. ~Quiet
    BY DEF Quiet
  <2>2. \A f \in Fds : ~AccountStep(f)
    BY RoomsUntouched, <1>1 DEF roomVars
  <2>3. PICK f \in Fds : RoomsStep(f)
    BY <1>1, <2>1, <2>2, StepCases
  <2>4. ~(\E q \in Rooms : enterChatRoom(f, q) \/ closeChatRoom(f, q))
    BY <1>1 DEF Books, TypeOK, enterChatRoom, CreateRoom, JoinRoom, Exists, closeChatRoom, EraseRoom
  <2>5. PICK t \in Text : sendMessage(f, t)
    BY <2>3, <2>4 DEF RoomsStep, deletePinMessage, exitChatRoom, setPinMessage
  <2>6. client_in_chat_room[f] = r
    BY <1>1, <2>5 DEF Books, TypeOK, sendMessage
  <2>7. history'[r] = Append(history[r], [user |-> clients[f], text |-> Censor(t)])
    BY <1>1, <2>5, <2>6 DEF Books, TypeOK, sendMessage
  <2>8. QED
    BY <2>6, <2>7, CensorTyped
<1>2. Spec => [][Grows]_vars
  BY <1>1, BooksHold, PTL DEF Spec
<1>3. QED
  BY <1>2 DEF HistoryGrowsByMembers
----------------------------------------------------------------------------
(* What the filter promises.                                               *)

Clean(recs) == \A i \in DOMAIN recs : ~recs[i].text.foul

LEMMA CensorCleans == ASSUME NEW t \in Text PROVE ~Censor(t).foul
  BY DEF Text, Censor

LEMMA CleanAppend ==
    ASSUME NEW s \in Seq(Record), Clean(s), NEW rec \in Record, ~rec.text.foul
    PROVE  Clean(Append(s, rec))
<1>1. /\ Len(Append(s, rec)) = Len(s) + 1
      /\ \A i \in 1..Len(s) : Append(s, rec)[i] = s[i]
      /\ Append(s, rec)[Len(s) + 1] = rec
      /\ Append(s, rec) \in Seq(Record)
  BY AppendProperties
<1>2. DOMAIN Append(s, rec) = 1..(Len(s) + 1) /\ DOMAIN s = 1..Len(s) /\ Len(s) \in Nat
  BY <1>1, LenProperties
<1>3. QED
  BY <1>1, <1>2 DEF Clean

(* t is the end of s: nothing missing, nothing twice.                      *)
IsEnd(t, s) ==
    /\ Len(t) <= Len(s)
    /\ \A i \in 1..Len(t) : t[i] = s[Len(s) - Len(t) + i]

(* The latest records are the end of the history.                          *)
LEMMA LatestIsTheEnd ==
    ASSUME NEW s \in Seq(Record)
    PROVE  Latest(s) \in Seq(Record) /\ IsEnd(Latest(s), s)
<1> DEFINE n == Len(s)
           from == IF n > ShowLast THEN n - ShowLast ELSE 0
           t == SubSeq(s, from + 1, n)
<1>1. n \in Nat /\ from \in Nat /\ from <= n
  BY BoundsAreNat, LenProperties
<1>2. \A i \in (from + 1)..n : s[i] \in Record
  <2>1. \A i \in 1..n : s[i] \in Record
    BY ElementOfSeq
  <2>2. \A i \in (from + 1)..n : i \in 1..n
    BY <1>1
  <2>3. QED
    BY <2>1, <2>2
<1>3. Latest(s) = t
  BY DEF Latest
<1> HIDE DEF from
<1>4. /\ t \in Seq(Record)
      /\ Len(t) = IF from + 1 <= n THEN n - (from + 1) + 1 ELSE 0
      /\ \A i \in 1..(n - (from + 1) + 1) : t[i] = s[(from + 1) + i - 1]
  BY <1>1, <1>2, SubSeqProperties
<1> HIDE DEF t, n
<1>5. Len(t) = n - from
  BY <1>1, <1>4
<1>6. \A i \in 1..(n - from) : t[i] = s[from + i]
  <2> SUFFICES ASSUME NEW i \in 1..(n - from) PROVE t[i] = s[from + i]
    OBVIOUS
  <2>1. i \in 1..(n - (from + 1) + 1) /\ (from + 1) + i - 1 = from + i
    BY <1>1
  <2>2. QED
    BY <1>4, <2>1
<1>7. n - (n - from) = from /\ n - from <= n
  BY <1>1
<1>8. IsEnd(t, s)
  <2>1. Len(t) <= n
    BY <1>5, <1>7
  <2>2. \A i \in 1..Len(t) : t[i] = s[n - Len(t) + i]
    BY <1>5, <1>6, <1>7
  <2>3. QED
    BY <2>1, <2>2 DEF IsEnd, n
<1>9. QED
  BY <1>3, <1>4, <1>8

LEMMA CleanLatest ==
    ASSUME NEW s \in Seq(Record), Clean(s)
    PROVE  Clean(Latest(s))
<1> DEFINE t == Latest(s)
<1>1. t \in Seq(Record) /\ IsEnd(t, s)
  BY LatestIsTheEnd
<1> HIDE DEF t
<1>2. Len(t) \in Nat /\ Len(s) \in Nat /\ DOMAIN t = 1..Len(t) /\ DOMAIN s = 1..Len(s)
  BY <1>1, LenProperties
<1>3. ASSUME NEW i \in 1..Len(t)
      PROVE  ~t[i].text.foul
  <2>1. Len(s) - Len(t) + i \in 1..Len(s)
    BY <1>1, <1>2 DEF IsEnd
  <2>2. t[i] = s[Len(s) - Len(t) + i]
    BY <1>1 DEF IsEnd
  <2>3. QED
    BY <1>2, <2>1, <2>2 DEF Clean
<1>4. Clean(t)
  BY <1>2, <1>3 DEF Clean
<1>5. QED
  BY <1>4 DEF t

LEMMA FoulStep ==
    ASSUME Books, NothingFoulShown, [Next]_vars
    PROVE  NothingFoulShown'
<1>1. /\ \A r \in Rooms : Clean(history[r]) /\ (pinned_message[r] # NoPin => ~pinned_message[r].text.foul)
      /\ \A g \in Fds : Clean(seen[g])
      /\ Clean(<<>>)
  BY DEF NothingFoulShown, Clean
<1> DEFINE Goal == /\ \A r \in Rooms : Clean(history'[r])
                   /\ \A r \in Rooms : pinned_message'[r] # NoPin => ~pinned_message'[r].text.foul
                   /\ \A g \in Fds : Clean(seen'[g])
<1>2. Goal => NothingFoulShown'
  BY DEF NothingFoulShown, Clean
<1>3. ASSUME Quiet PROVE Goal
  <2>1. \A g \in Fds : Clean(seen'[g])
    BY <1>1, <1>3 DEF Quiet
  <2>2. UNCHANGED <<history, pinned_message>>
    BY <1>3 DEF Quiet
  <2>3. QED
    BY <1>1, <2>1, <2>2
<1>4. ASSUME NEW f \in Fds, AccountStep(f)
      PROVE  Goal
  BY <1>1, <1>4, RoomsUntouched DEF roomVars
<1>5. ASSUME NEW f \in Fds, NEW r \in Rooms, enterChatRoom(f, r)
      PROVE  Goal
  <2>1. CASE CreateRoom(f, r)
    BY <1>1, <2>1 DEF Books, TypeOK, CreateRoom
  <2>2. CASE JoinRoom(f, r)
    <3>1. Clean(Latest(history[r]))
      BY <1>1, CleanLatest DEF Books, TypeOK
    <3>2. \A g \in Fds : seen'[g] = IF g = f THEN Latest(history[r]) ELSE seen[g]
      BY <2>2 DEF Books, TypeOK, JoinRoom
    <3>3. UNCHANGED <<history, pinned_message>>
      BY <2>2 DEF JoinRoom
    <3>4. QED
      BY <1>1, <3>1, <3>2, <3>3
  <2>3. QED
    BY <1>5, <2>1, <2>2 DEF enterChatRoom
<1>6. ASSUME NEW f \in Fds, NEW r \in Rooms, closeChatRoom(f, r)
      PROVE  Goal
  BY <1>1, <1>6 DEF Books, TypeOK, closeChatRoom, EraseRoom, KickOut
<1>7. ASSUME NEW f \in Fds, deletePinMessage(f) \/ exitChatRoom(f)
      PROVE  Goal
  BY <1>1, <1>7 DEF Books, TypeOK, deletePinMessage, exitChatRoom
<1>8. ASSUME NEW f \in Fds, InRoom(f), NEW t \in Text, setPinMessage(f, t)
      PROVE  Goal
  <2> DEFINE rec == [user |-> clients[f], text |-> Censor(t)]
  <2>1. ~rec.text.foul
    BY CensorCleans
  <2>2. \A r \in Rooms : pinned_message'[r] = IF r = client_in_chat_room[f] THEN rec ELSE pinned_message[r]
    BY <1>8 DEF Books, TypeOK, setPinMessage
  <2>3. UNCHANGED <<history, seen>>
    BY <1>8 DEF setPinMessage
  <2> HIDE DEF rec
  <2>4. QED
    BY <1>1, <2>1, <2>2, <2>3
<1>9. ASSUME NEW f \in Fds, InRoom(f), NEW t \in Text, sendMessage(f, t)
      PROVE  Goal
  <2> DEFINE rec == [user |-> clients[f], text |-> Censor(t)]
             q == client_in_chat_room[f]
  <2>1. ~rec.text.foul /\ rec \in Record
    BY <1>9, CensorCleans, CensorTyped DEF Books, TypeOK, MembersAreLoggedIn, LoggedIn, Record
  <2>2. \A r \in Rooms : history'[r] = IF r = q THEN Append(history[r], rec) ELSE history[r]
    BY <1>9 DEF Books, TypeOK, sendMessage
  <2>3. \A g \in Fds : seen'[g] = Append(seen[g], rec) \/ seen'[g] = seen[g]
    BY <1>9 DEF sendMessage, Show
  <2>4. /\ \A r \in Rooms : history[r] \in Seq(Record)
        /\ \A g \in Fds : seen[g] \in Seq(Record)
        /\ UNCHANGED pinned_message
    BY <1>9 DEF Books, TypeOK, sendMessage
  <2> HIDE DEF rec, q
  <2>5. QED
    BY <1>1, <2>1, <2>2, <2>3, <2>4, CleanAppend
<1>10. QED
  BY <1>2, <1>3, <1>4, <1>5, <1>6, <1>7, <1>8, <1>9, StepCases DEF RoomsStep

(* No word of the filter list reaches a history, a pin or a screen.        *)
THEOREM FilterHolds == Spec => []NothingFoulShown
<1>1. Init => NothingFoulShown
  BY DEF Init, NothingFoulShown
<1>2. QED
  BY <1>1, BooksHold, FoulStep, PTL DEF Spec
----------------------------------------------------------------------------
(* What the members of a room have been shown.                             *)

LEMMA EndIsSubSeq ==
    ASSUME NEW s \in Seq(Record), NEW t \in Seq(Record)
    PROVE  IsEnd(t, s) <=> Len(t) <= Len(s) /\ t = SubSeq(s, Len(s) - Len(t) + 1, Len(s))
<1> DEFINE n == Len(s)
           k == Len(t)
<1> SUFFICES ASSUME k <= n
             PROVE  (\A i \in 1..k : t[i] = s[n - k + i]) <=> t = SubSeq(s, n - k + 1, n)
  BY DEF IsEnd
<1>1. n \in Nat /\ k \in Nat
  BY LenProperties
<1>2. \A i \in (n - k + 1)..n : s[i] \in Record
  <2>1. \A i \in 1..n : s[i] \in Record
    BY ElementOfSeq
  <2>2. \A i \in (n - k + 1)..n : i \in 1..n
    BY <1>1
  <2>3. QED
    BY <2>1, <2>2
<1> DEFINE e == SubSeq(s, n - k + 1, n)
<1>3. n - k + 1 \in Int /\ n \in Int
  BY <1>1
<1>4. /\ e \in Seq(Record)
      /\ Len(e) = IF n - k + 1 <= n THEN n - (n - k + 1) + 1 ELSE 0
      /\ \A i \in 1..(n - (n - k + 1) + 1) : e[i] = s[(n - k + 1) + i - 1]
  BY <1>2, <1>3, SubSeqProperties
<1> HIDE DEF e, n
<1>5. Len(e) = k
  BY <1>1, <1>4
<1>6. \A i \in 1..k : e[i] = s[n - k + i]
  <2> SUFFICES ASSUME NEW i \in 1..k PROVE e[i] = s[n - k + i]
    OBVIOUS
  <2>1. i \in 1..(n - (n - k + 1) + 1) /\ (n - k + 1) + i - 1 = n - k + i
    BY <1>1
  <2>2. QED
    BY <1>4, <2>1
<1>7. (\A i \in 1..k : t[i] = s[n - k + i]) => t = e
  <2> SUFFICES ASSUME \A i \in 1..k : t[i] = s[n - k + i] PROVE t = e
    OBVIOUS
  <2>1. \A i \in 1..Len(t) : t[i] = e[i]
    BY <1>6
  <2>2. QED
    BY <1>4, <1>5, <2>1, SeqEqual
<1>8. t = e => \A i \in 1..k : t[i] = s[n - k + i]
  BY <1>6
<1>9. QED
  BY <1>7, <1>8 DEF e, n

LEMMA EndAppend ==
    ASSUME NEW s \in Seq(Record), NEW t \in Seq(Record), IsEnd(t, s), NEW rec \in Record
    PROVE  IsEnd(Append(t, rec), Append(s, rec))
<1> DEFINE n == Len(s)
           k == Len(t)
           s1 == Append(s, rec)
           t1 == Append(t, rec)
<1>1. n \in Nat /\ k \in Nat
  BY LenProperties
<1>2. /\ Len(s1) = n + 1 /\ s1[n + 1] = rec
      /\ \A i \in 1..n : s1[i] = s[i]
  BY AppendProperties
<1>3. /\ Len(t1) = k + 1 /\ t1[k + 1] = rec
      /\ \A i \in 1..k : t1[i] = t[i]
  BY AppendProperties
<1>4. k <= n /\ \A i \in 1..k : t[i] = s[n - k + i]
  BY DEF IsEnd
<1> HIDE DEF n, k, s1, t1
<1>5. ASSUME NEW i \in 1..(k + 1)
      PROVE  t1[i] = s1[(n + 1) - (k + 1) + i]
  <2>1. (n + 1) - (k + 1) + i = n - k + i
    BY <1>1
  <2>2. CASE i = k + 1
    <3>1. n - k + i = n + 1
      BY <1>1, <2>2
    <3>2. QED
      BY <1>2, <1>3, <2>1, <2>2, <3>1
  <2>3. CASE i \in 1..k
    <3>1. n - k + i \in 1..n
      BY <1>1, <1>4, <2>3
    <3>2. QED
      BY <1>2, <1>3, <1>4, <2>1, <2>3, <3>1
  <2>4. QED
    BY <1>1, <2>2, <2>3
<1>6. Len(t1) <= Len(s1)
  BY <1>1, <1>2, <1>3, <1>4
<1>7. IsEnd(t1, s1)
  BY <1>2, <1>3, <1>5, <1>6 DEF IsEnd
<1>8. QED
  BY <1>7 DEF s1, t1

LEMMA NothingIsEnd == ASSUME NEW s \in Seq(Record) PROVE IsEnd(<<>>, s)
<1>1. Len(s) \in Nat /\ Len(<<>>) = 0
  BY LenProperties
<1>2. QED
  BY <1>1 DEF IsEnd

(* TranscriptsAgree in terms of IsEnd.                                     *)
Transcripts ==
    \A f \in Fds : InRoom(f) /\ conn[f] = "open" => IsEnd(seen[f], history[client_in_chat_room[f]])

LEMMA TranscriptsMean == TypeOK => (Transcripts <=> TranscriptsAgree)
<1> SUFFICES ASSUME TypeOK, NEW f \in Fds, InRoom(f)
             PROVE  LET h == history[client_in_chat_room[f]] IN
                    IsEnd(seen[f], h) <=>
                        Len(seen[f]) <= Len(h) /\ seen[f] = SubSeq(h, Len(h) - Len(seen[f]) + 1, Len(h))
  BY DEF Transcripts, TranscriptsAgree
<1>1. history[client_in_chat_room[f]] \in Seq(Record) /\ seen[f] \in Seq(Record)
  BY DEF TypeOK, InRoom
<1>2. QED
  BY <1>1, EndIsSubSeq

LEMMA TranscriptsStep ==
    ASSUME Books, Transcripts, [Next]_vars
    PROVE  Transcripts'
<1>1. /\ \A r \in Rooms : history[r] \in Seq(Record)
      /\ \A g \in Fds : /\ seen[g] \in Seq(Record)
                        /\ client_in_chat_room[g] # NoRoom => client_in_chat_room[g] \in Rooms
  BY DEF Books, TypeOK
<1>2. \A g \in Fds : client_in_chat_room[g] # NoRoom /\ conn[g] = "open" =>
                       IsEnd(seen[g], history[client_in_chat_room[g]])
  BY DEF Transcripts, InRoom
<1>3. SUFFICES ASSUME NEW g \in Fds, client_in_chat_room'[g] # NoRoom, conn'[g] = "open"
               PROVE  IsEnd(seen'[g], history'[client_in_chat_room'[g]])
  BY DEF Transcripts, InRoom
<1> DEFINE Goal == IsEnd(seen'[g], history'[client_in_chat_room'[g]])
<1>4. ASSUME Quiet PROVE Goal
  <2>1. UNCHANGED <<client_in_chat_room, history>>
    BY <1>4 DEF Quiet
  <2>2. (conn[g] = "open" /\ seen'[g] = seen[g]) \/ seen'[g] = <<>>
    BY <1>3, <1>4 DEF Quiet
  <2>3. QED
    BY <1>1, <1>2, <1>3, <2>1, <2>2, NothingIsEnd
<1>5. ASSUME NEW f \in Fds, AccountStep(f) PROVE Goal
  BY <1>2, <1>3, <1>5, RoomsUntouched DEF roomVars
<1>6. ASSUME NEW f \in Fds, ~InRoom(f), NEW r \in Rooms, enterChatRoom(f, r)
      PROVE  Goal
  <2>1. \A h \in Fds : client_in_chat_room'[h] = IF h = f THEN r ELSE client_in_chat_room[h]
    BY <1>6 DEF Books, TypeOK, enterChatRoom
  <2>2. conn[g] = "open"
    BY <1>3, <1>6, SendOpensNothing DEF Books, enterChatRoom, CreateRoom, JoinRoom
  <2>3. CASE CreateRoom(f, r)
    <3>1. client_in_chat_room[g] # r
      BY <2>3, NoneAreNew DEF Books, RoomAgreement, CreateRoom, InRoom
    <3>2. \A h \in Fds : seen'[h] = IF h = f THEN <<>> ELSE seen[h]
      BY <2>3 DEF Books, TypeOK, CreateRoom
    <3>3. \A q \in Rooms : history'[q] = IF q = r THEN <<>> ELSE history[q]
      BY <2>3 DEF Books, TypeOK, CreateRoom
    <3>4. CASE g = f
      <4>1. seen'[g] = <<>> /\ history'[client_in_chat_room'[g]] = <<>>
        BY <2>1, <3>2, <3>3, <3>4
      <4>2. <<>> \in Seq(Record)
        OBVIOUS
      <4>3. QED
        BY <4>1, <4>2, NothingIsEnd
    <3>5. CASE g # f
      BY <1>1, <1>2, <1>3, <2>1, <2>2, <3>1, <3>2, <3>3, <3>5
    <3>6. QED
      BY <3>4, <3>5
  <2>4. CASE JoinRoom(f, r)
    <3>1. \A h \in Fds : seen'[h] = IF h = f THEN Latest(history[r]) ELSE seen[h]
      BY <2>4 DEF Books, TypeOK, JoinRoom
    <3>2. UNCHANGED history
      BY <2>4 DEF JoinRoom
    <3>3. IsEnd(Latest(history[r]), history[r])
      BY <1>1, LatestIsTheEnd
    <3>4. QED
      BY <1>2, <1>3, <2>1, <2>2, <3>1, <3>2, <3>3
  <2>5. QED
    BY <1>6, <2>3, <2>4 DEF enterChatRoom
<1>7. ASSUME NEW f \in Fds, NEW r \in Rooms, closeChatRoom(f, r)
      PROVE  Goal
  <2>1. conn[g] = "open"
    BY <1>3, <1>7, SendOpensNothing DEF Books, closeChatRoom
  <2>2. g \in Members(r) <=> client_in_chat_room[g] = r
    BY <1>7, MembersPoint
  <2>3. /\ client_in_chat_room'[g] = IF g \in Members(r) THEN NoRoom ELSE client_in_chat_room[g]
        /\ seen'[g] = IF g \in Members(r) THEN <<>> ELSE seen[g]
    BY <1>7 DEF closeChatRoom, KickOut
  <2>4. client_in_chat_room[g] # r /\ client_in_chat_room'[g] = client_in_chat_room[g] /\ seen'[g] = seen[g]
    BY <1>3, <2>2, <2>3
  <2>5. history'[client_in_chat_room[g]] = history[client_in_chat_room[g]]
    BY <1>3, <1>7, <2>4 DEF Books, TypeOK, closeChatRoom, EraseRoom
  <2>6. QED
    BY <1>2, <1>3, <2>1, <2>4, <2>5
<1>8. ASSUME NEW f \in Fds, deletePinMessage(f) \/ exitChatRoom(f) \/ \E t \in Text : setPinMessage(f, t)
      PROVE  Goal
  <2>1. conn[g] = "open"
    BY <1>3, <1>8, SendOpensNothing DEF Books, deletePinMessage, SendNothing, exitChatRoom, setPinMessage
  <2>2. \A h \in Fds : client_in_chat_room'[h] # NoRoom =>
           client_in_chat_room'[h] = client_in_chat_room[h] /\ seen'[h] = seen[h]
    BY <1>8 DEF Books, TypeOK, deletePinMessage, exitChatRoom, setPinMessage
  <2>3. UNCHANGED history
    BY <1>8 DEF deletePinMessage, exitChatRoom, setPinMessage
  <2>4. QED
    BY <1>2, <1>3, <2>1, <2>2, <2>3
<1>9. ASSUME NEW f \in Fds, InRoom(f), NEW t \in Text, sendMessage(f, t)
      PROVE  Goal
  <2> DEFINE rec == [user |-> clients[f], text |-> Censor(t)]
             q == client_in_chat_room[f]
  <2>1. rec \in Record /\ q \in Rooms
    BY <1>9, CensorTyped DEF Books, TypeOK, MembersAreLoggedIn, InRoom, LoggedIn, Record
  <2>2. \A r \in Rooms : history'[r] = IF r = q THEN Append(history[r], rec) ELSE history[r]
    BY <1>9 DEF Books, TypeOK, sendMessage
  <2>3. conn[g] = "open"
    BY <1>3, <1>9, SendOpensNothing DEF Books, sendMessage
  <2>4. seen'[g] = IF client_in_chat_room[g] = q THEN Append(seen[g], rec) ELSE seen[g]
    <3>1. g \in Members(q) \cup {f} <=> client_in_chat_room[g] = q
      BY <2>1, MembersPoint
    <3>2. QED
      BY <1>9, <2>3, <3>1 DEF sendMessage, Show
  <2>5. UNCHANGED client_in_chat_room
    BY <1>9 DEF sendMessage
  <2> HIDE DEF rec, q
  <2>6. QED
    BY <1>1, <1>2, <1>3, <2>1, <2>2, <2>3, <2>4, <2>5, EndAppend
<1>10. QED
  BY <1>4, <1>5, <1>6, <1>7, <1>8, <1>9, StepCases DEF RoomsStep

(* All connected members of a room agree on its conversation: what each    *)
(* was shown is, without gap or repetition, the end of the history.        *)
THEOREM MembersAgree == Spec => []TranscriptsAgree
<1>1. Init => Transcripts
  BY DEF Init, Transcripts, InRoom
<1>2. Books /\ Transcripts => TranscriptsAgree
  BY TranscriptsMean DEF Books
<1>3. QED
  BY <1>1, <1>2, BooksHold, TranscriptsStep, PTL DEF Spec

----------------------------------------------------------------------------
(* ChatServer implements UserChat.  A user's place is read off the one     *)
(* descriptor he is logged in on; that there is only one, and that a new   *)
(* room starts empty, are invariants proved above.                         *)

places == [u \in Users |-> Place(u)]

(* A user is chosen by no other descriptor than his own.                   *)
LEMMA ChosenFd ==
    ASSUME NEW cl, NEW f \in Fds, \A g \in Fds : cl[g] = cl[f] => g = f
    PROVE  (CHOOSE g \in Fds : cl[g] = cl[f]) = f
  OBVIOUS

LEMMA PlaceOf ==
    ASSUME Books, NEW f \in Fds, NEW u \in Users, clients[f] = u
    PROVE  Place(u) = IF InRoom(f) THEN client_in_chat_room[f] ELSE "lobby"
<1>1. u # NoUser /\ u \in loggedInUsers
  BY NoneAreNew DEF Books, SessionAgreement
<1>2. \A g \in Fds : clients[g] = clients[f] => g = f
  BY <1>1 DEF Books, SessionAgreement
<1>3. FdOf(u) = f
  BY <1>2, ChosenFd DEF FdOf
<1>4. QED
  BY <1>1, <1>3 DEF Place

LEMMA PlaceOfNext ==
    ASSUME Books', NEW f \in Fds, NEW u \in Users, clients'[f] = u
    PROVE  Place(u)' = IF client_in_chat_room'[f] # NoRoom THEN client_in_chat_room'[f] ELSE "lobby"
<1>1. u # NoUser /\ u \in loggedInUsers'
  BY NoneAreNew DEF Books, SessionAgreement
<1>2. \A g \in Fds : clients'[g] = clients'[f] => g = f
  BY <1>1 DEF Books, SessionAgreement
<1>3. FdOf(u)' = f
  BY <1>2, ChosenFd DEF FdOf
<1>4. QED
  BY <1>1, <1>3 DEF Place, InRoom

(* Everybody is logged in on a descriptor or away.                         *)
LEMMA AwayOrHere ==
    ASSUME Books, NEW u \in Users
    PROVE  (\A f \in Fds : clients[f] # u) => Place(u) = "away"
  BY DEF Books, SessionAgreement, Place

LEMMA AwayOrHereNext ==
    ASSUME Books', NEW u \in Users
    PROVE  (\A f \in Fds : clients'[f] # u) => Place(u)' = "away"
  BY DEF Books, SessionAgreement, Place

LEMMA PlacesStay ==
    ASSUME UNCHANGED <<clients, loggedInUsers, client_in_chat_room>>
    PROVE  places' = places
<1>1. ASSUME NEW u \in Users PROVE Place(u)' = Place(u)
  BY DEF Place, FdOf, InRoom
<1>2. QED
  BY <1>1 DEF places

(* When one descriptor's session or room changes, only its user moves.     *)
LEMMA OneMoves ==
    ASSUME Books, Books', NEW f \in Fds, NEW u \in Users, NEW p,
           clients[f] \in {u, NoUser}, clients'[f] \in {u, NoUser},
           \A g \in Fds : g # f => clients[g] # u,
           \A g \in Fds : g # f => clients'[g] = clients[g]
                                   /\ client_in_chat_room'[g] = client_in_chat_room[g],
           Place(u)' = p
    PROVE  places' = [places EXCEPT ![u] = p]
<1>1. ASSUME NEW v \in Users, v # u
      PROVE  Place(v)' = Place(v)
  <2>1. v # NoUser
    BY NoneAreNew
  <2>2. CASE \E g \in Fds : clients[g] = v
    <3>1. PICK g \in Fds : clients[g] = v
      BY <2>2
    <3>2. g # f /\ clients'[g] = v /\ client_in_chat_room'[g] = client_in_chat_room[g]
      BY <1>1, <2>1, <3>1
    <3>3. Place(v) = IF InRoom(g) THEN client_in_chat_room[g] ELSE "lobby"
      BY <3>1, PlaceOf
    <3>4. Place(v)' = IF client_in_chat_room'[g] # NoRoom THEN client_in_chat_room'[g] ELSE "lobby"
      BY <3>2, PlaceOfNext
    <3>5. QED
      BY <3>2, <3>3, <3>4 DEF InRoom
  <2>3. CASE \A g \in Fds : clients[g] # v
    <3>1. \A g \in Fds : clients'[g] # v
      BY <1>1, <2>1, <2>3
    <3>2. QED
      BY <2>3, <3>1, AwayOrHere, AwayOrHereNext
  <2>4. QED
    BY <2>2, <2>3
<1>2. QED
  BY <1>1 DEF places
----------------------------------------------------------------------------
(* Each step of the server, to its users.                                  *)

(* What the steps below leave alone, in the terms of UserChat.             *)
SameRoomsAbove == UNCHANGED <<registerd_user, owner, history, pinned_message>>

Above == [Promise!Next]_(Promise!vars)

LEMMA StutterAbove ==
    ASSUME SameRoomsAbove, places' = places
    PROVE  Above
  BY DEF SameRoomsAbove, Above, places, Promise!vars

LEMMA AccountAbove ==
    ASSUME Books, Books', OfflineUnlessLoggedIn, NEW f \in Fds, AccountStep(f)
    PROVE  Above
<1>1. UNCHANGED <<client_in_chat_room, owner, history, pinned_message>>
  BY RoomsUntouched DEF roomVars
<1>2. ~InRoom(f) /\ ~InRoom(f)'
  BY <1>1 DEF AccountStep, InRoom
<1>3. ASSUME NEW u \in Users, NEW p \in Passwords, registerUser(f, u, p)
      PROVE  Above
  <2>1. places' = places
    BY <1>1, <1>3, PlacesStay DEF registerUser, sessionVars
  <2>2. Promise!Register(u)
    BY <1>1, <1>3, <2>1 DEF Promise!Register, registerUser, places
  <2>3. QED
    BY <2>2 DEF Above, Promise!Next
<1>4. ASSUME NEW u \in Users, NEW p \in Passwords, loginUser(f, u, p)
      PROVE  Above
  <2>1. clients[f] = NoUser /\ u \notin loggedInUsers
    BY <1>4 DEF Books, TypeOK, SessionAgreement, loginUser, MayLogin, LoggedIn
  <2>2. \A g \in Fds : clients[g] # u
    BY <2>1, NoneAreNew DEF Books, SessionAgreement
  <2>3. \A g \in Fds : clients'[g] = IF g = f THEN u ELSE clients[g]
    BY <1>4 DEF Books, TypeOK, loginUser
  <2>4. Place(u)' = "lobby"
    BY <1>2, <2>3, PlaceOfNext DEF InRoom
  <2>5. places' = [places EXCEPT ![u] = "lobby"]
    BY <1>1, <2>1, <2>2, <2>3, <2>4, OneMoves
  <2>6. places[u] = "away" /\ registerd_user[u] # NoPassword /\ UNCHANGED registerd_user
    BY <1>4, <2>1, NoneAreNew DEF places, Place, loginUser, MayLogin
  <2>7. Promise!Login(u)
    BY <1>1, <2>5, <2>6 DEF Promise!Login, places
  <2>8. QED
    BY <2>7 DEF Above, Promise!Next
<1>5. CASE logoutUser(f) \/ (LoggedIn(f) /\ exitUser(f))
  <2>1. LoggedIn(f) /\ EndSession(f) /\ UNCHANGED registerd_user
    BY <1>5 DEF logoutUser, exitUser
  <2> DEFINE u == clients[f]
  <2>2. u \in Users /\ u # NoUser
    BY <2>1 DEF Books, TypeOK, LoggedIn
  <2>3. \A g \in Fds : clients'[g] = IF g = f THEN NoUser ELSE clients[g]
    BY <2>1 DEF Books, TypeOK, EndSession
  <2>4. \A g \in Fds : g # f => clients[g] # u
    BY <2>2 DEF Books, SessionAgreement
  <2>5. Place(u) = "lobby"
    BY <1>2, <2>2, PlaceOf
  <2> HIDE DEF u
  <2>6. \A g \in Fds : clients'[g] # u
    BY <2>2, <2>3, <2>4
  <2>7. ASSUME NEW v \in Users, v = u
        PROVE  places' = [places EXCEPT ![v] = "away"] /\ Promise!Logout(v)
    <3>1. Place(v)' = "away"
      BY <2>6, <2>7, AwayOrHereNext
    <3>2. clients[f] = v
      BY <2>7 DEF u
    <3>3. places' = [places EXCEPT ![v] = "away"]
      BY <1>1, <2>3, <2>4, <2>7, <3>1, <3>2, OneMoves
    <3>4. places[v] = "lobby"
      BY <2>5, <2>7 DEF places
    <3>5. QED
      BY <1>1, <2>1, <3>3, <3>4 DEF Promise!Logout, places
  <2>8. QED
    BY <2>2, <2>7 DEF Above, Promise!Next
<1>6. ASSUME NEW s \in {"online", "offline", "busy"}, setClientStatus(f, s)
      PROVE  Above
  <2>1. places' = places
    BY <1>1, <1>6, PlacesStay DEF setClientStatus, sessionVars
  <2>2. QED
    BY <1>1, <1>6, <2>1, StutterAbove DEF SameRoomsAbove, setClientStatus
<1>7. QED
  BY <1>3, <1>4, <1>5, <1>6 DEF AccountStep

LEMMA RoomsAbove ==
    ASSUME Books, Books', ClosedRoomsAreEmpty, NEW f \in Fds, RoomsStep(f)
    PROVE  Above
<1>1. UNCHANGED <<registerd_user, clients, loggedInUsers>>
  BY DEF RoomsStep, enterChatRoom, closeChatRoom, deletePinMessage, exitChatRoom, setPinMessage,
         sendMessage, accountVars, sessionVars
<1>2. clients[f] \in Users
  BY DEF Books, TypeOK, RoomsStep, MembersAreLoggedIn, LoggedIn, enterChatRoom, closeChatRoom
<1>3. PICK u \in Users : clients[f] = u
  BY <1>2
<1>4. u # NoUser /\ \A g \in Fds : g # f => clients[g] # u
  BY <1>3, NoneAreNew DEF Books, SessionAgreement
<1>5. places[u] = IF InRoom(f) THEN client_in_chat_room[f] ELSE "lobby"
  BY <1>3, PlaceOf DEF places
<1>6. Place(u)' = IF client_in_chat_room'[f] # NoRoom THEN client_in_chat_room'[f] ELSE "lobby"
  BY <1>1, <1>3, PlaceOfNext
<1>7. ASSUME ~InRoom(f), NEW r \in Rooms, enterChatRoom(f, r)
      PROVE  Above
  <2>1. \A g \in Fds : client_in_chat_room'[g] = IF g = f THEN r ELSE client_in_chat_room[g]
    BY <1>7 DEF Books, TypeOK, enterChatRoom
  <2>2. Place(u)' = r
    BY <1>6, <2>1, NoneAreNew
  <2>3. places' = [places EXCEPT ![u] = r]
    BY <1>1, <1>3, <1>4, <2>1, <2>2, OneMoves
  <2>4. places[u] = "lobby"
    BY <1>5, <1>7
  <2>5. CASE CreateRoom(f, r)
    <3>1. owner[r] = NoUser /\ owner' = [owner EXCEPT ![r] = u]
      BY <1>3, <2>5 DEF CreateRoom, Exists
    <3>2. history[r] = <<>> /\ pinned_message[r] = NoPin
      BY <3>1 DEF ClosedRoomsAreEmpty, Exists
    <3>3. history' = history /\ pinned_message' = pinned_message
      BY <2>5, <3>2 DEF Books, TypeOK, CreateRoom
    <3>4. Promise!Open(u, r)
      BY <1>1, <2>3, <2>4, <3>1, <3>3 DEF Promise!Open, places
    <3>5. QED
      BY <3>4 DEF Above, Promise!Next
  <2>6. CASE JoinRoom(f, r)
    <3>1. owner[r] # NoUser /\ UNCHANGED <<owner, history, pinned_message>>
      BY <2>6 DEF JoinRoom, Exists
    <3>2. Promise!Enter(u, r)
      BY <1>1, <2>3, <2>4, <3>1 DEF Promise!Enter, places
    <3>3. QED
      BY <3>2 DEF Above, Promise!Next
  <2>7. QED
    BY <1>7, <2>5, <2>6 DEF enterChatRoom
<1>8. ASSUME ~InRoom(f), NEW r \in Rooms, closeChatRoom(f, r)
      PROVE  Above
  <2>1. \A g \in Fds : client_in_chat_room'[g] =
           IF client_in_chat_room[g] = r THEN NoRoom ELSE client_in_chat_room[g]
    <3>1. \A g \in Fds : g \in Members(r) <=> client_in_chat_room[g] = r
      BY <1>8, MembersPoint
    <3>2. QED
      BY <1>8, <3>1 DEF closeChatRoom, KickOut
  <2>2. ASSUME NEW v \in Users
        PROVE  Place(v)' = IF places[v] = r THEN "lobby" ELSE places[v]
    <3>1. places[v] = Place(v)
      BY DEF places
    <3>2. CASE \E g \in Fds : clients[g] = v
      <4>1. PICK g \in Fds : clients[g] = v
        BY <3>2
      <4>2. Place(v) = IF InRoom(g) THEN client_in_chat_room[g] ELSE "lobby"
        BY <4>1, PlaceOf
      <4>3. Place(v)' = IF client_in_chat_room'[g] # NoRoom THEN client_in_chat_room'[g] ELSE "lobby"
        BY <1>1, <4>1, PlaceOfNext
      <4>4. r # NoRoom
        BY NoneAreNew
      <4>5. QED
        BY <2>1, <3>1, <4>2, <4>3, <4>4 DEF InRoom
    <3>3. CASE \A g \in Fds : clients[g] # v
      <4>1. Place(v) = "away" /\ Place(v)' = "away"
        BY <1>1, <3>3, AwayOrHere, AwayOrHereNext
      <4>2. r # "away"
        BY RoomsAreNumbers
      <4>3. QED
        BY <3>1, <4>1, <4>2
    <3>4. QED
      BY <3>2, <3>3
  <2>3. places' = [v \in Users |-> IF places[v] = r THEN "lobby" ELSE places[v]]
    BY <2>2 DEF places
  <2>4. /\ owner[r] = u /\ owner' = [owner EXCEPT ![r] = NoUser]
        /\ history' = [history EXCEPT ![r] = <<>>]
        /\ pinned_message' = [pinned_message EXCEPT ![r] = NoPin]
    BY <1>3, <1>8 DEF closeChatRoom, EraseRoom
  <2>5. places[u] = "lobby"
    BY <1>5, <1>8
  <2>6. Promise!Close(u, r)
    BY <1>1, <2>3, <2>4, <2>5 DEF Promise!Close, places
  <2>7. QED
    BY <2>6 DEF Above, Promise!Next
<1>9. ASSUME InRoom(f), exitChatRoom(f)
      PROVE  Above
  <2>1. \A g \in Fds : client_in_chat_room'[g] = IF g = f THEN NoRoom ELSE client_in_chat_room[g]
    BY <1>9 DEF Books, TypeOK, exitChatRoom
  <2>2. Place(u)' = "lobby"
    BY <1>6, <2>1
  <2>3. places' = [places EXCEPT ![u] = "lobby"]
    BY <1>1, <1>3, <1>4, <2>1, <2>2, OneMoves
  <2>4. places[u] \in Rooms
    BY <1>5, <1>9 DEF Books, TypeOK, InRoom
  <2>5. UNCHANGED <<owner, history, pinned_message>>
    BY <1>9 DEF exitChatRoom
  <2>6. Promise!Leave(u)
    BY <1>1, <2>3, <2>4, <2>5 DEF Promise!Leave, places
  <2>7. QED
    BY <2>6 DEF Above, Promise!Next
<1>10. ASSUME InRoom(f), NEW t \in Text,
              deletePinMessage(f) \/ setPinMessage(f, t) \/ sendMessage(f, t)
       PROVE  Above
  <2> DEFINE r == client_in_chat_room[f]
  <2>1. r \in Rooms /\ places[u] = r
    BY <1>5, <1>10 DEF Books, TypeOK, InRoom
  <2>2. places' = places
    <3>1. UNCHANGED client_in_chat_room
      BY <1>10 DEF deletePinMessage, setPinMessage, sendMessage
    <3>2. QED
      BY <1>1, <3>1, PlacesStay
  <2>3. Censor(t) \in {x \in Text : ~x.foul}
    BY CensorTyped, CensorCleans
  <2>4. CASE deletePinMessage(f)
    <3>1. UNCHANGED <<owner, history>> /\ pinned_message' = [pinned_message EXCEPT ![r] = NoPin]
      BY <2>4 DEF deletePinMessage
    <3>2. Promise!Unpin(u, r)
      BY <1>1, <2>1, <2>2, <3>1 DEF Promise!Unpin, places
    <3>3. QED
      BY <2>1, <3>2 DEF Above, Promise!Next
  <2>5. CASE setPinMessage(f, t)
    <3>1. /\ UNCHANGED <<owner, history>>
          /\ pinned_message' = [pinned_message EXCEPT ![r] = [user |-> u, text |-> Censor(t)]]
      BY <1>3, <2>5 DEF setPinMessage
    <3>2. Promise!Pin(u, r)
      BY <1>1, <2>1, <2>2, <2>3, <3>1 DEF Promise!Pin, places
    <3>3. QED
      BY <2>1, <3>2 DEF Above, Promise!Next
  <2>6. CASE sendMessage(f, t)
    <3>1. /\ UNCHANGED <<owner, pinned_message>>
          /\ history' = [history EXCEPT ![r] = Append(@, [user |-> u, text |-> Censor(t)])]
      BY <1>3, <2>6 DEF sendMessage
    <3>2. Promise!Say(u, r)
      BY <1>1, <2>1, <2>2, <2>3, <3>1 DEF Promise!Say, places
    <3>3. QED
      BY <2>1, <3>2 DEF Above, Promise!Next
  <2>7. QED
    BY <1>10, <2>4, <2>5, <2>6
<1>11. deletePinMessage(f) /\ InRoom(f) => Above
  <2>1. ASSUME deletePinMessage(f), InRoom(f) PROVE Above
    <3>1. pinned_message[client_in_chat_room[f]] \in Record
      BY <2>1 DEF Books, TypeOK, InRoom, deletePinMessage
    <3>2. \E t \in Text : TRUE
      BY <3>1 DEF Record
    <3>3. QED
      BY <1>10, <2>1, <3>2
  <2>2. QED
    BY <2>1
<1>12. QED
  BY <1>7, <1>8, <1>9, <1>10, <1>11 DEF RoomsStep

LEMMA StepAbove ==
    ASSUME Books, Books', OfflineUnlessLoggedIn, ClosedRoomsAreEmpty, [Next]_vars
    PROVE  Above
<1>1. CASE Quiet
  <2>1. places' = places
    BY <1>1, PlacesStay DEF Quiet
  <2>2. QED
    BY <1>1, <2>1, StutterAbove DEF SameRoomsAbove, Quiet, accountVars
<1>2. QED
  BY <1>1, StepCases, AccountAbove, RoomsAbove

(* To its users the server is the chat of UserChat: every step of a        *)
(* connection, a command or a handler is one of its steps or none.         *)
THEOREM ServerIsUserChat == Spec => ImplementsUserChat
<1>1. Init => Promise!Init
  <2> SUFFICES ASSUME Init PROVE Promise!Init
    OBVIOUS
  <2>1. places = [u \in Users |-> "away"]
    BY DEF Init, places, Place
  <2>2. QED
    BY <2>1 DEF Init, Promise!Init, places
<1>2. Books /\ Books' /\ OfflineUnlessLoggedIn /\ ClosedRoomsAreEmpty /\ [Next]_vars
         => [Promise!Next]_(Promise!vars)
  BY StepAbove DEF Above
<1>3. QED
  BY <1>1, <1>2, BooksHold, NobodyElseOnline, ClosedRoomsLeaveNothing, PTL
  DEF Spec, ImplementsUserChat, Promise!Spec
============================================================================
