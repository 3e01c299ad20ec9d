------------------------- MODULE SelectLoopProofs -------------------------
(***************************************************************************)
(* Proofs about the chat server's process for any number of descriptors,   *)
(* clients and slots: that every step of it is a step of ChatServer or     *)
(* invisible to it, that its table of connections is never stale, and that *)
(* it never waits in read().                                               *)
(***************************************************************************)
EXTENDS SelectLoop, ChatRoomProofs, WellFoundedInduction

----------------------------------------------------------------------------
(* What one read() makes of the lines it took.                             *)

LEMMA HasLowest ==
    ASSUME NEW S, S \subseteq Nat, S # {}
    PROVE  \E n \in S : \A m \in S : n <= m
<1> DEFINE R == OpToRel(<, Nat)
<1>1. IsWellFoundedOn(R, Nat)
  BY NatLessThanWellFounded
<1>2. \A x \in Nat, y \in Nat : <<y, x>> \in R <=> y < x
  BY DEF OpToRel
<1> HIDE DEF R
<1>3. PICK x \in S : \A y \in S : ~(<<y, x>> \in R)
  BY <1>1, WFMin
<1>4. ASSUME NEW y \in S PROVE x <= y
  <2>1. x \in Nat /\ y \in Nat
    OBVIOUS
  <2>2. ~(y < x)
    BY <1>2, <1>3, <2>1
  <2>3. QED
    BY <2>1, <2>2
<1>5. QED
  BY <1>4

LEMMA OneCommandTyped ==
    ASSUME NEW lines \in Seq(Command)
    PROVE  OneCommand(lines) \in Command
<1> DEFINE said == {i \in DOMAIN lines : lines[i].op # "empty"}
           i0 == CHOOSE i \in said : \A j \in said : i <= j
           first == lines[i0]
           foul == \E i \in said : Foul(lines[i])
<1>1. CASE said = {}
  BY <1>1 DEF OneCommand, Command
<1>2. CASE said # {}
  <2>1. said \subseteq Nat
    OBVIOUS
  <2>2. i0 \in said
    BY <1>2, <2>1, HasLowest
  <2>3. first \in Command
    BY <2>2
  <2>4. first.op \in {"/pin", "say"} => [first EXCEPT !.text.foul = foul] \in Command
    <3> SUFFICES ASSUME first.op \in {"/pin", "say"}
                 PROVE  [first EXCEPT !.text.foul = foul] \in Command
      OBVIOUS
    <3>1. first \in [op : {"/pin", "say"}, text : Text]
      BY <2>3 DEF Command
    <3>2. foul \in BOOLEAN
      OBVIOUS
    <3>3. QED
      BY <3>1, <3>2 DEF Text, Command
  <2> DEFINE merged == [first EXCEPT !.text.foul = foul]
  <2>5. OneCommand(lines) =
           IF said = {} THEN [op |-> "empty"]
           ELSE IF \E i \in said : said = {i} THEN first
           ELSE IF first.op \in {"/pin", "say"} THEN merged
           ELSE IF first.op \in {"/delete-pin", "/exit-chat-room", "/none"} THEN [op |-> "/none"]
           ELSE [op |-> "none"]
    BY DEF OneCommand
  <2>6. [op |-> "/none"] \in Command /\ [op |-> "none"] \in Command
    BY DEF Command
  <2> HIDE DEF merged, first, i0, said
  <2>7. QED
    BY <1>2, <2>3, <2>4, <2>5, <2>6 DEF merged
<1>3. QED
  BY <1>1, <1>2
----------------------------------------------------------------------------
(* The process implements ChatServer.                                      *)

Buffers == inbuf \in [Fds -> Seq(Command)]

LEMMA BuffersStep ==
    ASSUME Buffers, [LoopNext]_allVars
    PROVE  Buffers'
<1>1. CASE UNCHANGED inbuf
  BY <1>1 DEF Buffers
<1>2. ASSUME NEW f \in Fds, Write(f) PROVE Buffers'
  BY <1>2, DescriptorsAreNumbers DEF Buffers, Write
<1>3. CASE ReadCommand
  BY <1>3 DEF Buffers, ReadCommand
<1>4. CASE Accept
  <2>1. PICK f \in Fds : WrittenBefore(f)
    BY <1>4 DEF Accept, Lowest, FreeFds
  <2>2. \A c \in Lines : <<c>> \in Seq(Command)
    BY DescriptorsAreNumbers
  <2>3. QED
    BY <2>1, <2>2 DEF Buffers, WrittenBefore
<1>5. QED
  BY <1>1, <1>2, <1>3, <1>4
  DEF LoopNext, Round, allVars, NewClient, Leave, Select, AcceptFails, NothingToAccept,
      ReadEof, ReadError, EndOfRound

LEMMA LoopStepIsServerStep ==
    ASSUME Buffers, [LoopNext]_allVars
    PROVE  [Next]_vars
<1>1. CASE UNCHANGED vars
  BY <1>1
<1>2. ASSUME NEW f \in Fds, Leave(f) PROVE Next
  BY <1>2 DEF Leave, Next
<1>3. CASE Accept
  BY <1>3 DEF Accept, Lowest, FreeFds, Next
<1>4. CASE AcceptFails
  BY <1>4 DEF AcceptFails, Next
<1>5. CASE ReadCommand
  <2>1. PICK f \in Fds : conn[f] # "closed" /\ handleCommand(f, OneCommand(inbuf[f]))
    BY <1>5 DEF ReadCommand
  <2>2. OneCommand(inbuf[f]) \in Command
    BY OneCommandTyped DEF Buffers
  <2>3. QED
    BY <1>5, <2>1, <2>2 DEF ReadCommand, Handle, Next
<1>6. CASE ReadEof
  BY <1>6 DEF ReadEof, Next
<1>7. CASE ReadError
  BY <1>7 DEF ReadError, Next
<1>8. QED
  BY <1>1, <1>2, <1>3, <1>4, <1>5, <1>6, <1>7
  DEF LoopNext, Round, allVars, NewClient, Write, Select, NothingToAccept, EndOfRound

LEMMA BuffersHold == LoopSpec => []Buffers
<1>1. LoopInit => Buffers
  BY DEF LoopInit, Buffers
<1>2. QED
  BY <1>1, BuffersStep, PTL DEF LoopSpec

(* Every step of the process is a step of ChatServer or invisible to it.   *)
THEOREM LoopIsServer == LoopSpec => ImplementsChatServer
<1>1. LoopInit => Init
  BY DEF LoopInit
<1>2. QED
  BY <1>1, BuffersHold, LoopStepIsServerStep, PTL DEF LoopSpec, Spec, ImplementsChatServer

LEMMA LoopBooks == LoopSpec => []Books
  BY LoopIsServer, BooksHold DEF ImplementsChatServer

----------------------------------------------------------------------------
(* The table of connections.                                               *)

LoopTypes ==
    /\ client_socket \in [Slots -> Fds \cup {0}]
    /\ master_set \subseteq Fds
    /\ readfds \subseteq Fds \cup {ServerFd}
    /\ pc \in {"select", "accept", "slots"}
    /\ slot \in Nat

(* While a connection is accepted, everything else that select reported is *)
(* in the table and still has something to read: the connection itself     *)
(* comes under a descriptor that was not reported.                         *)
ReportsAreTrue ==
    pc = "accept" => \A f \in readfds \ {ServerFd} : f \in Served /\ Readable(f)

LoopInv == LoopTypes /\ TableAgreement /\ ReportsAreTrue /\ ReadsDoNotBlock

LEMMA ServedAreSlots ==
    ASSUME NEW f PROVE f \in Served <=> f # 0 /\ \E i \in Slots : client_socket[i] = f
  BY DEF Served

LEMMA SlotsAreNumbers == ASSUME NEW i \in Slots PROVE i \in Nat
  BY DescriptorsAreNumbers DEF Slots

(* A command closes no connection but that of the client who sent it, and  *)
(* a peer that left stays gone.                                            *)
LEMMA HandleConn ==
    ASSUME Books, NEW f \in Fds, NEW c \in Command, handleCommand(f, c)
    PROVE  \A g \in Fds : /\ g # f => (conn'[g] = "closed" <=> conn[g] = "closed")
                          /\ g # f /\ HasEof(g) => HasEof(g)'
<1> DEFINE Keeps == \A g \in Fds : /\ g # f => (conn'[g] = "closed" <=> conn[g] = "closed")
                                   /\ g # f /\ HasEof(g) => HasEof(g)'
<1>1. CASE UNCHANGED conn
  BY <1>1 DEF HasEof
<1>2. ASSUME NEW R, Send(R) PROVE Keeps
  BY <1>2 DEF Send, AfterSend, HasEof
<1>3. CASE exitUser(f)
  BY <1>3 DEF Books, TypeOK, exitUser, HasEof
<1>4. CASE ~InRoom(f) /\ BasicStep(f)
  BY <1>1, <1>2, <1>3, <1>4
  DEF BasicStep, registerUser, loginUser, logoutUser, setClientStatus, enterChatRoom, CreateRoom,
      JoinRoom, closeChatRoom, OutOfRange
<1>5. CASE InRoom(f) /\ RoomStep(f)
  BY <1>1, <1>2, <1>5
  DEF RoomStep, setPinMessage, deletePinMessage, exitChatRoom, sendMessage, SendNothing
<1>6. CASE ReplyOnly(f)
  BY <1>2, <1>6 DEF ReplyOnly
<1>7. QED
  BY <1>4, <1>5, <1>6, CommandCases

(* What taking f out of the table does.                                    *)
LEMMA LeaveTableKeeps ==
    ASSUME LoopTypes, TableAgreement, NEW f \in Fds, LeaveTable(f)
    PROVE  /\ client_socket' \in [Slots -> Fds \cup {0}]
           /\ master_set' = Served'
           /\ Served' = Served \ {f}
           /\ \A i \in Slots : client_socket'[i] # 0 => client_socket'[i] = client_socket[i] /\ client_socket[i] # f
<1>1. \A i \in Slots : client_socket'[i] = IF client_socket[i] = f THEN 0 ELSE client_socket[i]
  BY DEF LeaveTable
<1>2. f # 0
  BY DescriptorsAreNumbers
<1>3. \A g : g \in Served' <=> g # 0 /\ \E i \in Slots : client_socket'[i] = g
  BY DEF Served
<1>4. Served' = Served \ {f}
  BY <1>1, <1>2, <1>3, ServedAreSlots
<1>5. client_socket' \in [Slots -> Fds \cup {0}]
  BY DEF LoopTypes, LeaveTable
<1>6. master_set' = Served'
  BY <1>4 DEF LeaveTable, TableAgreement
<1>7. QED
  BY <1>1, <1>4, <1>5, <1>6
----------------------------------------------------------------------------
(* Steps of the clients and of the loop.                                   *)

(* A step that leaves the table, the reports and the place in the round,   *)
(* and makes nothing unreadable, keeps all.                                *)
LEMMA IdlePreserves ==
    ASSUME LoopInv, UNCHANGED loopVars,
           \A g \in Fds : conn'[g] = "closed" <=> conn[g] = "closed",
           \A g \in Fds : conn[g] \in {"left", "reset"} => conn'[g] \in {"left", "reset"},
           \A g \in Fds : inbuf[g] # <<>> => inbuf'[g] # <<>>
    PROVE  LoopInv'
<1>1. LoopTypes'
  BY DEF LoopInv, LoopTypes, loopVars
<1>2. Served' = Served /\ Served \subseteq Fds
  BY DEF LoopInv, LoopTypes, Served, loopVars
<1>3. TableAgreement'
  BY <1>2 DEF LoopInv, TableAgreement, loopVars
<1>4. ReportsAreTrue'
  <2>1. readfds' = readfds /\ readfds \ {ServerFd} \subseteq Fds
    BY DEF LoopInv, LoopTypes, loopVars
  <2>2. QED
    BY <1>2, <2>1 DEF LoopInv, ReportsAreTrue, loopVars, Readable, HasEof
<1>5. ReadsDoNotBlock'
  <2>1. ReadySlots' = ReadySlots
    BY DEF ReadySlots, loopVars
  <2>2. \A i \in ReadySlots : client_socket[i] \in Fds
    BY DEF LoopInv, LoopTypes, ReadySlots
  <2>3. QED
    BY <2>1, <2>2 DEF LoopInv, ReadsDoNotBlock, loopVars, Readable, HasEof
<1>6. QED
  BY <1>1, <1>3, <1>4, <1>5 DEF LoopInv

LEMMA ClientPreserves ==
    ASSUME Books, Buffers, LoopInv,
           \/ NewClient \/ AcceptFails \/ UNCHANGED allVars
           \/ \E f \in Fds : Write(f) \/ Leave(f)
    PROVE  LoopInv'
<1>1. UNCHANGED loopVars
  BY DEF NewClient, AcceptFails, Write, Leave, allVars
<1>2. CASE UNCHANGED <<conn, inbuf>>
  BY <1>1, <1>2, IdlePreserves
<1>3. ASSUME NEW f \in Fds, Write(f) PROVE LoopInv'
  <2>1. UNCHANGED conn
    BY <1>3 DEF Write, vars
  <2>2. PICK c \in Command : inbuf' = [inbuf EXCEPT ![f] = Append(@, c)]
    BY <1>3, DescriptorsAreNumbers DEF Write
  <2>3. \A g \in Fds : inbuf'[g] = IF g = f THEN Append(inbuf[g], c) ELSE inbuf[g]
    BY <2>2 DEF Buffers
  <2>4. ASSUME NEW s \in Seq(Command) PROVE Append(s, c) # <<>>
    <3>1. Len(Append(s, c)) = Len(s) + 1 /\ Len(s) \in Nat /\ Len(<<>>) = 0
      OBVIOUS
    <3>2. QED
      BY <3>1
  <2>5. \A g \in Fds : inbuf[g] # <<>> => inbuf'[g] # <<>>
    BY <2>3, <2>4 DEF Buffers
  <2>6. QED
    BY <1>1, <2>1, <2>5, IdlePreserves
<1>4. ASSUME NEW f \in Fds, Leave(f) PROVE LoopInv'
  BY <1>1, <1>4, IdlePreserves DEF Books, TypeOK, Leave, PeerLeaves
<1>5. QED
  BY <1>2, <1>3, <1>4 DEF NewClient, AcceptFails, OutOfDescriptors, allVars, vars

LEMMA SelectPreserves ==
    ASSUME LoopInv, Select
    PROVE  LoopInv'
<1>1. UNCHANGED <<conn, client_socket, master_set, inbuf>> /\ pc' = "accept"
  BY DEF Select, vars
<1>2. Polled = Served /\ Served \subseteq Fds /\ Served' = Served
  BY <1>1 DEF LoopInv, LoopTypes, TableAgreement, Polled, Served
<1>3. readfds' = {f \in Served : Readable(f)} \cup (IF backlog > 0 THEN {ServerFd} ELSE {})
  BY <1>2 DEF Select
<1>4. LoopTypes'
  BY <1>1, <1>2, <1>3 DEF LoopInv, LoopTypes, Select
<1>5. TableAgreement'
  BY <1>1, <1>2 DEF LoopInv, TableAgreement
<1>6. ReportsAreTrue'
  BY <1>1, <1>2, <1>3 DEF ReportsAreTrue, Readable, HasEof
<1>7. QED
  BY <1>1, <1>4, <1>5, <1>6 DEF LoopInv, ReadsDoNotBlock

LEMMA AcceptPreserves ==
    ASSUME Books, Buffers, LoopInv, Accept
    PROVE  LoopInv'
<1>1. PICK f \in Fds : conn[f] = "closed" /\ Connect(f) /\ EnterTable(f) /\ WrittenBefore(f)
  BY DEF Accept, Lowest, FreeFds
<1>2. /\ conn'[f] \in {"open", "reset"}
      /\ \A g \in Fds \ {f} : conn'[g] = conn[g] /\ inbuf'[g] = inbuf[g]
  BY <1>1 DEF Books, TypeOK, Buffers, Connect, WrittenBefore
<1>3. f # 0 /\ f \notin Served
  BY <1>1, DescriptorsAreNumbers DEF LoopInv, TableAgreement
<1>4. pc = "accept" /\ pc' = "slots" /\ slot' = 0 /\ readfds' = readfds
  BY DEF Accept, StartSlots
<1>5. f \notin readfds
  BY <1>1, <1>3, <1>4, DescriptorsAreNumbers DEF LoopInv, ReportsAreTrue
(* The table after accept, whether there was room or not.                  *)
<1>6. /\ \A i \in Slots : client_socket'[i] = client_socket[i] \/ (client_socket[i] = 0 /\ client_socket'[i] = f)
      /\ client_socket' \in [Slots -> Fds \cup {0}]
      /\ \A i, j \in Slots : client_socket'[i] = f /\ client_socket'[j] = f => i = j
      /\ master_set' = Served'
  <2>1. CASE FreeSlots = {}
    BY <1>1, <1>3, <2>1 DEF EnterTable, LoopInv, LoopTypes, TableAgreement, Served
  <2>2. CASE FreeSlots # {}
    <3>1. PICK i \in Slots : client_socket[i] = 0 /\ client_socket' = [client_socket EXCEPT ![i] = f]
      BY <1>1, <2>2 DEF EnterTable, Lowest, FreeSlots
    <3>2. \A j \in Slots : client_socket'[j] = IF j = i THEN f ELSE client_socket[j]
      BY <3>1 DEF LoopInv, LoopTypes
    <3>3. \A g : g \in Served' <=> g # 0 /\ \E j \in Slots : client_socket'[j] = g
      BY DEF Served
    <3>4. Served' = Served \cup {f}
      BY <1>3, <3>1, <3>2, <3>3, ServedAreSlots
    <3>5. master_set' = master_set \cup {f}
      BY <1>1, <2>2 DEF EnterTable
    <3>6. \A j \in Slots : client_socket[j] # f
      BY <1>3, ServedAreSlots
    <3>7. client_socket' \in [Slots -> Fds \cup {0}]
      BY <3>1 DEF LoopInv, LoopTypes
    <3>8. QED
      BY <3>1, <3>2, <3>4, <3>5, <3>6, <3>7 DEF LoopInv, TableAgreement
  <2>3. QED
    BY <2>1, <2>2
<1>7. LoopTypes'
  BY <1>1, <1>4, <1>6 DEF LoopInv, LoopTypes, EnterTable
<1>8. TableAgreement'
  <2>1. \A g : g \in Served' => g = f \/ g \in Served
    <3>1. \A g : g \in Served' <=> g # 0 /\ \E j \in Slots : client_socket'[j] = g
      BY DEF Served
    <3>2. QED
      BY <1>6, <3>1, ServedAreSlots
  <2>2. Served \subseteq Fds
    BY DEF LoopInv, LoopTypes, Served
  <2>3. \A g \in Served' : conn'[g] # "closed"
    BY <1>2, <2>1, <2>2 DEF LoopInv, TableAgreement
  <2>4. \A i, j \in Slots : client_socket'[i] = client_socket'[j] /\ client_socket'[i] # 0 => i = j
    BY <1>3, <1>6 DEF LoopInv, TableAgreement
  <2>5. QED
    BY <1>6, <2>3, <2>4 DEF TableAgreement
<1>9. ReadsDoNotBlock'
  <2> SUFFICES ASSUME NEW i \in Slots, client_socket'[i] # 0, client_socket'[i] \in readfds'
               PROVE  Readable(client_socket[i])' 
    BY DEF ReadsDoNotBlock, ReadySlots
  <2>1. client_socket'[i] = client_socket[i] /\ client_socket[i] \in readfds
    BY <1>4, <1>5, <1>6
  <2>2. client_socket[i] \in Fds /\ client_socket[i] # f
    BY <1>5, <2>1 DEF LoopInv, LoopTypes
  <2>3. Readable(client_socket[i])
    BY <1>4, <2>1, <2>2, DescriptorsAreNumbers DEF LoopInv, ReportsAreTrue
  <2>4. QED
    BY <1>2, <1>4, <2>1, <2>2, <2>3 DEF Readable, HasEof
<1>10. QED
  BY <1>4, <1>7, <1>8, <1>9 DEF LoopInv, ReportsAreTrue

LEMMA NothingPreserves ==
    ASSUME LoopInv, NothingToAccept \/ EndOfRound
    PROVE  LoopInv'
<1>1. UNCHANGED <<conn, client_socket, master_set, readfds, inbuf>>
  BY DEF NothingToAccept, EndOfRound, vars
<1>2. pc' # "accept" /\ pc' \in {"select", "slots"} /\ slot' \in Nat
  BY DEF NothingToAccept, EndOfRound, StartSlots, LoopInv, LoopTypes
<1>3. LoopTypes' /\ TableAgreement'
  BY <1>1, <1>2 DEF LoopInv, LoopTypes, TableAgreement, Served
<1>4. ReadsDoNotBlock'
  <2>1. CASE EndOfRound
    BY <2>1 DEF EndOfRound, ReadsDoNotBlock
  <2>2. CASE NothingToAccept
    <3>1. pc = "accept" /\ ServerFd \notin readfds
      BY <2>2 DEF NothingToAccept
    <3>2. \A f \in readfds : Readable(f)
      BY <3>1 DEF LoopInv, ReportsAreTrue
    <3>3. QED
      BY <1>1, <3>2 DEF ReadsDoNotBlock, ReadySlots, Readable, HasEof
  <2>3. QED
    BY <2>1, <2>2
<1>5. QED
  BY <1>2, <1>3, <1>4 DEF LoopInv, ReportsAreTrue
----------------------------------------------------------------------------
(* Reading the slots.                                                      *)

(* After a read of f the round goes on behind its slot: what it comes to   *)
(* next are other descriptors.                                             *)
LEMMA OthersComeNext ==
    ASSUME LoopInv, NEW f \in Fds, NextIs(f), UNCHANGED <<pc, readfds>>,
           \A i \in Slots : client_socket'[i] # 0 => client_socket'[i] = client_socket[i]
    PROVE  /\ slot' \in Nat
           /\ \A i \in ReadySlots' : i \in ReadySlots /\ client_socket'[i] = client_socket[i] /\ client_socket[i] # f
<1>1. PICK k \in ReadySlots : f = client_socket[k] /\ slot' = k + 1
  BY DEF NextIs, Lowest
<1>2. k \in Slots /\ k \in Nat /\ k >= slot /\ slot \in Nat
  BY <1>1, SlotsAreNumbers DEF ReadySlots, LoopInv, LoopTypes
<1>3. ASSUME NEW i \in ReadySlots'
      PROVE  i \in ReadySlots /\ client_socket'[i] = client_socket[i] /\ client_socket[i] # f
  <2>1. i \in Slots /\ i >= k + 1 /\ client_socket'[i] # 0 /\ client_socket'[i] \in readfds
    BY <1>1, <1>3 DEF ReadySlots
  <2>2. client_socket'[i] = client_socket[i]
    BY <2>1
  <2>3. i \in Nat /\ i >= slot /\ i # k
    BY <1>2, <2>1, SlotsAreNumbers
  <2>4. i \in ReadySlots
    BY <2>1, <2>2, <2>3 DEF ReadySlots
  <2>5. client_socket[i] # f
    BY <1>1, <1>2, <2>1, <2>2, <2>3 DEF LoopInv, TableAgreement
  <2>6. QED
    BY <2>2, <2>4, <2>5
<1>4. QED
  BY <1>1, <1>2, <1>3

(* A read of f that closes it and takes it out of the table, or does       *)
(* neither, keeps all, when it makes no other descriptor unreadable.       *)
LEMMA ReadPreserves ==
    ASSUME LoopInv, NEW f \in Fds, NextIs(f), pc = "slots", UNCHANGED <<pc, readfds>>,
           \/ LeaveTable(f)
           \/ UNCHANGED <<client_socket, master_set>> /\ conn'[f] # "closed",
           \A g \in Fds : g # f => (conn'[g] = "closed" <=> conn[g] = "closed"),
           \A g \in Fds : g # f /\ conn[g] \in {"left", "reset"} => conn'[g] \in {"left", "reset"},
           \A g \in Fds : g # f => inbuf'[g] = inbuf[g]
    PROVE  LoopInv'
<1>1. Served \subseteq Fds
  BY DEF LoopInv, LoopTypes, Served
<1>2. /\ client_socket' \in [Slots -> Fds \cup {0}]
      /\ master_set' = Served'
      /\ Served' \subseteq Served
      /\ f \in Served' => conn'[f] # "closed"
      /\ \A i \in Slots : client_socket'[i] # 0 => client_socket'[i] = client_socket[i]
  <2>1. CASE LeaveTable(f)
    BY <2>1, LeaveTableKeeps DEF LoopInv
  <2>2. CASE UNCHANGED <<client_socket, master_set>> /\ conn'[f] # "closed"
    BY <2>2 DEF LoopInv, LoopTypes, TableAgreement, Served
  <2>3. QED
    BY <2>1, <2>2
<1>3. /\ slot' \in Nat
      /\ \A i \in ReadySlots' : i \in ReadySlots /\ client_socket'[i] = client_socket[i] /\ client_socket[i] # f
  BY <1>2, OthersComeNext
<1>4. LoopTypes'
  BY <1>1, <1>2, <1>3 DEF LoopInv, LoopTypes
<1>5. TableAgreement'
  <2>1. \A g \in Served' : conn'[g] # "closed"
    BY <1>1, <1>2 DEF LoopInv, TableAgreement
  <2>2. \A i, j \in Slots : client_socket'[i] = client_socket'[j] /\ client_socket'[i] # 0 => i = j
    BY <1>2 DEF LoopInv, TableAgreement
  <2>3. QED
    BY <1>2, <2>1, <2>2 DEF TableAgreement
<1>6. ReadsDoNotBlock'
  <2> SUFFICES ASSUME NEW i \in ReadySlots' PROVE Readable(client_socket[i])'
    BY DEF ReadsDoNotBlock
  <2>1. i \in ReadySlots /\ client_socket'[i] = client_socket[i] /\ client_socket[i] # f
    BY <1>3
  <2>2. client_socket[i] \in Fds /\ Readable(client_socket[i])
    BY <2>1 DEF LoopInv, LoopTypes, ReadsDoNotBlock, ReadySlots
  <2>3. QED
    BY <2>1, <2>2 DEF Readable, HasEof
<1>7. QED
  BY <1>4, <1>5, <1>6 DEF LoopInv, ReportsAreTrue

LEMMA ReadCommandPreserves ==
    ASSUME Books, Buffers, LoopInv, ReadCommand
    PROVE  LoopInv'
<1>1. PICK f \in Fds :
         /\ NextIs(f) /\ conn[f] # "closed"
         /\ handleCommand(f, OneCommand(inbuf[f]))
         /\ IF conn'[f] = "closed" THEN LeaveTable(f) ELSE UNCHANGED <<client_socket, master_set>>
         /\ inbuf' = [inbuf EXCEPT ![f] = <<>>]
  BY DEF ReadCommand
<1>2. OneCommand(inbuf[f]) \in Command
  BY OneCommandTyped DEF Buffers
<1>3. \A g \in Fds : /\ g # f => (conn'[g] = "closed" <=> conn[g] = "closed")
                     /\ g # f /\ conn[g] \in {"left", "reset"} => conn'[g] \in {"left", "reset"}
  BY <1>1, <1>2, HandleConn DEF HasEof
<1>4. \A g \in Fds : g # f => inbuf'[g] = inbuf[g]
  BY <1>1 DEF Buffers
<1>5. pc = "slots" /\ UNCHANGED <<pc, readfds>>
  BY DEF ReadCommand
<1>6. QED
  BY <1>1, <1>3, <1>4, <1>5, ReadPreserves

LEMMA ReadEndPreserves ==
    ASSUME Books, LoopInv, ReadEof \/ ReadError
    PROVE  LoopInv'
<1>1. PICK f \in Fds :
         /\ NextIs(f)
         /\ (Disconnect(f) /\ LeaveTable(f)) \/ (ReadFails(f) /\ UNCHANGED <<client_socket, master_set>>)
  BY DEF ReadEof, ReadError
<1>2. pc = "slots" /\ UNCHANGED <<pc, readfds, inbuf>>
  BY DEF ReadEof, ReadError
<1>3. \A g \in Fds : g # f => conn'[g] = conn[g]
  BY <1>1 DEF Books, TypeOK, Disconnect, ReadFails
<1>4. ReadFails(f) => conn'[f] # "closed"
  BY DEF Books, TypeOK, ReadFails
<1>5. QED
  BY <1>1, <1>2, <1>3, <1>4, ReadPreserves

----------------------------------------------------------------------------
(* The theorems.                                                           *)

LEMMA LoopInvHolds == LoopSpec => []LoopInv
<1>1. LoopInit => LoopInv
  <2> SUFFICES ASSUME LoopInit PROVE LoopInv
    OBVIOUS
  <2>1. Served = {}
    BY DEF LoopInit, Served
  <2>2. LoopTypes
    BY DEF LoopInit, LoopTypes
  <2>3. TableAgreement
    BY <2>1 DEF LoopInit, TableAgreement
  <2>4. QED
    BY <2>2, <2>3 DEF LoopInit, LoopInv, ReportsAreTrue, ReadsDoNotBlock
<1>2. Books /\ Buffers /\ LoopInv /\ [LoopNext]_allVars => LoopInv'
  BY ClientPreserves, SelectPreserves, AcceptPreserves, NothingPreserves, ReadCommandPreserves,
     ReadEndPreserves
  DEF LoopNext, Round
<1>3. QED
  BY <1>1, <1>2, LoopBooks, BuffersHold, PTL DEF LoopSpec

(* The table and the poll set agree, hold no closed descriptor and none    *)
(* twice.                                                                  *)
THEOREM TablesAgree == LoopSpec => []TableAgreement
<1>1. LoopInv => TableAgreement
  BY DEF LoopInv
<1>2. QED
  BY <1>1, LoopInvHolds, PTL

(* Every descriptor the round still reads has data or end of file.         *)
THEOREM NoReadBlocks == LoopSpec => []ReadsDoNotBlock
<1>1. LoopInv => ReadsDoNotBlock
  BY DEF LoopInv
<1>2. QED
  BY <1>1, LoopInvHolds, PTL

(* What is proved of the command layer holds of the process.  To its users *)
(* the process, select, accept, read and all, is the chat of UserChat.     *)
THEOREM ProcessIsUserChat == LoopSpec => ImplementsUserChat
  BY LoopIsServer, ServerIsUserChat DEF ImplementsChatServer
============================================================================
