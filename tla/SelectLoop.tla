---------------------------- MODULE SelectLoop ----------------------------
(***************************************************************************)
(* The chat server as a process: the select() loop of main                 *)
(* (homework2/hw2_chat_server.cpp) around the methods of ChatServer, with  *)
(* the kernel's part in it: which descriptor accept() returns, what        *)
(* select() reports, what read() finds.  Clients connect, write and leave  *)
(* while the loop is anywhere in its round.                                *)
(***************************************************************************)
EXTENDS ChatServer, FiniteSetsExt

CONSTANTS
    ServerFd,    \* the listening socket
    MaxClients,  \* MAX_CLIENTS: size of the table client_socket
    Lines,       \* the commands clients send
    MaxPending,  \* bound: lines on the way, of all clients together
    MaxBacklog   \* connections that wait for accept (listen's 3 in the code)

ASSUME DescriptorsAreNumbers ==
    /\ Fds \subseteq Nat \ {0}
    /\ ServerFd \in Nat \ Fds
    /\ Lines \subseteq Command
    /\ MaxClients \in Nat

VARIABLES
    client_socket,  \* table of the connections served; 0: a free slot
    master_set,     \* Server::master_set
    readfds,        \* what the last select reported
    pc,             \* "select", "accept" or "slots": the part of the round
    slot,           \* the next slot the round looks at
    backlog,        \* number of connections the kernel holds for accept
    inbuf           \* lines that arrived on each descriptor and are not read

loopVars == <<client_socket, master_set, readfds, pc, slot>>
allVars == <<vars, loopVars, backlog, inbuf>>

Slots == 0..(MaxClients - 1)
Served == {client_socket[i] : i \in Slots} \ {0}
HasEof(f) == conn[f] \in {"left", "reset"}
Readable(f) == inbuf[f] # <<>> \/ HasEof(f)

LoopInit ==
    /\ Init
    /\ client_socket = [i \in Slots |-> 0]
    /\ master_set = {}
    /\ readfds = {}
    /\ pc = "select"
    /\ slot = 0
    /\ backlog = 0
    /\ inbuf = [f \in Fds |-> <<>>]

----------------------------------------------------------------------------
(* Clients.                                                                *)

NewClient ==
    /\ up
    /\ backlog < MaxBacklog
    /\ backlog' = backlog + 1
    /\ UNCHANGED <<vars, loopVars, inbuf>>

(* Lines that arrived and are not read.                                    *)
Pending == MapThenSumSet(LAMBDA g : Len(inbuf[g]), Fds)

Write(f) ==
    /\ up
    /\ conn[f] = "open"
    /\ Pending < MaxPending
    /\ \E c \in Lines : inbuf' = [inbuf EXCEPT ![f] = Append(@, c)]
    /\ UNCHANGED <<vars, loopVars, backlog>>

Leave(f) == PeerLeaves(f) /\ UNCHANGED <<loopVars, backlog, inbuf>>

----------------------------------------------------------------------------
(* The server's round.                                                     *)

(* select() waits until something polled is readable and reports all that  *)
(* is.                                                                     *)
Polled == master_set \cup Served

\* Mutant of Select: what is polled is taken for what is readable.
SelectIgnoresResult ==
    /\ up
    /\ pc = "select"
    /\ readfds' = Polled \cup (IF backlog > 0 THEN {ServerFd} ELSE {})
    /\ readfds' # {}
    /\ pc' = "accept"
    /\ UNCHANGED <<vars, client_socket, master_set, slot, backlog, inbuf>>

\* Mutant of Select: looks at the listening socket when no client is readable.
SelectClientsFirst ==
    LET busy == {f \in Polled : Readable(f)} IN
    /\ up
    /\ pc = "select"
    /\ readfds' = IF busy # {} THEN busy ELSE IF backlog > 0 THEN {ServerFd} ELSE {}
    /\ readfds' # {}
    /\ pc' = "accept"
    /\ UNCHANGED <<vars, client_socket, master_set, slot, backlog, inbuf>>

Select ==
    /\ up
    /\ pc = "select"
    /\ readfds' = {f \in Polled : Readable(f)} \cup (IF backlog > 0 THEN {ServerFd} ELSE {})
    /\ readfds' # {}
    /\ pc' = "accept"
    /\ UNCHANGED <<vars, client_socket, master_set, slot, backlog, inbuf>>

Lowest(S) == {n \in S : \A m \in S : n <= m}

FreeFds == {f \in Fds : conn[f] = "closed"}
FreeSlots == {i \in Slots : client_socket[i] = 0}

(* The first free slot takes the descriptor.  When the table is full the   *)
(* connection is neither polled nor closed.                                *)
EnterTable(f) ==
    IF FreeSlots = {}
      THEN UNCHANGED <<client_socket, master_set>>
      ELSE /\ \E i \in Lowest(FreeSlots) : client_socket' = [client_socket EXCEPT ![i] = f]
           /\ master_set' = master_set \cup {f}

\* Mutant of StartSlots: the round begins at the second slot.
StartSlotsAtOne == pc' = "slots" /\ slot' = 1

StartSlots == pc' = "slots" /\ slot' = 0

(* What a client wrote before it left, while it waited for accept.         *)
WrittenBefore(f) ==
    \/ UNCHANGED inbuf
    \/ /\ conn'[f] = "reset"
       /\ Pending < MaxPending
       /\ \E c \in Lines : inbuf' = [inbuf EXCEPT ![f] = <<c>>]

(* The kernel hands out the lowest free descriptor.                        *)
Accept ==
    /\ pc = "accept"
    /\ ServerFd \in readfds
    /\ backlog > 0
    /\ \E f \in Lowest(FreeFds) : Connect(f) /\ EnterTable(f) /\ WrittenBefore(f)
    /\ backlog' = backlog - 1
    /\ StartSlots
    /\ UNCHANGED readfds

AcceptFails ==
    /\ pc = "accept"
    /\ ServerFd \in readfds
    /\ OutOfDescriptors
    /\ UNCHANGED <<loopVars, backlog, inbuf>>

NothingToAccept ==
    /\ up
    /\ pc = "accept"
    /\ ServerFd \notin readfds
    /\ StartSlots
    /\ UNCHANGED <<vars, client_socket, master_set, readfds, backlog, inbuf>>

(* Slots from `slot` on whose descriptor select reported.                  *)
ReadySlots == {i \in Slots : i >= slot /\ client_socket[i] # 0 /\ client_socket[i] \in readfds}

(* The loop comes to the next of them, which has descriptor f.             *)
NextIs(f) == \E i \in Lowest(ReadySlots) : f = client_socket[i] /\ slot' = i + 1

(* One read() takes all that arrived, and what it took is one command:     *)
(* lines are not separated, the first word of them all is the command's    *)
(* and the rest are further words.                                         *)
Foul(c) == c.op \in {"/pin", "say"} /\ c.text.foul

OneCommand(lines) ==
    LET said == {i \in DOMAIN lines : lines[i].op # "empty"}
        first == lines[CHOOSE i \in said : \A j \in said : i <= j]
    IN
    IF said = {} THEN [op |-> "empty"]
    ELSE IF \E i \in said : said = {i} THEN first
    ELSE IF first.op \in {"/pin", "say"}
      THEN [first EXCEPT !.text.foul = \E i \in said : Foul(lines[i])]
    ELSE IF first.op \in {"/delete-pin", "/exit-chat-room", "/none"}
      THEN [op |-> "/none"]
      ELSE [op |-> "none"]

\* Mutant of LeaveTable: the slot is freed, the poll set keeps the descriptor.
LeaveTableOnly(f) ==
    /\ client_socket' = [i \in Slots |-> IF client_socket[i] = f THEN 0 ELSE client_socket[i]]
    /\ UNCHANGED master_set

(* removeSocket, and the slot set to 0.                                    *)
LeaveTable(f) ==
    /\ client_socket' = [i \in Slots |-> IF client_socket[i] = f THEN 0 ELSE client_socket[i]]
    /\ master_set' = master_set \ {f}

(* exitUser leaves the table; no other command does.                       *)
ReadCommand ==
    /\ up
    /\ pc = "slots"
    /\ \E f \in Fds :
         /\ NextIs(f)
         /\ inbuf[f] # <<>>
         /\ conn[f] # "closed"
         /\ handleCommand(f, OneCommand(inbuf[f]))
         /\ IF conn'[f] = "closed" THEN LeaveTable(f) ELSE UNCHANGED <<client_socket, master_set>>
         /\ inbuf' = [inbuf EXCEPT ![f] = <<>>]
    /\ UNCHANGED <<readfds, pc, backlog>>

\* Mutant of ReadEof: end of file is taken for an empty read.
ReadEofIgnored ==
    /\ up
    /\ pc = "slots"
    /\ \E f \in Fds : NextIs(f) /\ inbuf[f] = <<>>
    /\ UNCHANGED <<vars, client_socket, master_set, readfds, pc, backlog, inbuf>>

\* Mutant of ReadEof: forgets the client and leaves its name logged in.
ReadEofErasesClient ==
    /\ up
    /\ pc = "slots"
    /\ \E f \in Fds :
         /\ NextIs(f)
         /\ inbuf[f] = <<>>
         /\ HasEof(f)
         /\ conn' = [conn EXCEPT ![f] = "closed"]
         /\ clients' = [clients EXCEPT ![f] = NoUser]
         /\ LeaveTable(f)
    /\ UNCHANGED <<up, accountVars, loggedInUsers, authed, roomVars, readfds, pc, backlog, inbuf>>

ReadEof ==
    /\ pc = "slots"
    /\ \E f \in Fds : NextIs(f) /\ inbuf[f] = <<>> /\ Disconnect(f) /\ LeaveTable(f)
    /\ UNCHANGED <<readfds, pc, backlog, inbuf>>

ReadError ==
    /\ pc = "slots"
    /\ \E f \in Fds : NextIs(f) /\ inbuf[f] = <<>> /\ ReadFails(f)
    /\ UNCHANGED <<client_socket, master_set, readfds, pc, backlog, inbuf>>

EndOfRound ==
    /\ up
    /\ pc = "slots"
    /\ ReadySlots = {}
    /\ pc' = "select"
    /\ UNCHANGED <<vars, client_socket, master_set, readfds, slot, backlog, inbuf>>

Round ==
    \/ Select \/ Accept \/ AcceptFails \/ NothingToAccept
    \/ ReadCommand \/ ReadEof \/ ReadError \/ EndOfRound

LoopNext == NewClient \/ (\E f \in Fds : Write(f) \/ Leave(f)) \/ Round

LoopSpec == LoopInit /\ [][LoopNext]_allVars

(* The server's single thread keeps running its loop; clients owe nothing. *)
FairLoopSpec == LoopSpec /\ WF_allVars(Round)

----------------------------------------------------------------------------
(* Properties.                                                             *)

(* The table and the set select polls agree and hold each live descriptor  *)
(* once: a stale entry would have select fail or the loop read and close   *)
(* a connection that belongs to somebody else by now.                      *)
TableAgreement ==
    /\ master_set = Served
    /\ \A f \in Served : conn[f] # "closed"
    /\ \A i, j \in Slots : client_socket[i] = client_socket[j] /\ client_socket[i] # 0 => i = j

(* The loop never stops in read(): every descriptor that it will still     *)
(* read in this round has data or end of file, though accept, exit and     *)
(* other clients' closing came in between.                                 *)
ReadsDoNotBlock ==
    pc = "slots" => \A i \in ReadySlots : Readable(client_socket[i])

(* A client whose connection is in the table gets its input read.          *)
InputIsRead ==
    \A f \in Fds : (f \in Served /\ inbuf[f] # <<>>) ~> (inbuf[f] = <<>> \/ ~up)

(* A client that left is noticed, and its place in the table given back.   *)
DeadConnectionsLeave ==
    \A f \in Fds : (f \in Served /\ HasEof(f)) ~> (conn[f] = "closed" \/ ~up)

(* Nobody waits for accept forever, though only one is accepted a round.   *)
WaitingAreAccepted ==
    []<>(backlog = 0 \/ ~up) \/ []<><<backlog' < backlog>>_allVars

(* Every step of the process is a step of ChatServer or invisible to it:   *)
(* what is shown of ChatServer holds of the process.                       *)
ImplementsChatServer == Spec
============================================================================
