---------------------------- MODULE WebThreads ----------------------------
(***************************************************************************)
(* The static web server with a thread per connection (homework1/demo:     *)
(* server.c, utils.c).  The accept loop writes each new descriptor into    *)
(* the next entry of a table, which it doubles with realloc when it is     *)
(* full, and starts a thread with a pointer to that entry.  The thread     *)
(* reads the entry when it gets to run, without the lock.                  *)
(* The thread of a client, and its entry, are those accept made for it;    *)
(* which connection it serves is what it reads.                            *)
(***************************************************************************)
EXTENDS WebClients

CONSTANTS
    InitialCapacity,  \* INITIAL_CAPACITY
    MaxFds,           \* descriptors the process may have beside the fixed ones
    SureThreads       \* with so many threads running, another may not be had

ASSUME Sizes ==
    /\ InitialCapacity \in Nat \ {0}
    /\ MaxFds \in Nat
    /\ SureThreads \in Nat

VARIABLES
    client_infos,     \* the table: entry -> connection, or NoClient
    client_capacity,
    num_clients,
    entry,            \* client -> entry accept gave it
    stale,            \* clients whose thread points into a table since moved
    thread,           \* client -> where its thread is
    sock,             \* client -> connection its thread serves, or NoClient
    reply,            \* client -> response its thread is sending, or NoAnswer
    open              \* connections accepted and not closed

tableVars == <<client_infos, client_capacity, num_clients, entry>>
threadVars == <<tableVars, stale, thread, sock, reply, open>>

Table == 0..(client_capacity - 1)

ThreadInit ==
    /\ WebInit
    /\ client_capacity = InitialCapacity
    /\ client_infos = [i \in 0..(InitialCapacity - 1) |-> NoClient]
    /\ num_clients = 0
    /\ entry = [c \in Clients |-> 0]
    /\ stale = {}
    /\ thread = [c \in Clients |-> "none"]
    /\ sock = [c \in Clients |-> NoClient]
    /\ reply = [c \in Clients |-> NoAnswer]
    /\ open = {}

(* The process ends: errquit, SIGPIPE or a fault.                          *)
ServerEnds == up' = FALSE /\ UNCHANGED <<backlog, clientVars, answer, complete, threadVars>>

----------------------------------------------------------------------------
(* Descriptors: one per open connection, one per file being sent.          *)
HoldsFile(c) == thread[c] \in {"header", "content", "close"} /\ reply[c] # NoAnswer /\ reply[c].status = 200
Fds == Cardinality(open) + Cardinality({c \in Clients : HoldsFile(c)})
Threads == {c \in Clients : thread[c] \notin {"none", "done"}}
NoThread == Cardinality(Threads) >= SureThreads

\* Mutant of Full: off by one.
FullLate == num_clients > client_capacity

Full == num_clients >= client_capacity

\* Mutant of Grown: the new table is not a copy of the old one.
GrownEmpty(n) == [i \in 0..(n - 1) |-> NoClient]

(* realloc keeps what the table held.                                      *)
Grown(n) == [i \in 0..(n - 1) |-> IF i \in Table THEN client_infos[i] ELSE NoClient]

\* Mutant of TakeEntry: every client gets the same entry.
TakeSameEntry(c) == num_clients' = num_clients /\ entry' = [entry EXCEPT ![c] = num_clients]

TakeEntry(c) == num_clients' = num_clients + 1 /\ entry' = [entry EXCEPT ![c] = num_clients]

(* Makes room, writes the entry, starts the thread.  The lock is taken by  *)
(* no other thread.  realloc may move the table: threads that have not     *)
(* read their entry yet then point to freed memory.  Without a thread to   *)
(* be had, the connection stays open and nobody serves it, or              *)
(* pthread_detach, called with an id that was never set, faults.           *)
Accept ==
    /\ up
    /\ backlog["http"] # <<>>
    /\ Fds < MaxFds
    /\ LET c == Head(backlog["http"])
           capacity == IF Full THEN 2 * client_capacity ELSE client_capacity
       IN
       /\ client_capacity' = capacity
       /\ client_infos' = [Grown(capacity) EXCEPT ![num_clients] = c]
       /\ TakeEntry(c)
       /\ \/ UNCHANGED stale
          \/ Full /\ stale' = stale \cup {d \in Clients : thread[d] = "start"}
       /\ \/ thread' = [thread EXCEPT ![c] = "start"]
          \/ NoThread /\ UNCHANGED thread
       /\ open' = open \cup {c}
    /\ Take("http")
    /\ UNCHANGED <<up, clientVars, answer, complete, sock, reply>>

DetachFaults ==
    /\ up
    /\ backlog["http"] # <<>>
    /\ Fds < MaxFds
    /\ NoThread
    /\ ServerEnds

----------------------------------------------------------------------------
(* handle_client.                                                          *)

(* Through a stale pointer the thread finds what the entry held, or bytes  *)
(* of the allocator that are no descriptor.                                *)
WhatItPointsTo(c) ==
    {client_infos[entry[c]]} \cup (IF c \in stale THEN {NoClient} ELSE {})

(* With no descriptor recv and close fail, and the thread is done.         *)
ReadEntry(c) ==
    /\ up
    /\ thread[c] = "start"
    /\ \E s \in WhatItPointsTo(c) :
         /\ sock' = [sock EXCEPT ![c] = s]
         /\ thread' = [thread EXCEPT ![c] = IF s = NoClient THEN "done" ELSE "recv"]
    /\ UNCHANGED <<netVars, tableVars, stale, reply, open>>

(* A large table is unmapped when it moves.                                *)
ReadFaults(c) ==
    /\ up
    /\ thread[c] = "start"
    /\ c \in stale
    /\ ServerEnds

Recv(c) ==
    /\ up
    /\ thread[c] = "recv"
    /\ request[sock[c]] # NoRequest
    /\ LET r == handleHTTPRequest[request[sock[c]]] IN
       /\ reply' = [reply EXCEPT ![c] = r]
       /\ thread' = [thread EXCEPT ![c] = IF r.status = 200 THEN "open" ELSE "header"]
    /\ UNCHANGED <<netVars, tableVars, stale, sock, open>>

\* Mutant of RecvNothing: answers though nothing came.
RecvAnyway(c) ==
    /\ up
    /\ thread[c] = "recv"
    /\ NothingToRead(sock[c])
    /\ reply' = [reply EXCEPT ![c] = handle501Response]
    /\ thread' = [thread EXCEPT ![c] = "header"]
    /\ UNCHANGED <<netVars, tableVars, stale, sock, open>>

RecvNothing(c) ==
    /\ up
    /\ thread[c] = "recv"
    /\ NothingToRead(sock[c])
    /\ thread' = [thread EXCEPT ![c] = "close"]
    /\ UNCHANGED <<netVars, tableVars, stale, sock, reply, open>>

(* fopen takes a descriptor; its result is used unseen, so without one the *)
(* process faults.                                                         *)
OpenFile(c) ==
    /\ up
    /\ thread[c] = "open"
    /\ Fds < MaxFds
    /\ thread' = [thread EXCEPT ![c] = "header"]
    /\ UNCHANGED <<netVars, tableVars, stale, sock, reply, open>>

OpenFaults(c) ==
    /\ up
    /\ thread[c] = "open"
    /\ Fds >= MaxFds
    /\ ServerEnds

SendHeader(c) ==
    /\ up
    /\ thread[c] = "header"
    /\ HeaderArrives(sock[c], reply[c])
    /\ thread' = [thread EXCEPT ![c] = IF reply[c].status = 301 THEN "close" ELSE "content"]
    /\ UNCHANGED <<up, backlog, clientVars, tableVars, stale, sock, reply, open>>

SendContent(c) ==
    /\ up
    /\ thread[c] = "content"
    /\ ContentArrives(sock[c])
    /\ thread' = [thread EXCEPT ![c] = "close"]
    /\ UNCHANGED <<up, backlog, clientVars, tableVars, stale, sock, reply, open>>

(* A write to a client that is gone may succeed, the kernel not knowing    *)
(* yet; once its reset has come the write raises SIGPIPE or fails, and     *)
(* errquit ends the process.                                               *)
SendFails(c) ==
    /\ up
    /\ thread[c] \in {"header", "content"}
    /\ client[sock[c]] = "left"
    /\ ServerEnds

\* Mutant of Close: the thread returns without it.
CloseForgotten(c) ==
    /\ up
    /\ thread[c] = "close"
    /\ thread' = [thread EXCEPT ![c] = "done"]
    /\ UNCHANGED <<netVars, tableVars, stale, sock, reply, open>>

Close(c) ==
    /\ up
    /\ thread[c] = "close"
    /\ open' = open \ {sock[c]}
    /\ thread' = [thread EXCEPT ![c] = "done"]
    /\ UNCHANGED <<netVars, tableVars, stale, sock, reply>>

----------------------------------------------------------------------------
handle_client(c) ==
    \/ ReadEntry(c) \/ ReadFaults(c) \/ Recv(c) \/ RecvNothing(c) \/ OpenFile(c) \/ OpenFaults(c)
    \/ SendHeader(c) \/ SendContent(c) \/ SendFails(c) \/ Close(c)

ThreadNext ==
    \/ \E c \in Clients : (Connect(c, "http") \/ Say(c)) /\ UNCHANGED threadVars
    \/ Accept \/ DetachFaults
    \/ \E c \in Clients : handle_client(c)
============================================================================
