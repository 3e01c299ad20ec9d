-------------------------- MODULE WebServerProofs --------------------------
(***************************************************************************)
(* Proofs about WebServer, for any number of clients, any document root    *)
(* and requests, and any limits of the process.                            *)
(***************************************************************************)
EXTENDS WebServer, SequenceTheorems, FiniteSetTheorems, WellFoundedInduction, TLAPS

Live == {"recv", "open", "header", "content", "close"}
Busy == {"handshake", "read", "header", "content", "close"}

(* Who serves has a connection, who sends has something to send, and who   *)
(* starts has an entry.                                                    *)
Connected ==
    /\ \A c \in Clients : thread[c] \in Live => sock[c] \in Clients
    /\ \A c \in Clients : thread[c] \in {"open", "header", "content"} => reply[c] # NoAnswer
    /\ \A c \in Clients : thread[c] = "start" => entry[c] \in 0..(num_clients - 1)
    /\ stage \in Busy => cur \in Clients

(* The two builds leave each other's state alone.                          *)
Apart ==
    /\ build = "server" => edge = {} /\ events = {} /\ stage = "wait"
    /\ build = "server_https" => \A c \in Clients : thread[c] = "none"

(* Nobody waits for accept twice, or after it was accepted.                *)
Waiting ==
    /\ \A p \in Ports : \A i \in 1..Len(backlog[p]) :
         /\ client[backlog[p][i]] # "idle"
         /\ backlog[p][i] \notin open
         /\ thread[backlog[p][i]] = "none"
    /\ \A o, p \in Ports : \A i \in 1..Len(backlog[o]) : \A j \in 1..Len(backlog[p]) :
         backlog[o][i] = backlog[p][j] => o = p /\ i = j
    /\ \A c \in Clients : client[c] = "idle" => c \notin open /\ thread[c] = "none"

(* A thread that has still to read its entry will find its own client.     *)
EntriesAreOwn ==
    \A c \in Clients : thread[c] = "start" =>
        client_infos[entry[c]] = c /\ c \in open

(* A thread that has read it serves its own client.                        *)
ServesOwn == \A c \in Clients : thread[c] \in Live => sock[c] = c /\ c \in open

DoneIsClosed == \A c \in Clients : thread[c] = "done" /\ c \in open => c \in stale

(* A client is given the answer to what it asked, although threads find    *)
(* their connection in a table that moves, and the one buffer of the other *)
(* server still holds earlier requests.  To a client that asked nothing    *)
(* the threads answer nothing; the other server sends what it finds.       *)
AnswersAreOwn ==
    \A c \in Clients : answer[c] # NoAnswer =>
        IF build = "server"
          THEN request[c] # NoRequest /\ answer[c] = handleHTTPRequest[request[c]]
          ELSE request[c] # NoRequest => answer[c] = ResponseTo[request[c]]

(* What is being sent answers what the client asked.                       *)
RepliesAreOwn ==
    \A c \in Clients : thread[c] \in {"open", "header", "content"} =>
        request[c] # NoRequest /\ reply[c] = handleHTTPRequest[request[c]]

SendingIsOwn ==
    stage \in {"header", "content", "close"} =>
        \/ client[cur] = "left"
        \/ request[cur] = NoRequest /\ client[cur] = "shut"
        \/ request[cur] # NoRequest /\ sending = ResponseTo[request[cur]]

(* Behind every event there is an arrival of its own.                      *)
ArrivalsBehindEvents ==
    \A p \in Ports :
        /\ p \in events => Len(backlog[p]) >= 1
        /\ p \in edge => Len(backlog[p]) >= (IF p \in events THEN 2 ELSE 1)

(* Who was answered without having asked can no longer ask.                *)
SilentIsShut ==
    build = "server_https" =>
        \A c \in Clients : answer[c] # NoAnswer /\ request[c] = NoRequest => client[c] \in {"shut", "left"}

TypeInv == TypeOK /\ Connected
ThreadInv == Waiting /\ EntriesAreOwn /\ ServesOwn /\ DoneIsClosed
AnswerInv == RepliesAreOwn /\ SendingIsOwn /\ SilentIsShut /\ AnswersAreOwn

(* The cases of a step.                                                    *)
ClientSteps == \E c \in Clients : Say(c) /\ UNCHANGED <<threadVars, epollVars, build>>
ThreadSteps ==
    /\ build = "server"
    /\ \/ \E c \in Clients : Connect(c, "http") /\ UNCHANGED threadVars
       \/ Accept \/ DetachFaults
       \/ \E c \in Clients : handle_client(c)
    /\ UNCHANGED <<epollVars, build>>
EpollSteps ==
    /\ build = "server_https"
    /\ (\E c \in Clients, p \in Ports : Arrive(c, p)) \/ Serve
    /\ UNCHANGED <<threadVars, build>>

----------------------------------------------------------------------------
(* Types.                                                                  *)

LEMMA TakeKeepsType ==
    ASSUME NEW p \in Ports, backlog \in [Ports -> Seq(Clients)], backlog[p] # <<>>, Take(p)
    PROVE /\ backlog' \in [Ports -> Seq(Clients)]
          /\ Head(backlog[p]) \in Clients
  <1>1. backlog[p] \in Seq(Clients)
    OBVIOUS
  <1>2. Tail(backlog[p]) \in Seq(Clients) /\ Head(backlog[p]) \in Clients
    BY <1>1, HeadTailProperties
  <1> QED BY <1>2 DEF Take

LEMMA TypeInit == Init => TypeInv
  <1> SUFFICES ASSUME Init PROVE TypeInv
    OBVIOUS
  <1> USE DEF Init, ThreadInit, EpollInit, WebInit
  <1>1. NetTypeOK(Responses)
    BY EmptySeq DEF NetTypeOK
  <1>2. TypeOK
    BY <1>1, Sizes DEF TypeOK, Responses, Table, Stages, Ports
  <1> QED BY <1>2 DEF TypeInv, Connected, Live, Busy

LEMMA StepCases ==
    ASSUME [Next]_webVars
    PROVE ClientSteps \/ ThreadSteps \/ EpollSteps \/ UNCHANGED webVars
  BY DEF Next, ThreadNext, EpollNext, ClientSteps, ThreadSteps, EpollSteps

(* What UNCHANGED and the primed variables of a step leave to say.         *)
LEMMA TypeClients ==
    ASSUME TypeInv, ClientSteps
    PROVE TypeInv'
  <1>1. PICK c \in Clients : Say(c) /\ UNCHANGED <<threadVars, epollVars, build>>
    BY DEF ClientSteps
  <1>2. NetTypeOK(Responses)'
    BY <1>1 DEF Say, Ask, Finish, Leave, TypeInv, TypeOK, NetTypeOK, Responses
  <1>3. UNCHANGED <<threadVars, epollVars, build>>
    BY <1>1
  <1> QED BY <1>2, <1>3 DEF TypeInv, TypeOK, Connected, threadVars, tableVars, epollVars, Responses, Table

LEMMA TypeEnds ==
    ASSUME TypeInv, up' = FALSE,
           UNCHANGED <<backlog, clientVars, answer, complete, threadVars, epollVars, build>>
    PROVE TypeInv'
  BY DEF clientVars, threadVars, tableVars, epollVars, TypeInv, TypeOK, NetTypeOK, Connected, Table

LEMMA TypeConnect ==
    ASSUME TypeInv, NEW c \in Clients, NEW p \in Ports, Connect(c, p)
    PROVE NetTypeOK(Responses)'
  <1>1. backlog \in [Ports -> Seq(Clients)]
    BY DEF TypeInv, TypeOK, NetTypeOK
  <1>2. Append(backlog[p], c) \in Seq(Clients)
    BY <1>1, AppendProperties
  <1>3. backlog' \in [Ports -> Seq(Clients)]
    BY <1>1, <1>2 DEF Connect
  <1> QED BY <1>3 DEF Connect, TypeInv, TypeOK, NetTypeOK, Responses

LEMMA TypeAccept ==
    ASSUME TypeInv, Accept, UNCHANGED <<epollVars, build>>
    PROVE TypeInv'
  <1> DEFINE c == Head(backlog["http"])
             capacity == IF Full THEN 2 * client_capacity ELSE client_capacity
  <1>1. /\ backlog["http"] # <<>>
        /\ client_capacity' = capacity
        /\ client_infos' = [Grown(capacity) EXCEPT ![num_clients] = c]
        /\ num_clients' = num_clients + 1
        /\ entry' = [entry EXCEPT ![c] = num_clients]
        /\ stale' = stale \/ stale' = stale \cup {d \in Clients : thread[d] = "start"}
        /\ thread' = thread \/ thread' = [thread EXCEPT ![c] = "start"]
        /\ open' = open \cup {c}
        /\ Take("http")
        /\ UNCHANGED <<up, client, request, answer, complete, sock, reply, epollVars, build>>
    BY DEF Accept, TakeEntry, clientVars
  <1>2. backlog' \in [Ports -> Seq(Clients)] /\ c \in Clients
    BY <1>1, TakeKeepsType DEF TypeInv, TypeOK, NetTypeOK, Ports
  <1>3. client_capacity \in Nat \ {0} /\ num_clients \in 0..client_capacity
    BY DEF TypeInv, TypeOK
  <1>4. capacity \in Nat \ {0} /\ num_clients \in 0..(capacity - 1) /\ num_clients + 1 \in 0..capacity
    BY <1>3 DEF Full
  <1>5. Grown(capacity) \in [0..(capacity - 1) -> Clients \cup {NoClient}]
    BY DEF Grown, TypeInv, TypeOK
  <1>6. client_infos' \in [0..(capacity - 1) -> Clients \cup {NoClient}]
    BY <1>1, <1>2, <1>4, <1>5
  <1>7. NetTypeOK(Responses)'
    BY <1>1, <1>2 DEF TypeInv, TypeOK, NetTypeOK, Responses
  <1>8. /\ entry' \in [Clients -> Nat] /\ stale' \subseteq Clients /\ open' \subseteq Clients
        /\ thread' \in [Clients -> {"none", "start", "recv", "open", "header", "content", "close", "done"}]
    <2>1. /\ entry \in [Clients -> Nat] /\ stale \subseteq Clients /\ open \subseteq Clients
          /\ thread \in [Clients -> {"none", "start", "recv", "open", "header", "content", "close", "done"}]
      BY DEF TypeInv, TypeOK
    <2>2. entry' \in [Clients -> Nat]
      BY <1>1, <1>2, <1>4, <2>1
    <2>3. stale' \subseteq Clients /\ open' \subseteq Clients
      BY <1>1, <1>2, <2>1
    <2>4. thread' \in [Clients -> {"none", "start", "recv", "open", "header", "content", "close", "done"}]
      BY <1>1, <1>2, <2>1
    <2> QED BY <2>2, <2>3, <2>4
  <1>9. TypeOK'
    BY <1>1, <1>4, <1>6, <1>7, <1>8 DEF TypeInv, TypeOK, Responses, Table, epollVars
  <1>10. Connected'
    <2>1. \A d \in Clients : thread'[d] \in Live \cup {"open", "header", "content"} => thread'[d] = thread[d]
      BY <1>1, <1>2 DEF Live, TypeInv, TypeOK
    <2>2. \A d \in Clients : thread'[d] = "start" => entry'[d] \in 0..(num_clients' - 1)
      <3> SUFFICES ASSUME NEW d \in Clients, thread'[d] = "start"
                   PROVE entry'[d] \in 0..(num_clients' - 1)
        OBVIOUS
      <3>1. /\ entry \in [Clients -> Nat]
            /\ thread \in [Clients -> {"none", "start", "recv", "open", "header", "content", "close", "done"}]
        BY DEF TypeInv, TypeOK
      <3>2. CASE d = c
        BY <1>1, <1>3, <3>1, <3>2
      <3>3. CASE d # c
        <4>1. thread[d] = "start" /\ entry'[d] = entry[d]
          BY <1>1, <1>2, <3>1, <3>3
        <4> QED BY <1>1, <1>3, <4>1 DEF TypeInv, Connected
      <3> QED BY <3>2, <3>3
    <2> QED BY <1>1, <2>1, <2>2 DEF Connected, TypeInv, epollVars, Live
  <1> QED BY <1>9, <1>10 DEF TypeInv

(* A step of a thread leaves the table, the backlog and the clients alone. *)
LEMMA TypeThread ==
    ASSUME TypeInv, NEW c \in Clients,
           UNCHANGED <<up, backlog, clientVars, tableVars, stale, epollVars, build>>,
           answer' \in [Clients -> Responses \cup {NoAnswer}], complete' \subseteq Clients,
           NEW l \in Live \cup {"done"}, thread' = [thread EXCEPT ![c] = l],
           open' \subseteq open,
           \/ l \in Live /\ UNCHANGED sock /\ sock[c] \in Clients
           \/ l = "recv" /\ sock' \in [Clients -> Clients \cup {NoClient}] /\ sock'[c] \in Clients
                /\ \A d \in Clients \ {c} : sock'[d] = sock[d]
           \/ l = "done" /\ sock' \in [Clients -> Clients \cup {NoClient}]
                /\ \A d \in Clients \ {c} : sock'[d] = sock[d],
           \/ UNCHANGED reply /\ (reply[c] # NoAnswer \/ l \in {"recv", "close", "done"})
           \/ \E q \in Requests : reply' = [reply EXCEPT ![c] = handleHTTPRequest[q]]
    PROVE TypeInv'
  <1>1. \A q \in Requests : handleHTTPRequest[q] # NoAnswer /\ handleHTTPRequest[q] \in Responses
    BY NoValues DEF Responses
  <1>2. TypeOK'
    <2>1. NetTypeOK(Responses)'
      BY DEF TypeInv, TypeOK, NetTypeOK, clientVars, Responses
    <2>2. /\ reply' \in [Clients -> {handleHTTPRequest[q] : q \in Requests} \cup {NoAnswer}]
          /\ sock' \in [Clients -> Clients \cup {NoClient}]
          /\ thread' \in [Clients -> {"none", "start", "recv", "open", "header", "content", "close", "done"}]
      BY DEF TypeInv, TypeOK, Live
    <2> QED BY <2>1, <2>2 DEF TypeInv, TypeOK, tableVars, epollVars, Responses, Table
  <1>3. Connected'
    <2>1. \A d \in Clients : thread'[d] = "start" => thread[d] = "start"
      BY DEF TypeInv, TypeOK, Live
    <2>2. \A d \in Clients : thread'[d] = "start" => entry'[d] \in 0..(num_clients' - 1)
      BY <2>1 DEF TypeInv, Connected, tableVars
    <2>3. \A d \in Clients : thread'[d] \in Live => sock'[d] \in Clients
      BY DEF TypeInv, TypeOK, Connected, Live
    <2>4. \A d \in Clients : thread'[d] \in {"open", "header", "content"} => reply'[d] # NoAnswer
      BY <1>1 DEF TypeInv, TypeOK, Connected, Live
    <2>5. stage' \in Busy => cur' \in Clients
      BY DEF TypeInv, Connected, epollVars
    <2> QED BY <2>2, <2>3, <2>4, <2>5 DEF Connected
  <1> QED BY <1>2, <1>3 DEF TypeInv

LEMMA TypeThreads ==
    ASSUME TypeInv, ThreadSteps
    PROVE TypeInv'
  <1>1. UNCHANGED <<epollVars, build>>
    BY DEF ThreadSteps
  <1>2. ASSUME NEW c \in Clients, Connect(c, "http"), UNCHANGED threadVars
        PROVE TypeInv'
    <2>1. NetTypeOK(Responses)'
      BY <1>2, TypeConnect DEF Ports
    <2> QED BY <1>1, <1>2, <2>1
            DEF TypeInv, TypeOK, Connected, threadVars, tableVars, epollVars, Responses, Table
  <1>3. CASE Accept
    BY <1>1, <1>3, TypeAccept
  <1>4. ASSUME ServerEnds PROVE TypeInv'
    BY <1>1, <1>4, TypeEnds DEF ServerEnds
  <1>5. ASSUME NEW c \in Clients, handle_client(c) PROVE TypeInv'
    <2>1. /\ answer \in [Clients -> Responses \cup {NoAnswer}] /\ complete \subseteq Clients
          /\ sock \in [Clients -> Clients \cup {NoClient}]
          /\ request \in [Clients -> Requests \cup {NoRequest}]
          /\ reply \in [Clients -> {handleHTTPRequest[q] : q \in Requests} \cup {NoAnswer}]
      BY DEF TypeInv, TypeOK, NetTypeOK, Responses
    <2>2. /\ thread[c] \in Live => sock[c] \in Clients
          /\ thread[c] \in {"open", "header", "content"} => reply[c] # NoAnswer
      BY DEF TypeInv, Connected
    <2>3. CASE ReadEntry(c)
      <3>1. PICK s \in WhatItPointsTo(c) :
              /\ sock' = [sock EXCEPT ![c] = s]
              /\ thread' = [thread EXCEPT ![c] = IF s = NoClient THEN "done" ELSE "recv"]
        BY <2>3 DEF ReadEntry
      <3>2. s \in Clients \cup {NoClient}
        <4>1. entry[c] \in 0..(num_clients - 1) /\ num_clients \in 0..client_capacity
              /\ client_capacity \in Nat
          BY <2>3 DEF ReadEntry, TypeInv, TypeOK, Connected
        <4>2. entry[c] \in Table
          BY <4>1 DEF Table
        <4> QED BY <4>2 DEF WhatItPointsTo, TypeInv, TypeOK
      <3>3. /\ UNCHANGED <<up, backlog, clientVars, tableVars, stale, reply, open, answer, complete>>
            /\ sock' \in [Clients -> Clients \cup {NoClient}] /\ sock'[c] = s
            /\ \A d \in Clients \ {c} : sock'[d] = sock[d]
        BY <2>1, <2>3, <3>1, <3>2 DEF ReadEntry, netVars, clientVars
      <3>4. CASE s = NoClient
        BY <1>1, <2>1, <3>1, <3>3, <3>4, TypeThread
      <3>5. CASE s # NoClient
        BY <1>1, <2>1, <3>1, <3>2, <3>3, <3>5, TypeThread DEF Live
      <3> QED BY <3>4, <3>5
    <2>4. CASE Recv(c)
      <3>1. request[sock[c]] \in Requests
        BY <2>1, <2>2, <2>4 DEF Recv, Live
      <3>2. PICK l \in {"open", "header"} : thread' = [thread EXCEPT ![c] = l]
        BY <2>4 DEF Recv
      <3>3. /\ UNCHANGED <<up, backlog, clientVars, tableVars, stale, sock, open, answer, complete>>
            /\ \E q \in Requests : reply' = [reply EXCEPT ![c] = handleHTTPRequest[q]]
        BY <2>4, <3>1 DEF Recv, netVars, clientVars
      <3>4. l \in Live /\ sock[c] \in Clients
        BY <2>2, <2>4 DEF Recv, Live
      <3> QED BY <1>1, <2>1, <3>2, <3>3, <3>4, TypeThread
    <2>5. CASE RecvNothing(c)
      BY <1>1, <2>1, <2>2, <2>5, TypeThread DEF RecvNothing, netVars, clientVars, Live
    <2>6. CASE OpenFile(c)
      BY <1>1, <2>1, <2>2, <2>6, TypeThread DEF OpenFile, netVars, clientVars, Live
    <2>7. CASE SendHeader(c)
      <3>1. /\ answer' \in [Clients -> Responses \cup {NoAnswer}]
            /\ complete' \subseteq Clients
        BY <2>1, <2>2, <2>7 DEF SendHeader, HeaderArrives, Live, Responses
      <3>2. PICK l \in {"close", "content"} : thread' = [thread EXCEPT ![c] = l]
        BY <2>7 DEF SendHeader
      <3>3. UNCHANGED <<up, backlog, clientVars, tableVars, stale, sock, reply, open>>
        BY <2>7 DEF SendHeader
      <3>4. l \in Live /\ sock[c] \in Clients /\ reply[c] # NoAnswer
        BY <2>2, <2>7 DEF SendHeader, Live
      <3> QED BY <1>1, <3>1, <3>2, <3>3, <3>4, TypeThread
    <2>8. CASE SendContent(c)
      <3>1. /\ answer' \in [Clients -> Responses \cup {NoAnswer}]
            /\ complete' \subseteq Clients
        BY <2>1, <2>2, <2>8 DEF SendContent, ContentArrives, Live
      <3>2. thread' = [thread EXCEPT ![c] = "close"] /\ sock[c] \in Clients /\ reply[c] # NoAnswer
        BY <2>2, <2>8 DEF SendContent, Live
      <3>3. UNCHANGED <<up, backlog, clientVars, tableVars, stale, sock, reply, open>>
        BY <2>8 DEF SendContent
      <3>4. "close" \in Live
        BY DEF Live
      <3> QED BY <1>1, <3>1, <3>2, <3>3, <3>4, TypeThread
    <2>9. CASE Close(c)
      BY <1>1, <2>1, <2>2, <2>9, TypeThread DEF Close, netVars, clientVars
    <2>10. CASE ReadFaults(c) \/ OpenFaults(c) \/ SendFails(c)
      BY <1>4, <2>10 DEF ReadFaults, OpenFaults, SendFails
    <2> QED BY <1>5, <2>3, <2>4, <2>5, <2>6, <2>7, <2>8, <2>9, <2>10 DEF handle_client
  <1> QED BY <1>2, <1>3, <1>4, <1>5 DEF ThreadSteps, DetachFaults

(* What a step of the loop with epoll has to keep.                         *)
LEMMA TypeLoop ==
    ASSUME TypeInv, NetTypeOK(Responses)', UNCHANGED <<threadVars, build>>,
           edge' \subseteq Ports, events' \subseteq Ports, stage' \in Stages, port' \in Ports,
           cur' \in Clients \cup {NoClient}, stage' \in Busy => cur' \in Clients,
           sending' \in {ResponseTo[q] : q \in Requests} \cup {NoAnswer},
           buffer' \in [Ports -> Requests \cup {NoRequest}]
    PROVE TypeInv'
  BY DEF TypeInv, TypeOK, Connected, threadVars, tableVars, Responses, Table

LEMMA TypeEpoll ==
    ASSUME TypeInv, EpollSteps
    PROVE TypeInv'
  <1> DEFINE Rest == UNCHANGED <<threadVars, build>>
  <1>1. Rest
    BY DEF EpollSteps
  <1>2. /\ NetTypeOK(Responses)
        /\ edge \subseteq Ports /\ events \subseteq Ports /\ stage \in Stages /\ port \in Ports
        /\ cur \in Clients \cup {NoClient} /\ (stage \in Busy => cur \in Clients)
        /\ sending \in {ResponseTo[q] : q \in Requests} \cup {NoAnswer}
        /\ buffer \in [Ports -> Requests \cup {NoRequest}]
    BY DEF TypeInv, TypeOK, Connected, Responses
  <1> USE DEF Stages, Busy
  <1>3. ASSUME UNCHANGED netVars PROVE NetTypeOK(Responses)'
    BY <1>2, <1>3 DEF netVars, NetTypeOK, Responses
  <1>4. ASSUME NEW c \in Clients, NEW p \in Ports, Arrive(c, p) PROVE TypeInv'
    BY <1>1, <1>2, <1>4, TypeConnect, TypeLoop DEF Arrive
  <1>5. CASE EpollWait
    BY <1>1, <1>2, <1>3, <1>5, TypeLoop DEF EpollWait
  <1>6. ASSUME NEW p \in Ports, AcceptOne(p) PROVE TypeInv'
    <2>1. backlog' \in [Ports -> Seq(Clients)] /\ Head(backlog[p]) \in Clients
      BY <1>2, <1>6, TakeKeepsType DEF AcceptOne, NetTypeOK
    <2>2. NetTypeOK(Responses)'
      BY <1>2, <1>6, <2>1 DEF AcceptOne, NetTypeOK, clientVars, Responses
    <2> QED BY <1>1, <1>2, <1>6, <2>1, <2>2, TypeLoop DEF AcceptOne
  <1>7. CASE EventsDone
    BY <1>1, <1>2, <1>3, <1>7, TypeLoop DEF EventsDone
  <1>8. CASE Handshake
    BY <1>1, <1>2, <1>3, <1>8, TypeLoop DEF Handshake
  <1>9. CASE HandshakeFails
    BY <1>1, <1>2, <1>3, <1>9, TypeLoop DEF HandshakeFails
  <1>10. CASE Read
    <2>1. request[cur] \in Requests
      BY <1>2, <1>10 DEF Read, NetTypeOK
    <2> QED BY <1>1, <1>2, <1>3, <1>10, <2>1, TypeLoop DEF Read
  <1>11. CASE ReadNothing
    BY <1>1, <1>2, <1>3, <1>11, TypeLoop DEF ReadNothing
  <1>12. CASE SendHeaderOne
    <2>1. NetTypeOK(Responses)'
      <3>1. sending \in Responses \cup {NoAnswer} /\ cur \in Clients
        BY <1>2, <1>12 DEF SendHeaderOne, Responses
      <3>2. answer' \in [Clients -> Responses \cup {NoAnswer}] /\ complete' \subseteq Clients
        BY <1>2, <1>12, <3>1 DEF SendHeaderOne, HeaderArrives, NetTypeOK
      <3>3. UNCHANGED <<up, backlog, client, request>>
        BY <1>12 DEF SendHeaderOne, clientVars
      <3> QED BY <1>2, <3>2, <3>3 DEF NetTypeOK, Responses
    <2> QED BY <1>1, <1>2, <1>12, <2>1, TypeLoop DEF SendHeaderOne
  <1>13. CASE SendContentOne
    <2>1. NetTypeOK(Responses)'
      BY <1>2, <1>13 DEF SendContentOne, ContentArrives, NetTypeOK, clientVars, Responses
    <2> QED BY <1>1, <1>2, <1>13, <2>1, TypeLoop DEF SendContentOne
  <1>14. CASE SendOneFails
    BY <1>1, <1>14, TypeEnds DEF SendOneFails, ServeEnds
  <1>15. CASE CloseOne
    BY <1>1, <1>2, <1>3, <1>15, TypeLoop DEF CloseOne
  <1> QED BY <1>4, <1>5, <1>6, <1>7, <1>8, <1>9, <1>10, <1>11, <1>12, <1>13, <1>14, <1>15
          DEF EpollSteps, Serve

LEMMA TypeStep == TypeInv /\ [Next]_webVars => TypeInv'
  <1> SUFFICES ASSUME TypeInv, [Next]_webVars PROVE TypeInv'
    OBVIOUS
  <1>1. CASE UNCHANGED webVars
    BY <1>1 DEF webVars, netVars, threadVars, tableVars, epollVars, TypeInv, TypeOK, NetTypeOK,
                Connected, Table
  <1> QED BY <1>1, StepCases, TypeClients, TypeThreads, TypeEpoll

(* The state of the web server is what it is declared to be.               *)
THEOREM TypeCorrect == Spec => []TypeOK
  <1>1. TypeInv => TypeOK
    BY DEF TypeInv
  <1> QED BY <1>1, TypeInit, TypeStep, PTL DEF Spec

----------------------------------------------------------------------------
(* accept never blocks the loop with epoll.                                *)

LEMMA ApartInit == Init => Apart
  BY DEF Init, ThreadInit, EpollInit, Apart

LEMMA ApartStep == Apart /\ [Next]_webVars => Apart'
  <1> SUFFICES ASSUME Apart, [Next]_webVars PROVE Apart'
    OBVIOUS
  <1>1. CASE ClientSteps
    BY <1>1 DEF ClientSteps, Apart, threadVars, epollVars
  <1>2. CASE ThreadSteps
    BY <1>2 DEF ThreadSteps, Apart, epollVars
  <1>3. CASE EpollSteps
    BY <1>3 DEF EpollSteps, Apart, threadVars
  <1>4. CASE UNCHANGED webVars
    BY <1>4 DEF webVars, Apart, threadVars, epollVars
  <1> QED BY <1>1, <1>2, <1>3, <1>4, StepCases

LEMMA ArrivalsStep ==
    TypeInv /\ Apart /\ ArrivalsBehindEvents /\ [Next]_webVars => ArrivalsBehindEvents'
  <1> SUFFICES ASSUME TypeInv, Apart, ArrivalsBehindEvents, [Next]_webVars
               PROVE ArrivalsBehindEvents'
    OBVIOUS
  <1>1. /\ backlog \in [Ports -> Seq(Clients)] /\ edge \subseteq Ports /\ events \subseteq Ports
        /\ \A p \in Ports : Len(backlog[p]) \in Nat
    BY LenProperties DEF TypeInv, TypeOK, NetTypeOK
  <1>2. ASSUME UNCHANGED <<backlog, edge, events>> PROVE ArrivalsBehindEvents'
    BY <1>2 DEF ArrivalsBehindEvents
  <1>3. CASE ClientSteps
    BY <1>2, <1>3 DEF ClientSteps, Say, Ask, Finish, Leave, epollVars
  <1>4. CASE ThreadSteps
    <2>1. edge' = {} /\ events' = {}
      BY <1>4 DEF ThreadSteps, Apart, epollVars
    <2> QED BY <2>1 DEF ArrivalsBehindEvents
  <1>5. ASSUME NEW c \in Clients, NEW p \in Ports, Arrive(c, p) PROVE ArrivalsBehindEvents'
    <2>1. /\ backlog' = [backlog EXCEPT ![p] = Append(@, c)]
          /\ edge' = edge \cup {p} /\ events' = events
      BY <1>5 DEF Arrive, Connect
    <2>2. Len(backlog'[p]) = Len(backlog[p]) + 1
      BY <1>1, <2>1, AppendProperties
    <2> QED BY <1>1, <2>1, <2>2 DEF ArrivalsBehindEvents
  <1>6. CASE EpollWait
    <2>1. edge' = {} /\ backlog' = backlog /\ \A p \in events' : backlog[p] # <<>>
      BY <1>6 DEF EpollWait, netVars
    <2>2. \A p \in Ports : backlog[p] # <<>> => Len(backlog[p]) >= 1
      BY <1>1, EmptySeq
    <2> QED BY <2>1, <2>2 DEF ArrivalsBehindEvents
  <1>7. ASSUME NEW p \in Ports, AcceptOne(p) PROVE ArrivalsBehindEvents'
    <2>1. /\ backlog' = [backlog EXCEPT ![p] = Tail(@)] /\ backlog[p] # <<>>
          /\ edge' = edge /\ events' = events \ {p} /\ p \in events
      BY <1>7 DEF AcceptOne, Take
    <2>2. Len(backlog'[p]) = Len(backlog[p]) - 1
      BY <1>1, <2>1, HeadTailProperties
    <2> QED BY <1>1, <2>1, <2>2 DEF ArrivalsBehindEvents
  <1>8. CASE EventsDone \/ Handshake \/ HandshakeFails \/ Read \/ ReadNothing \/ SendHeaderOne
               \/ SendContentOne \/ SendOneFails \/ CloseOne
    BY <1>2, <1>8 DEF EventsDone, Handshake, HandshakeFails, Read, ReadNothing, SendHeaderOne,
                      SendContentOne, SendOneFails, CloseOne, ServeEnds, netVars, epollVars
  <1>9. CASE UNCHANGED webVars
    BY <1>2, <1>9 DEF webVars, netVars, epollVars
  <1>10. CASE EpollSteps
    BY <1>5, <1>6, <1>7, <1>8, <1>10 DEF EpollSteps, Serve
  <1> QED BY <1>3, <1>4, <1>9, <1>10, StepCases

(* The loop never waits in accept, although epoll reports arrivals once    *)
(* and only one connection is accepted for a report.                       *)
THEOREM AcceptReturns == Spec => []AcceptDoesNotBlock
  <1> DEFINE Inv == TypeInv /\ Apart /\ ArrivalsBehindEvents
  <1>1. Init => Inv
    BY TypeInit, ApartInit DEF Init, EpollInit, ArrivalsBehindEvents
  <1>2. Inv /\ [Next]_webVars => Inv'
    BY TypeStep, ApartStep, ArrivalsStep
  <1>3. Inv => AcceptDoesNotBlock
    <2> SUFFICES ASSUME Inv, NEW p \in events PROVE backlog[p] # <<>>
      BY DEF AcceptDoesNotBlock
    <2>1. p \in Ports /\ Len(backlog[p]) >= 1
      BY DEF ArrivalsBehindEvents, TypeInv, TypeOK
    <2> QED BY <2>1, EmptySeq
  <1> QED BY <1>1, <1>2, <1>3, PTL DEF Spec

----------------------------------------------------------------------------
(* Threads serve their own clients.                                        *)

LEMMA HeadAndTail ==
    ASSUME TypeInv, NEW p \in Ports, backlog[p] # <<>>, Take(p)
    PROVE /\ Head(backlog[p]) \in Clients
          /\ 1 \in 1..Len(backlog[p]) /\ Head(backlog[p]) = backlog[p][1]
          /\ Len(backlog[p]) \in Nat
          /\ \A o \in Ports \ {p} : backlog'[o] = backlog[o]
          /\ \A i \in 1..Len(backlog'[p]) :
               i + 1 \in 1..Len(backlog[p]) /\ i \in Nat /\ backlog'[p][i] = backlog[p][i + 1]
  <1>1. backlog \in [Ports -> Seq(Clients)] /\ backlog[p] \in Seq(Clients)
    BY DEF TypeInv, TypeOK, NetTypeOK
  <1>2. backlog' = [backlog EXCEPT ![p] = Tail(@)] /\ backlog'[p] = Tail(backlog[p])
    BY <1>1 DEF Take
  <1>3. /\ Head(backlog[p]) \in Clients
        /\ Len(Tail(backlog[p])) = Len(backlog[p]) - 1
        /\ \A i \in 1..Len(Tail(backlog[p])) : Tail(backlog[p])[i] = backlog[p][i + 1]
        /\ Len(backlog[p]) \in Nat \ {0}
    BY <1>1, HeadTailProperties, EmptySeq
  <1>4. Head(backlog[p]) = backlog[p][1]
    BY <1>1
  <1> QED BY <1>1, <1>2, <1>3, <1>4

LEMMA WaitingInit == Init => ThreadInv
  <1> SUFFICES ASSUME Init PROVE ThreadInv
    OBVIOUS
  <1>1. \A p \in Ports : Len(backlog[p]) = 0
    BY EmptySeq DEF Init, ThreadInit, WebInit
  <1>2. Waiting
    BY <1>1 DEF Waiting, Init, ThreadInit, WebInit
  <1> QED BY <1>2 DEF ThreadInv, EntriesAreOwn, ServesOwn, DoneIsClosed, Init, ThreadInit, Live

(* A connection joins a backlog.                                           *)
LEMMA WaitingConnect ==
    ASSUME TypeInv, Waiting, NEW c \in Clients, NEW p \in Ports, Connect(c, p),
           UNCHANGED <<open, thread>>
    PROVE Waiting'
  <1>1. /\ client[c] = "idle" /\ client' = [client EXCEPT ![c] = "here"]
        /\ backlog' = [backlog EXCEPT ![p] = Append(@, c)]
    BY DEF Connect
  <1>2. backlog \in [Ports -> Seq(Clients)]
        /\ client \in [Clients -> {"idle", "here", "shut", "left"}]
    BY DEF TypeInv, TypeOK, NetTypeOK
  <1>3. /\ Len(backlog[p]) \in Nat /\ Len(backlog'[p]) = Len(backlog[p]) + 1
        /\ \A i \in 1..Len(backlog[p]) : backlog'[p][i] = backlog[p][i]
        /\ backlog'[p][Len(backlog[p]) + 1] = c
    BY <1>1, <1>2, AppendProperties, LenProperties
  <1>4. \A o \in Ports \ {p} : backlog'[o] = backlog[o]
    BY <1>1, <1>2
  <1>5. \A o \in Ports : \A i \in 1..Len(backlog[o]) : backlog[o][i] \in Clients /\ backlog[o][i] # c
    BY <1>1, <1>2, ElementOfSeq DEF Waiting
  <1>6. c \notin open /\ thread[c] = "none"
    BY <1>1 DEF Waiting
  <1>7. \A i \in 1..Len(backlog'[p]) : i \in 1..Len(backlog[p]) \/ i = Len(backlog[p]) + 1
    BY <1>3
  <1>8. ASSUME NEW o \in Ports, NEW i \in 1..Len(backlog'[o])
        PROVE /\ client'[backlog'[o][i]] # "idle"
              /\ backlog'[o][i] \notin open' /\ thread'[backlog'[o][i]] = "none"
    <2>1. CASE o = p /\ i = Len(backlog[p]) + 1
      BY <1>1, <1>2, <1>3, <1>6, <2>1
    <2>2. CASE ~(o = p /\ i = Len(backlog[p]) + 1)
      <3>1. i \in 1..Len(backlog[o]) /\ backlog'[o][i] = backlog[o][i]
        BY <1>3, <1>4, <1>7, <1>8, <2>2
      <3> QED BY <1>1, <1>2, <1>5, <3>1 DEF Waiting
    <2> QED BY <2>1, <2>2
  <1>9. ASSUME NEW o \in Ports, NEW q \in Ports,
               NEW i \in 1..Len(backlog'[o]), NEW j \in 1..Len(backlog'[q]),
               backlog'[o][i] = backlog'[q][j]
        PROVE o = q /\ i = j
    <2>1. \/ o = p /\ i = Len(backlog[p]) + 1 /\ backlog'[o][i] = c
          \/ i \in 1..Len(backlog[o]) /\ backlog'[o][i] = backlog[o][i]
      BY <1>3, <1>4, <1>7
    <2>2. \/ q = p /\ j = Len(backlog[p]) + 1 /\ backlog'[q][j] = c
          \/ j \in 1..Len(backlog[q]) /\ backlog'[q][j] = backlog[q][j]
      BY <1>3, <1>4, <1>7
    <2> QED BY <1>5, <1>9, <2>1, <2>2 DEF Waiting
  <1>10. \A d \in Clients : client'[d] = "idle" => d \notin open' /\ thread'[d] = "none"
    BY <1>1, <1>2 DEF Waiting
  <1> QED BY <1>8, <1>9, <1>10 DEF Waiting

(* A connection leaves a backlog.                                          *)
LEMMA WaitingTake ==
    ASSUME TypeInv, Waiting, NEW p \in Ports, backlog[p] # <<>>, Take(p), UNCHANGED client,
           NEW c, c = Head(backlog[p]),
           open' \subseteq open \cup {c},
           \A d \in Clients \ {c} : thread'[d] = thread[d]
    PROVE Waiting'
  <1>1. /\ c \in Clients /\ 1 \in 1..Len(backlog[p]) /\ c = backlog[p][1]
        /\ Len(backlog[p]) \in Nat
        /\ \A o \in Ports \ {p} : backlog'[o] = backlog[o]
        /\ \A i \in 1..Len(backlog'[p]) :
             i + 1 \in 1..Len(backlog[p]) /\ i \in Nat /\ backlog'[p][i] = backlog[p][i + 1]
    BY HeadAndTail
  <1>2. backlog \in [Ports -> Seq(Clients)]
    BY DEF TypeInv, TypeOK, NetTypeOK
  <1>3. \A o \in Ports : \A i \in 1..Len(backlog'[o]) : backlog'[o][i] # c
    <2>1. ASSUME NEW i \in 1..Len(backlog'[p]) PROVE backlog'[p][i] # c
      <3>1. i + 1 \in 1..Len(backlog[p]) /\ i + 1 # 1 /\ backlog'[p][i] = backlog[p][i + 1]
        BY <1>1, <2>1
      <3> QED BY <1>1, <3>1 DEF Waiting
    <2>2. ASSUME NEW o \in Ports \ {p}, NEW i \in 1..Len(backlog'[o]) PROVE backlog'[o][i] # c
      BY <1>1, <2>2 DEF Waiting
    <2> QED BY <2>1, <2>2
  <1>4. \A o \in Ports : \A i \in 1..Len(backlog[o]) : backlog[o][i] \in Clients
    BY <1>2, ElementOfSeq
  <1>5. client[c] # "idle"
    BY <1>1 DEF Waiting
  <1>6. ASSUME NEW o \in Ports, NEW i \in 1..Len(backlog'[o])
        PROVE /\ client'[backlog'[o][i]] # "idle"
              /\ backlog'[o][i] \notin open' /\ thread'[backlog'[o][i]] = "none"
    <2>1. CASE o = p
      BY <1>1, <1>3, <1>4, <1>6, <2>1 DEF Waiting
    <2>2. CASE o # p
      BY <1>1, <1>4, <1>6, <2>2 DEF Waiting
    <2> QED BY <2>1, <2>2
  <1>7. ASSUME NEW o \in Ports, NEW q \in Ports,
               NEW i \in 1..Len(backlog'[o]), NEW j \in 1..Len(backlog'[q]),
               backlog'[o][i] = backlog'[q][j]
        PROVE o = q /\ i = j
    <2>1. \/ o = p /\ i + 1 \in 1..Len(backlog[o]) /\ backlog'[o][i] = backlog[o][i + 1]
          \/ o # p /\ i \in 1..Len(backlog[o]) /\ backlog'[o][i] = backlog[o][i]
      BY <1>1
    <2>2. \/ q = p /\ j + 1 \in 1..Len(backlog[q]) /\ backlog'[q][j] = backlog[q][j + 1]
          \/ q # p /\ j \in 1..Len(backlog[q]) /\ backlog'[q][j] = backlog[q][j]
      BY <1>1
    <2>3. i \in Int /\ j \in Int
      OBVIOUS
    <2> QED BY <1>7, <2>1, <2>2, <2>3 DEF Waiting
  <1>8. \A d \in Clients : client'[d] = "idle" => d \notin open' /\ thread'[d] = "none"
    BY <1>5 DEF Waiting
  <1> QED BY <1>6, <1>7, <1>8 DEF Waiting

(* Steps that do not touch what the threads are about.                     *)
LEMMA ThreadInvKept ==
    ASSUME TypeInv, ThreadInv, UNCHANGED <<backlog, threadVars>>,
           \A c \in Clients : client'[c] = "idle" <=> client[c] = "idle"
    PROVE ThreadInv'
  <1>1. \A p \in Ports : \A i \in 1..Len(backlog[p]) : backlog[p][i] \in Clients
    BY ElementOfSeq DEF TypeInv, TypeOK, NetTypeOK
  <1>2. Waiting'
    BY <1>1 DEF ThreadInv, Waiting, threadVars
  <1> QED BY <1>2 DEF ThreadInv, EntriesAreOwn, ServesOwn, DoneIsClosed, threadVars, tableVars

LEMMA ThreadInvAccept ==
    ASSUME TypeInv, ThreadInv, Accept
    PROVE ThreadInv'
  <1> DEFINE c == Head(backlog["http"])
             capacity == IF Full THEN 2 * client_capacity ELSE client_capacity
  <1>1. /\ backlog["http"] # <<>>
        /\ client_infos' = [Grown(capacity) EXCEPT ![num_clients] = c]
        /\ entry' = [entry EXCEPT ![c] = num_clients]
        /\ stale \subseteq stale'
        /\ thread' = thread \/ thread' = [thread EXCEPT ![c] = "start"]
        /\ open' = open \cup {c}
        /\ Take("http")
        /\ UNCHANGED <<client, sock>>
    BY DEF Accept, TakeEntry, clientVars
  <1>2. c \in Clients /\ c = backlog["http"][1] /\ 1 \in 1..Len(backlog["http"])
    BY <1>1, HeadAndTail DEF Ports
  <1>3. thread[c] = "none"
    BY <1>2 DEF ThreadInv, Waiting, Ports
  <1>4. /\ thread \in [Clients -> {"none", "start", "recv", "open", "header", "content", "close", "done"}]
        /\ entry \in [Clients -> Nat] /\ client_capacity \in Nat \ {0}
        /\ num_clients \in 0..client_capacity
        /\ client_infos \in [Table -> Clients \cup {NoClient}]
    BY DEF TypeInv, TypeOK
  <1>5. \A d \in Clients \ {c} : thread'[d] = thread[d] /\ entry'[d] = entry[d]
    BY <1>1, <1>2, <1>4
  <1>6. thread'[c] \in {"none", "start"} /\ entry'[c] = num_clients
    BY <1>1, <1>2, <1>3, <1>4
  <1>7. capacity \in Nat /\ num_clients \in 0..(capacity - 1) /\ client_capacity <= capacity
    BY <1>4 DEF Full
  <1>8. /\ client_infos'[num_clients] = c
        /\ \A i \in 0..(num_clients - 1) : client_infos'[i] = client_infos[i]
    BY <1>1, <1>4, <1>7 DEF Grown, Table
  <1>9. Waiting'
    BY <1>1, <1>5, WaitingTake DEF ThreadInv, Ports
  <1>10. EntriesAreOwn'
    <2> SUFFICES ASSUME NEW d \in Clients, thread'[d] = "start"
                 PROVE client_infos'[entry'[d]] = d /\ d \in open'
      BY DEF EntriesAreOwn
    <2>1. CASE d = c
      BY <1>1, <1>6, <1>8, <2>1
    <2>2. CASE d # c
      <3>1. thread[d] = "start" /\ entry'[d] = entry[d] /\ entry[d] \in 0..(num_clients - 1)
        BY <1>5, <2>2 DEF TypeInv, Connected
      <3> QED BY <1>1, <1>8, <3>1 DEF ThreadInv, EntriesAreOwn
    <2> QED BY <2>1, <2>2
  <1>11. ServesOwn'
    BY <1>1, <1>5, <1>6 DEF ThreadInv, ServesOwn, Live
  <1>12. DoneIsClosed'
    BY <1>1, <1>5, <1>6 DEF ThreadInv, DoneIsClosed
  <1> QED BY <1>9, <1>10, <1>11, <1>12 DEF ThreadInv

(* What a thread that goes on leaves alone, and where it goes.             *)
Moves(c, l) ==
    /\ UNCHANGED <<backlog, client, request, client_infos, entry, stale>>
    /\ thread[c] # "none"
    /\ l \notin {"none", "start"}
    /\ thread' = [thread EXCEPT ![c] = l]

LEMMA ThreadMoves ==
    ASSUME TypeInv, NEW c \in Clients, handle_client(c), up'
    PROVE \/ ReadEntry(c) /\ \E l \in {"recv", "done"} : Moves(c, l)
          \/ Close(c) /\ Moves(c, "done")
          \/ /\ \E l \in Live : Moves(c, l)
             /\ thread[c] \in Live /\ UNCHANGED <<sock, open>>
  <1> USE DEF netVars, clientVars, tableVars, Moves
  <1>1. CASE ReadEntry(c)
    BY <1>1 DEF ReadEntry
  <1>2. CASE Recv(c)
    BY <1>2 DEF Recv, Live
  <1>3. CASE RecvNothing(c)
    BY <1>3 DEF RecvNothing, Live
  <1>4. CASE OpenFile(c)
    BY <1>4 DEF OpenFile, Live
  <1>5. CASE SendHeader(c)
    BY <1>5 DEF SendHeader, Live
  <1>6. CASE SendContent(c)
    BY <1>6 DEF SendContent, Live
  <1>7. CASE Close(c)
    BY <1>7 DEF Close
  <1>8. CASE ReadFaults(c) \/ OpenFaults(c) \/ SendFails(c)
    BY <1>8 DEF ReadFaults, OpenFaults, SendFails, ServerEnds
  <1> QED BY <1>1, <1>2, <1>3, <1>4, <1>5, <1>6, <1>7, <1>8 DEF handle_client

(* A step of one thread.                                                   *)
LEMMA ThreadInvThread ==
    ASSUME TypeInv, ThreadInv, NEW c \in Clients, handle_client(c), up'
    PROVE ThreadInv'
  <1>1. /\ thread \in [Clients -> {"none", "start", "recv", "open", "header", "content", "close", "done"}]
        /\ sock \in [Clients -> Clients \cup {NoClient}]
        /\ \A p \in Ports : \A i \in 1..Len(backlog[p]) : backlog[p][i] \in Clients
    BY ElementOfSeq DEF TypeInv, TypeOK, NetTypeOK
  <1>2. ASSUME NEW l, Moves(c, l), open' \subseteq open PROVE Waiting'
    <2>1. \A d \in Clients : thread'[d] = "none" <=> thread[d] = "none"
      BY <1>1, <1>2 DEF Moves
    <2> QED BY <1>1, <1>2, <2>1 DEF Moves, ThreadInv, Waiting
  <1>3. CASE ReadEntry(c)
    <2>1. PICK l \in {"recv", "done"} : Moves(c, l)
      BY <1>3 DEF ReadEntry, Moves, netVars, clientVars, tableVars
    <2>2. PICK s \in WhatItPointsTo(c) :
            /\ sock' = [sock EXCEPT ![c] = s]
            /\ thread' = [thread EXCEPT ![c] = IF s = NoClient THEN "done" ELSE "recv"]
            /\ open' = open /\ thread[c] = "start"
      BY <1>3 DEF ReadEntry
    <2>3. client_infos[entry[c]] = c /\ c \in open /\ c # NoClient
      BY <2>2, NoValues DEF ThreadInv, EntriesAreOwn
    <2>4. s = c \/ (s = NoClient /\ c \in stale)
      BY <2>3 DEF WhatItPointsTo
    <2>5. \/ thread'[c] = "recv" /\ sock'[c] = c
          \/ thread'[c] = "done" /\ c \in stale
      BY <1>1, <2>2, <2>3, <2>4
    <2>6. \A d \in Clients \ {c} : thread'[d] = thread[d] /\ sock'[d] = sock[d]
      BY <1>1, <2>2
    <2>7. EntriesAreOwn' /\ ServesOwn' /\ DoneIsClosed'
      BY <2>1, <2>2, <2>3, <2>5, <2>6 DEF Moves, ThreadInv, EntriesAreOwn, ServesOwn, DoneIsClosed, Live
    <2> QED BY <1>2, <2>1, <2>2, <2>7 DEF ThreadInv
  <1>4. CASE Close(c)
    <2>1. /\ Moves(c, "done")
          /\ thread[c] = "close" /\ open' = open \ {sock[c]} /\ sock' = sock
      BY <1>4 DEF Close, Moves, netVars, clientVars, tableVars
    <2>2. sock[c] = c
      BY <2>1 DEF ThreadInv, ServesOwn, Live
    <2>3. thread'[c] = "done" /\ \A d \in Clients \ {c} : thread'[d] = thread[d]
      BY <1>1, <2>1 DEF Moves
    <2>4. EntriesAreOwn' /\ ServesOwn' /\ DoneIsClosed'
      BY <2>1, <2>2, <2>3 DEF Moves, ThreadInv, EntriesAreOwn, ServesOwn, DoneIsClosed, Live
    <2> QED BY <1>2, <2>1, <2>4 DEF ThreadInv
  <1>5. ASSUME NEW l \in Live, Moves(c, l), thread[c] \in Live, UNCHANGED <<sock, open>>
        PROVE ThreadInv'
    <2>1. thread'[c] \in Live /\ \A d \in Clients \ {c} : thread'[d] = thread[d]
      BY <1>1, <1>5 DEF Moves
    <2>2. EntriesAreOwn' /\ ServesOwn' /\ DoneIsClosed'
      BY <1>5, <2>1 DEF Moves, ThreadInv, EntriesAreOwn, ServesOwn, DoneIsClosed, Live
    <2> QED BY <1>2, <1>5, <2>2 DEF ThreadInv
  <1> QED BY <1>3, <1>4, <1>5, ThreadMoves

LEMMA ThreadOrEnd ==
    ASSUME TypeInv, NEW c \in Clients, handle_client(c)
    PROVE up' \/ ServerEnds
  <1> USE DEF netVars
  <1>1. CASE ReadEntry(c)
    BY <1>1 DEF ReadEntry
  <1>2. CASE Recv(c) \/ RecvNothing(c)
    BY <1>2 DEF Recv, RecvNothing
  <1>3. CASE OpenFile(c)
    BY <1>3 DEF OpenFile
  <1>4. CASE SendHeader(c) \/ SendContent(c)
    BY <1>4 DEF SendHeader, SendContent
  <1>5. CASE Close(c)
    BY <1>5 DEF Close
  <1>6. CASE ReadFaults(c) \/ OpenFaults(c) \/ SendFails(c)
    BY <1>6 DEF ReadFaults, OpenFaults, SendFails
  <1> QED BY <1>1, <1>2, <1>3, <1>4, <1>5, <1>6 DEF handle_client

LEMMA ThreadInvStep == TypeInv /\ ThreadInv /\ [Next]_webVars => ThreadInv'
  <1> SUFFICES ASSUME TypeInv, ThreadInv, [Next]_webVars PROVE ThreadInv'
    OBVIOUS
  <1>1. client \in [Clients -> {"idle", "here", "shut", "left"}]
    BY DEF TypeInv, TypeOK, NetTypeOK
  <1>2. ASSUME UNCHANGED <<backlog, client, threadVars>> PROVE ThreadInv'
    BY <1>2, ThreadInvKept
  <1>3. CASE ClientSteps
    <2>1. PICK c \in Clients : Say(c) /\ UNCHANGED <<threadVars, epollVars, build>>
      BY <1>3 DEF ClientSteps
    <2>2. UNCHANGED backlog /\ \A d \in Clients : client'[d] = "idle" <=> client[d] = "idle"
      BY <1>1, <2>1 DEF Say, Ask, Finish, Leave
    <2> QED BY <2>1, <2>2, ThreadInvKept
  <1>4. ASSUME NEW c \in Clients, NEW p \in Ports, Connect(c, p), UNCHANGED threadVars
        PROVE ThreadInv'
    <2>1. Waiting'
      BY <1>4, WaitingConnect DEF ThreadInv, threadVars
    <2> QED BY <1>4, <2>1 DEF ThreadInv, EntriesAreOwn, ServesOwn, DoneIsClosed, threadVars, tableVars
  <1>5. CASE ThreadSteps
    <2>1. ASSUME ServerEnds PROVE ThreadInv'
      BY <1>2, <2>1 DEF ServerEnds, clientVars
    <2>2. ASSUME NEW c \in Clients, handle_client(c) PROVE ThreadInv'
      BY <2>1, <2>2, ThreadOrEnd, ThreadInvThread
    <2> QED BY <1>4, <1>5, <2>1, <2>2, ThreadInvAccept DEF ThreadSteps, DetachFaults, Ports
  <1>6. ASSUME NEW p \in Ports, AcceptOne(p), UNCHANGED threadVars PROVE ThreadInv'
    <2>1. /\ backlog[p] # <<>> /\ Take(p) /\ UNCHANGED <<client, open, thread>>
      BY <1>6 DEF AcceptOne, clientVars, threadVars
    <2>2. Waiting'
      BY <2>1, WaitingTake DEF ThreadInv
    <2> QED BY <1>6, <2>2 DEF ThreadInv, EntriesAreOwn, ServesOwn, DoneIsClosed, threadVars, tableVars
  <1>7. CASE EpollSteps
    <2>1. UNCHANGED threadVars
      BY <1>7 DEF EpollSteps
    <2>2. ASSUME NEW c \in Clients, NEW p \in Ports, Arrive(c, p) PROVE ThreadInv'
      BY <1>4, <2>1, <2>2 DEF Arrive
    <2>3. CASE EpollWait \/ EventsDone \/ Handshake \/ HandshakeFails \/ Read \/ ReadNothing \/ CloseOne
      BY <1>2, <2>1, <2>3 DEF EpollWait, EventsDone, Handshake, HandshakeFails, Read, ReadNothing,
                              CloseOne, netVars
    <2>4. CASE SendHeaderOne \/ SendContentOne \/ SendOneFails
      BY <1>2, <2>1, <2>4 DEF SendHeaderOne, SendContentOne, SendOneFails, ServeEnds, clientVars
    <2> QED BY <1>6, <1>7, <2>1, <2>2, <2>3, <2>4 DEF EpollSteps, Serve
  <1>8. CASE UNCHANGED webVars
    BY <1>2, <1>8 DEF webVars, netVars
  <1> QED BY <1>3, <1>5, <1>7, <1>8, StepCases

(* No two threads serve one connection, and none serves a closed one,      *)
(* although a thread reads its connection from a table that accept writes  *)
(* and moves.                                                              *)
THEOREM OneThreadEach == Spec => []ServedByOne
  <1> DEFINE Inv == TypeInv /\ ThreadInv
  <1>1. Inv => ServedByOne
    <2> SUFFICES ASSUME Inv PROVE ServedByOne
      OBVIOUS
    <2>1. \A c \in Serving : c \in Clients /\ thread[c] \in Live
      BY DEF Serving, Live, TypeInv, TypeOK
    <2> QED BY <2>1 DEF ServedByOne, ThreadInv, ServesOwn
  <1> QED BY <1>1, TypeInit, WaitingInit, TypeStep, ThreadInvStep, PTL DEF Spec

(* A connection is never left open unserved but for the two reasons.       *)
THEOREM NoneForgotten == Spec => []LostForAReason
  <1> DEFINE Inv == TypeInv /\ ThreadInv
  <1>1. Inv => LostForAReason
    <2> SUFFICES ASSUME Inv, NEW c \in open
                 PROVE thread[c] = "start" \/ (\E d \in Serving : sock[d] = c) \/ Lost(c)
      BY DEF LostForAReason
    <2>1. c \in Clients
          /\ thread[c] \in {"none", "start", "recv", "open", "header", "content", "close", "done"}
      BY DEF TypeInv, TypeOK
    <2>2. CASE thread[c] \in Live
      <3>1. sock[c] = c /\ c \in Serving
        BY <2>1, <2>2 DEF ThreadInv, ServesOwn, Serving, Live
      <3> QED BY <3>1
    <2>3. CASE thread[c] \in {"none", "done"}
      BY <2>1, <2>3 DEF ThreadInv, DoneIsClosed, Lost
    <2> QED BY <2>1, <2>2, <2>3 DEF Live
  <1> QED BY <1>1, TypeInit, WaitingInit, TypeStep, ThreadInvStep, PTL DEF Spec

----------------------------------------------------------------------------
(* Answers.                                                                *)

LEMMA AnswerInit == Init => AnswerInv
  BY DEF Init, ThreadInit, EpollInit, WebInit, AnswerInv, RepliesAreOwn, SendingIsOwn, SilentIsShut,
         AnswersAreOwn

LEMMA AnswerKept ==
    ASSUME AnswerInv,
           UNCHANGED <<client, request, answer, thread, reply, stage, cur, sending, build>>
    PROVE AnswerInv'
  BY DEF AnswerInv, RepliesAreOwn, SendingIsOwn, SilentIsShut, AnswersAreOwn

LEMMA AnswerClients ==
    ASSUME TypeInv, AnswerInv, ClientSteps
    PROVE AnswerInv'
  <1>1. PICK c \in Clients : Say(c) /\ UNCHANGED <<threadVars, epollVars, build>>
    BY DEF ClientSteps
  <1>2. /\ client \in [Clients -> {"idle", "here", "shut", "left"}]
        /\ request \in [Clients -> Requests \cup {NoRequest}]
        /\ stage \in Busy => cur \in Clients
    BY DEF TypeInv, TypeOK, NetTypeOK, Connected
  <1>3. UNCHANGED <<answer, thread, reply, stage, cur, sending, build>>
    BY <1>1 DEF Say, Ask, Finish, Leave, threadVars, epollVars
  <1>4. /\ \A d \in Clients \ {c} : client'[d] = client[d] /\ request'[d] = request[d]
        /\ \/ client[c] = "here" /\ client'[c] = "here" /\ request[c] = NoRequest
           \/ request'[c] = request[c] /\ client[c] = "here" /\ request[c] = NoRequest /\ client'[c] = "shut"
           \/ request'[c] = request[c] /\ client[c] \in {"here", "shut"} /\ client'[c] = "left"
    BY <1>1, <1>2 DEF Say, Ask, Finish, Leave
  <1>5. RepliesAreOwn'
    BY <1>3, <1>4 DEF AnswerInv, RepliesAreOwn
  <1>6. SendingIsOwn'
    BY <1>2, <1>3, <1>4 DEF AnswerInv, SendingIsOwn, Busy
  <1>7. SilentIsShut'
    BY <1>3, <1>4 DEF AnswerInv, SilentIsShut
  <1>8. AnswersAreOwn'
    <2>1. CASE build = "server"
      BY <1>3, <1>4, <2>1 DEF AnswerInv, AnswersAreOwn
    <2>2. CASE build = "server_https"
      BY <1>3, <1>4, <2>2 DEF AnswerInv, AnswersAreOwn, SilentIsShut
    <2> QED BY <2>1, <2>2 DEF TypeInv, TypeOK
  <1> QED BY <1>5, <1>6, <1>7, <1>8 DEF AnswerInv

LEMMA AnswerConnect ==
    ASSUME TypeInv, AnswerInv, NEW c \in Clients, NEW p \in Ports, Connect(c, p),
           UNCHANGED <<thread, reply, stage, cur, sending, build>>
    PROVE AnswerInv'
  <1>1. /\ client \in [Clients -> {"idle", "here", "shut", "left"}]
        /\ stage \in Busy => cur \in Clients
    BY DEF TypeInv, TypeOK, NetTypeOK, Connected
  <1>2. /\ UNCHANGED <<request, answer>>
        /\ \A d \in Clients : client'[d] = client[d] \/ client[d] = "idle"
    BY <1>1 DEF Connect
  <1>3. SendingIsOwn'
    BY <1>1, <1>2 DEF AnswerInv, SendingIsOwn, Busy
  <1> QED BY <1>2, <1>3 DEF AnswerInv, RepliesAreOwn, SilentIsShut, AnswersAreOwn

LEMMA AnswerThread ==
    ASSUME TypeInv, ThreadInv, AnswerInv, NEW c \in Clients, handle_client(c), build = "server",
           UNCHANGED <<epollVars, build>>
    PROVE AnswerInv'
  <1>1. /\ thread \in [Clients -> {"none", "start", "recv", "open", "header", "content", "close", "done"}]
        /\ reply \in [Clients -> {handleHTTPRequest[q] : q \in Requests} \cup {NoAnswer}]
        /\ answer \in [Clients -> Responses \cup {NoAnswer}]
        /\ UNCHANGED <<stage, cur, sending, build>>
    BY DEF TypeInv, TypeOK, NetTypeOK, Responses, epollVars
  <1>2. thread[c] \in Live => sock[c] = c
    BY DEF ThreadInv, ServesOwn
  <1>3. ASSUME NEW l, Moves(c, l), l \notin {"open", "header", "content"}, UNCHANGED <<reply, answer>>
        PROVE AnswerInv'
    <2>1. thread'[c] = l /\ \A d \in Clients \ {c} : thread'[d] = thread[d]
      BY <1>1, <1>3 DEF Moves
    <2> QED BY <1>1, <1>3, <2>1 DEF Moves, AnswerInv, RepliesAreOwn, SendingIsOwn, SilentIsShut, AnswersAreOwn
  <1>4. CASE ReadEntry(c)
    <2>1. UNCHANGED <<reply, answer>> /\ \E l \in {"recv", "done"} : Moves(c, l)
      BY <1>4 DEF ReadEntry, Moves, netVars, clientVars, tableVars
    <2> QED BY <1>3, <2>1
  <1>5. CASE Recv(c)
    <2>1. /\ request[c] # NoRequest
          /\ reply' = [reply EXCEPT ![c] = handleHTTPRequest[request[c]]]
          /\ \A d \in Clients \ {c} : thread'[d] = thread[d]
          /\ UNCHANGED <<client, request, answer>>
      BY <1>1, <1>2, <1>5 DEF Recv, Live, netVars
    <2>2. RepliesAreOwn'
      BY <1>1, <2>1 DEF AnswerInv, RepliesAreOwn
    <2> QED BY <1>1, <2>1, <2>2 DEF AnswerInv, SendingIsOwn, SilentIsShut, AnswersAreOwn
  <1>6. CASE RecvNothing(c)
    BY <1>3, <1>6 DEF RecvNothing, Moves, netVars, clientVars, tableVars
  <1>7. CASE Close(c)
    BY <1>3, <1>7 DEF Close, Moves, netVars, clientVars, tableVars
  <1>8. ASSUME NEW l \in Live, thread[c] \in {"open", "header", "content"}, thread' = [thread EXCEPT ![c] = l],
               UNCHANGED <<client, request, reply>>, answer' = answer \/ answer' = [answer EXCEPT ![c] = reply[c]]
        PROVE AnswerInv'
    <2>1. \A d \in Clients \ {c} : thread'[d] = thread[d] /\ answer'[d] = answer[d]
      BY <1>1, <1>8
    <2>2. answer'[c] \in {answer[c], reply[c]}
      BY <1>1, <1>8
    <2>3. request[c] # NoRequest /\ reply[c] = handleHTTPRequest[request[c]]
      BY <1>8 DEF AnswerInv, RepliesAreOwn
    <2>4. RepliesAreOwn' /\ AnswersAreOwn'
      BY <1>1, <1>8, <2>1, <2>2, <2>3 DEF AnswerInv, RepliesAreOwn, AnswersAreOwn
    <2> QED BY <1>1, <1>8, <2>4 DEF AnswerInv, SendingIsOwn, SilentIsShut
  <1>9. CASE OpenFile(c)
    BY <1>8, <1>9 DEF OpenFile, netVars, Live
  <1>10. CASE SendHeader(c)
    <2>1. /\ thread[c] = "header" /\ UNCHANGED <<client, request, reply>>
          /\ answer' = answer \/ answer' = [answer EXCEPT ![c] = reply[c]]
          /\ \E l \in {"close", "content"} : thread' = [thread EXCEPT ![c] = l]
      BY <1>2, <1>10 DEF SendHeader, HeaderArrives, clientVars, Live
    <2> QED BY <1>8, <2>1 DEF Live
  <1>11. CASE SendContent(c)
    BY <1>8, <1>11 DEF SendContent, ContentArrives, clientVars, Live
  <1>12. CASE ReadFaults(c) \/ OpenFaults(c) \/ SendFails(c)
    BY <1>1, <1>12, AnswerKept DEF ReadFaults, OpenFaults, SendFails, ServerEnds, clientVars, threadVars
  <1> QED BY <1>4, <1>5, <1>6, <1>7, <1>9, <1>10, <1>11, <1>12 DEF handle_client

LEMMA AnswerEpoll ==
    ASSUME TypeInv, AnswerInv, EpollSteps
    PROVE AnswerInv'
  <1>1. /\ client \in [Clients -> {"idle", "here", "shut", "left"}]
        /\ answer \in [Clients -> Responses \cup {NoAnswer}]
        /\ stage \in Busy => cur \in Clients
    BY DEF TypeInv, TypeOK, NetTypeOK, Connected, Responses
  <1>2. UNCHANGED <<thread, reply, build>> /\ build = "server_https"
    BY DEF EpollSteps, threadVars
  <1>3. ASSUME NEW c \in Clients, NEW p \in Ports, Arrive(c, p) PROVE AnswerInv'
    BY <1>2, <1>3, AnswerConnect DEF Arrive
  <1>4. ASSUME UNCHANGED <<client, request, answer>>, SendingIsOwn' PROVE AnswerInv'
    BY <1>2, <1>4 DEF AnswerInv, RepliesAreOwn, SilentIsShut, AnswersAreOwn
  <1>5. CASE EpollWait \/ EventsDone \/ Handshake \/ HandshakeFails \/ CloseOne
    <2>1. UNCHANGED <<client, request, answer>> /\ stage' \notin {"header", "content", "close"}
      BY <1>5 DEF EpollWait, EventsDone, Handshake, HandshakeFails, CloseOne, netVars
    <2> QED BY <1>4, <2>1 DEF SendingIsOwn
  <1>6. ASSUME NEW p \in Ports, AcceptOne(p) PROVE AnswerInv'
    <2>1. UNCHANGED <<client, request, answer>> /\ stage' \notin {"header", "content", "close"}
      BY <1>6 DEF AcceptOne, clientVars
    <2> QED BY <1>4, <2>1 DEF SendingIsOwn
  <1>7. CASE Read
    BY <1>4, <1>7 DEF Read, netVars, SendingIsOwn
  <1>8. CASE ReadNothing
    BY <1>4, <1>8 DEF ReadNothing, NothingToRead, netVars, SendingIsOwn
  <1>9. CASE SendHeaderOne
    <2>1. /\ stage = "header" /\ stage' \in {"content", "close"} /\ cur \in Clients
          /\ UNCHANGED <<client, request, cur, sending>>
          /\ answer' = IF client[cur] = "left" THEN answer ELSE [answer EXCEPT ![cur] = sending]
      BY <1>1, <1>9 DEF SendHeaderOne, HeaderArrives, clientVars, Busy
    <2>2. SendingIsOwn /\ SendingIsOwn'
      BY <2>1 DEF AnswerInv, SendingIsOwn
    <2>3. CASE client[cur] = "left"
      BY <1>4, <2>1, <2>2, <2>3
    <2>4. CASE client[cur] # "left"
      <3>1. answer'[cur] = sending /\ \A d \in Clients \ {cur} : answer'[d] = answer[d]
        BY <1>1, <2>1, <2>4
      <3>2. \/ request[cur] = NoRequest /\ client[cur] = "shut"
            \/ request[cur] # NoRequest /\ sending = ResponseTo[request[cur]]
        BY <2>1, <2>2, <2>4 DEF SendingIsOwn
      <3>3. SilentIsShut' /\ AnswersAreOwn'
        BY <1>2, <2>1, <3>1, <3>2 DEF AnswerInv, SilentIsShut, AnswersAreOwn
      <3> QED BY <1>2, <2>1, <2>2, <3>3 DEF AnswerInv, RepliesAreOwn
    <2> QED BY <2>3, <2>4
  <1>10. CASE SendContentOne
    BY <1>4, <1>10 DEF SendContentOne, ContentArrives, clientVars, AnswerInv, SendingIsOwn
  <1>11. CASE SendOneFails
    BY <1>2, <1>11, AnswerKept DEF SendOneFails, ServeEnds, clientVars, epollVars
  <1> QED BY <1>3, <1>5, <1>6, <1>7, <1>8, <1>9, <1>10, <1>11 DEF EpollSteps, Serve

LEMMA AnswerStep == TypeInv /\ ThreadInv /\ AnswerInv /\ [Next]_webVars => AnswerInv'
  <1> SUFFICES ASSUME TypeInv, ThreadInv, AnswerInv, [Next]_webVars PROVE AnswerInv'
    OBVIOUS
  <1>1. CASE ThreadSteps
    <2>1. build = "server" /\ UNCHANGED <<epollVars, build>>
      BY <1>1 DEF ThreadSteps
    <2>2. ASSUME NEW c \in Clients, Connect(c, "http"), UNCHANGED threadVars PROVE AnswerInv'
      BY <2>1, <2>2, AnswerConnect DEF threadVars, epollVars, Ports
    <2>3. CASE Accept
      <3>1. UNCHANGED <<client, request, answer, reply>>
            /\ \A d \in Clients : thread'[d] = thread[d] \/ thread'[d] = "start"
        BY <2>3 DEF Accept, clientVars, TypeInv, TypeOK
      <3> QED BY <2>1, <3>1 DEF AnswerInv, RepliesAreOwn, SendingIsOwn, SilentIsShut, AnswersAreOwn, epollVars
    <2>4. CASE DetachFaults
      BY <2>1, <2>4, AnswerKept DEF DetachFaults, ServerEnds, clientVars, threadVars, epollVars
    <2> QED BY <1>1, <2>1, <2>2, <2>3, <2>4, AnswerThread DEF ThreadSteps
  <1>2. CASE UNCHANGED webVars
    BY <1>2, AnswerKept DEF webVars, netVars, clientVars, threadVars, epollVars
  <1> QED BY <1>1, <1>2, StepCases, AnswerClients, AnswerEpoll

(* Every client is given the answer to its own request.                    *)
THEOREM OwnAnswers == Spec => []AnswersAreOwn
  <1> DEFINE Inv == TypeInv /\ ThreadInv /\ AnswerInv
  <1>1. Inv => AnswersAreOwn
    BY DEF AnswerInv
  <1> QED BY <1>1, TypeInit, WaitingInit, AnswerInit, TypeStep, ThreadInvStep, AnswerStep, PTL DEF Spec

----------------------------------------------------------------------------
(* What the code decides is what was asked for.                            *)

LEMMA HasLowest ==
    ASSUME NEW S, S \subseteq Nat, S # {}
    PROVE  \E n \in S : \A m \in S : n <= m
  <1> DEFINE R == OpToRel(<, Nat)
  <1>1. IsWellFoundedOn(R, Nat)
    BY NatLessThanWellFounded
  <1>2. \A x \in Nat, y \in Nat : <<y, x>> \in R <=> y < x
    BY DEF OpToRel
  <1> HIDE DEF R
  <1>3. PICK x \in S : \A y \in S : ~(<<y, x>> \in R)
    BY <1>1, WFMin
  <1>4. ASSUME NEW y \in S PROVE x <= y
    <2>1. x \in Nat /\ y \in Nat
      OBVIOUS
    <2>2. ~(y < x)
      BY <1>2, <1>3, <2>1
    <2> QED BY <2>1, <2>2
  <1> QED BY <1>4

(* p does not occur in the first n elements of s, and occurs behind them   *)
(* if anything does.                                                       *)
CutsAt(s, p, n) ==
    /\ n \in 0..Len(s)
    /\ \A j \in 1..n : s[j] # p
    /\ n < Len(s) => s[n + 1] = p

LEMMA BeforeIs ==
    ASSUME NEW S, NEW s \in Seq(S), NEW p, NEW n, CutsAt(s, p, n)
    PROVE  Before(s, p) = SubSeq(s, 1, n)
  <1>1. n \in Nat /\ Len(s) \in Nat /\ n <= Len(s) /\ DOMAIN s = 1..Len(s)
    BY LenProperties DEF CutsAt
  <1>2. ASSUME NEW i \in 1..n
        PROVE  i \in 1..Len(s) /\ \A j \in 1..i : s[j] # p
    BY <1>1 DEF CutsAt
  <1>3. ASSUME NEW i \in 1..Len(s), \A j \in 1..i : s[j] # p, i > n
        PROVE  FALSE
    <2>1. n + 1 \in 1..i /\ n < Len(s)
      BY <1>1, <1>3
    <2> QED BY <1>3, <2>1 DEF CutsAt
  <1>4. {i \in 1..Len(s) : \A j \in 1..i : s[j] # p} = 1..n
    <2> DEFINE C == {i \in 1..Len(s) : \A j \in 1..i : s[j] # p}
    <2>1. 1..n \subseteq C
      BY <1>2
    <2>2. ASSUME NEW i \in C PROVE i \in 1..n
      <3>1. i \in 1..Len(s) /\ ~(i > n)
        BY <1>3
      <3> QED BY <1>1, <3>1
    <2> QED BY <2>1, <2>2
  <1>5. Cardinality(1..n) = n
    BY <1>1, FS_Interval
  <1> QED BY <1>1, <1>4, <1>5 DEF Before

LEMMA CutExists ==
    ASSUME NEW S, NEW s \in Seq(S), NEW p
    PROVE  \E n : CutsAt(s, p, n)
  <1> DEFINE Hits == {j \in 1..Len(s) : s[j] = p}
  <1>1. Len(s) \in Nat
    BY LenProperties
  <1>2. CASE Hits = {}
    <2>1. CutsAt(s, p, Len(s))
      BY <1>1, <1>2 DEF CutsAt
    <2> QED BY <2>1
  <1>3. CASE Hits # {}
    <2>1. Hits \subseteq Nat
      BY <1>1
    <2>2. PICK j \in Hits : \A k \in Hits : j <= k
      <3> HIDE DEF Hits
      <3> QED BY <1>3, <2>1, HasLowest
    <2>3. j \in 1..Len(s) /\ s[j] = p
      BY <2>2
    <2>4. ASSUME NEW k \in 1..(j - 1), s[k] = p PROVE FALSE
      <3>1. k \in Hits /\ ~(j <= k)
        BY <1>1, <2>3, <2>4
      <3> QED BY <2>2, <3>1
    <2>5. CutsAt(s, p, j - 1)
      BY <1>1, <2>3, <2>4 DEF CutsAt
    <2> QED BY <2>5
  <1> QED BY <1>2, <1>3

LEMMA Pieces ==
    ASSUME NEW p
    PROVE  /\ p \notin {" ", "?", "%20", "%3F"} => DecodePiece(p) \notin {" ", "?"}
           /\ DecodePiece("?") = "?"
  <1>1. DecodePiece("?") = "?"
    BY DEF DecodePiece, Escapes
  <1>2. CASE p \notin Escapes
    BY <1>1, <1>2 DEF DecodePiece
  <1>3. CASE p \in Escapes
    <2>1. DecodePiece(p) = Unescaped[p]
      BY <1>3 DEF DecodePiece
    <2>2. Unescaped["%2B"] = "+" /\ Unescaped["%2F"] = "/" /\ Unescaped["%E6"] = "name in UTF-8"
      BY DEF Unescaped, Escapes
    <2> QED BY <1>1, <1>3, <2>1, <2>2 DEF Escapes
  <1> QED BY <1>2, <1>3

(* A request that was decoded as a whole is cut where the original is.     *)
Decoded(t, blanks) == [i \in DOMAIN t |-> IF t[i] \in blanks THEN " " ELSE DecodePiece(t[i])]
Uncut(t, blanks) == \A i \in DOMAIN Before(t, "?") : Before(t, "?")[i] \notin CutAt(blanks)

LEMMA DecodedPath ==
    ASSUME NEW t \in Seq(STRING), NEW blanks \in SUBSET {"+"}, Uncut(t, blanks)
    PROVE  extractFilePath(Before(Decoded(t, blanks), " ")) = Named(t)
  <1> DEFINE d == Decoded(t, blanks)
  <1>1. PICK n : CutsAt(t, "?", n)
    BY CutExists
  <1>2. n \in Nat /\ n <= Len(t) /\ Len(t) \in Nat /\ DOMAIN t = 1..Len(t)
    BY <1>1, LenProperties DEF CutsAt
  <1>3. Before(t, "?") = SubSeq(t, 1, n)
    BY <1>1, BeforeIs
  <1>4. DOMAIN Before(t, "?") = 1..n /\ \A i \in 1..n : Before(t, "?")[i] = t[i]
    BY <1>2, <1>3
  <1>5a. d = [i \in 1..Len(t) |-> IF t[i] \in blanks THEN " " ELSE DecodePiece(t[i])]
    BY <1>2 DEF Decoded
  <1> HIDE DEF d
  <1> DEFINE S == {d[i] : i \in 1..Len(t)}
  <1>5. d \in Seq(S) /\ Len(d) = Len(t)
    <2>1. d \in [1..Len(t) -> S]
      BY <1>5a
    <2> HIDE DEF S
    <2> QED BY <1>2, <2>1
  <1> HIDE DEF S
  <1>6. \A i \in 1..Len(t) : d[i] = IF t[i] \in blanks THEN " " ELSE DecodePiece(t[i])
    BY <1>5a
  <1>7. \A i \in 1..n : d[i] = DecodePiece(t[i]) /\ d[i] # " " /\ d[i] # "?"
    <2> TAKE i \in 1..n
    <2>1. t[i] \notin CutAt(blanks)
      BY <1>4 DEF Uncut
    <2>2. t[i] \notin blanks /\ t[i] \notin {" ", "?", "%20", "%3F"}
      BY <2>1 DEF CutAt
    <2>3. i \in 1..Len(t)
      BY <1>2
    <2>4. d[i] = DecodePiece(t[i])
      BY <1>6, <2>2, <2>3
    <2> QED BY <2>2, <2>4, Pieces
  <1>8. ASSUME n < Len(t)
        PROVE  d[n + 1] = "?"
    <2>1. n + 1 \in 1..Len(t) /\ t[n + 1] = "?"
      BY <1>1, <1>2, <1>8 DEF CutsAt
    <2>2. t[n + 1] \notin blanks
      BY <2>1
    <2> QED BY <1>6, <2>1, <2>2, Pieces
  <1>9. PICK m : CutsAt(d, " ", m)
    BY <1>5, CutExists
  <1>10. m \in Nat /\ m <= Len(t)
    <2>1. m \in 0..Len(d)
      BY <1>9 DEF CutsAt
    <2> QED BY <1>2, <1>5, <2>1
  <1>11. ~(m < n)
    <2> SUFFICES ASSUME m < n PROVE FALSE
      OBVIOUS
    <2>1. m + 1 \in 1..n /\ m < Len(d)
      BY <1>2, <1>5, <1>10
    <2>2. d[m + 1] = " "
      BY <1>9, <2>1 DEF CutsAt
    <2> QED BY <1>7, <2>1, <2>2
  <1>12. n < Len(t) => m # n
    <2> SUFFICES ASSUME n < Len(t), m = n PROVE FALSE
      OBVIOUS
    <2>1. d[m + 1] = " "
      BY <1>5, <1>9 DEF CutsAt
    <2> QED BY <1>8, <2>1
  <1> DEFINE e == SubSeq(d, 1, m)
  <1>13. e \in Seq(S) /\ Len(e) = m /\ \A i \in 1..m : e[i] = d[i]
    BY <1>5, <1>2, <1>10
  <1>14. Before(d, " ") = e
    BY <1>5, <1>9, BeforeIs
  <1> HIDE DEF e
  <1>15. CutsAt(e, "?", n)
    <2>1. n \in 0..m
      BY <1>2, <1>10, <1>11
    <2>2. ASSUME NEW j \in 1..n
          PROVE  e[j] # "?"
      <3>1. j \in 1..m
        BY <1>2, <1>10, <2>1
      <3> QED BY <1>7, <1>13, <3>1
    <2>3. ASSUME n < m
          PROVE  e[n + 1] = "?"
      <3>1. n < Len(t) /\ n + 1 \in 1..m
        BY <1>2, <1>10, <2>3
      <3> QED BY <1>8, <1>13, <3>1
    <2> QED BY <1>13, <2>1, <2>2, <2>3 DEF CutsAt
  <1>16. extractFilePath(e) = SubSeq(e, 1, n)
    BY <1>13, <1>15, BeforeIs DEF extractFilePath
  <1>17. SubSeq(e, 1, n) = [i \in 1..n |-> e[i]]
    BY <1>2, <1>10, <1>11, <1>13
  <1>18. \A i \in 1..n : e[i] = DecodePiece(t[i])
    <2> TAKE i \in 1..n
    <2>1. i \in 1..m
      BY <1>2, <1>10, <1>11
    <2> QED BY <1>7, <1>13, <2>1
  <1>19. Named(t) = [i \in 1..n |-> DecodePiece(t[i])]
    BY <1>4 DEF Named
  <1>20. [i \in 1..n |-> e[i]] = [i \in 1..n |-> DecodePiece(t[i])]
    BY <1>18
  <1> QED BY <1>14, <1>16, <1>17, <1>19, <1>20 DEF d

LEMMA NamedIsPath ==
    ASSUME NEW t \in Seq(STRING)
    PROVE  \E S : Named(t) \in Seq(S)
  <1>1. PICK n : CutsAt(t, "?", n)
    BY CutExists
  <1>2. n \in Nat /\ DOMAIN Before(t, "?") = 1..n
    <2>1. n \in 0..Len(t) /\ Len(t) \in Nat
      BY <1>1, LenProperties DEF CutsAt
    <2>2. Before(t, "?") = SubSeq(t, 1, n)
      BY <1>1, BeforeIs
    <2> QED BY <2>1, <2>2
  <1>3. Named(t) = [i \in 1..n |-> DecodePiece(Before(t, "?")[i])]
    BY <1>2 DEF Named
  <1> DEFINE S == {DecodePiece(Before(t, "?")[i]) : i \in 1..n}
  <1>4. Named(t) \in [1..n -> S]
    BY <1>3
  <1> HIDE DEF S
  <1>5. Named(t) \in Seq(S)
    BY <1>2, <1>4
  <1> QED BY <1>5

LEMMA SlashIsLast ==
    ASSUME NEW S, NEW path \in Seq(S), EndsWithSlash(path)
    PROVE  WithoutSlash(path) \o <<"/", "index.html">> = path \o <<"index.html">>
  <1>1. Len(path) \in Nat /\ Len(path) # 0 /\ path[Len(path)] = "/"
    BY LenProperties, EmptySeq DEF EndsWithSlash
  <1>2. WithoutSlash(path) = SubSeq(path, 1, Len(path) - 1)
    BY DEF WithoutSlash
  <1> DEFINE dir == SubSeq(path, 1, Len(path) - 1)
  <1> DEFINE n == Len(path) - 1
  <1>3. n \in Nat /\ n <= Len(path) /\ Len(path) = n + 1
    BY <1>1
  <1>3a. dir \in Seq(S) /\ Len(dir) = n /\ \A i \in 1..n : dir[i] = path[i]
    <2> HIDE DEF n
    <2>1. SubSeq(path, 1, n) \in Seq(S) /\ Len(SubSeq(path, 1, n)) = n /\ \A i \in 1..n : SubSeq(path, 1, n)[i] = path[i]
      BY <1>3
    <2> QED BY <2>1 DEF n
  <1> HIDE DEF dir, n
  <1>4. dir \o <<"/", "index.html">> = path \o <<"index.html">>
    <2> DEFINE whole == dir \o <<"/", "index.html">>
               index == path \o <<"index.html">>
    <2>1. Len(whole) = n + 2 /\ \A i \in 1..(n + 2) :
            whole[i] = IF i <= n THEN path[i] ELSE IF i = n + 1 THEN "/" ELSE "index.html"
      BY <1>3, <1>3a
    <2>2. Len(index) = n + 2 /\ \A i \in 1..(n + 2) :
            index[i] = IF i <= n + 1 THEN path[i] ELSE "index.html"
      BY <1>3
    <2>3. whole = [i \in 1..(n + 2) |-> whole[i]] /\ index = [i \in 1..(n + 2) |-> index[i]]
      BY <1>3, <1>3a
    <2> HIDE DEF whole, index
    <2>4. \A i \in 1..(n + 2) : whole[i] = index[i]
      BY <1>1, <1>3, <2>1, <2>2
    <2> QED BY <2>3, <2>4 DEF whole, index
  <1> QED BY <1>2, <1>4 DEF dir

LEMMA ResponseIs ==
    ASSUME NEW s, NEW l, NEW f
    PROVE  Response(s, l, f).status = s /\ Response(s, l, f).location = l /\ Response(s, l, f).file = f
  BY DEF Response

(* On such a request the code decides as specified.                        *)
LEMMA RespondsAsSpecified ==
    ASSUME NEW q \in Requests, NEW blanks \in SUBSET {"+"}, q.method = "GET" => Ordinary(q, blanks)
    PROVE  AsSpecified(q, Respond(q.method, Decoded(q.target, blanks)))
  <1> DEFINE r == Respond(q.method, Decoded(q.target, blanks))
             path == Named(q.target)
             raw == Before(q.target, "?")
             dir == WithoutSlash(path)
             slash == EndsWithSlash(path)
  <1> SUFFICES AsSpecified(q, r)
    OBVIOUS
  <1>1. CASE q.method # "GET"
    <2>1. r.status = 501
      BY <1>1, ResponseIs DEF Respond, handle501Response
    <2> HIDE DEF r
    <2> QED BY <1>1, <2>1 DEF AsSpecified
  <1>2. CASE q.method = "GET"
    <2>1. q.target \in Seq(STRING) /\ Uncut(q.target, blanks)
      BY <1>2, TargetsAreWords DEF Ordinary, Uncut
    <2>2. extractFilePath(Before(Decoded(q.target, blanks), " ")) = path
      BY <2>1, DecodedPath
    <2>3. r = IF ~Exists(path) THEN handle404Response
              ELSE IF IsDir(path) /\ ~slash THEN handle301Response(path)
              ELSE IF IsDir(path) /\ IndexOf(path) \notin Files THEN handle403Response
              ELSE handle200Response(path)
      BY <1>2, <2>2 DEF Respond
    <2>4. IsDir(path) => IF slash THEN path = <<"/">> \/ IndexOf(path) \notin Files ELSE path = raw
      BY <1>2 DEF Ordinary
    <2>5. slash => dir \o <<"/", "index.html">> = IndexOf(path)
      <3>1. PICK S : path \in Seq(S)
        BY <2>1, NamedIsPath
      <3> QED BY <3>1, SlashIsLast DEF IndexOf
    <2>6. /\ r.status = 404 <=> ~Exists(path)
          /\ r.status = 301 <=> IsDir(path) /\ ~slash
          /\ r.status = 403 <=> IsDir(path) /\ slash /\ IndexOf(path) \notin Files
          /\ r.status # 501
      <3> HIDE DEF path, slash, r
      <3>1. handle404Response.status = 404 /\ handle301Response(path).status = 301
            /\ handle403Response.status = 403 /\ handle200Response(path).status = 200
        BY ResponseIs DEF handle404Response, handle301Response, handle403Response, handle200Response
      <3> QED BY <2>3, <3>1 DEF Exists
    <2>7. r.status = 301 => r.location = raw \o <<"/">>
      <3>1. r.status = 301 => r = handle301Response(raw)
        BY <2>3, <2>4, <2>6 DEF Exists
      <3>2. handle301Response(raw).location = raw \o <<"/">>
        <4> DEFINE location == raw \o <<"/">>
        <4>1. handle301Response(raw) = Response(301, location, NoFile)
          BY DEF handle301Response
        <4> HIDE DEF location
        <4>2. handle301Response(raw).location = location
          BY <4>1, ResponseIs
        <4> QED BY <4>2 DEF location
      <3> HIDE DEF r, raw
      <3> QED BY <3>1, <3>2
    <2>8. r.status = 200 => r.file \in {path, path \o <<"index.html">>} \cap Files
      <3> SUFFICES ASSUME r.status = 200 PROVE r.file \in {path, path \o <<"index.html">>} \cap Files
        OBVIOUS
      <3>1. r = handle200Response(path) /\ Exists(path)
            /\ (IsDir(path) => slash /\ IndexOf(path) \in Files)
        BY <2>3, <2>6
      <3>2. CASE IsDir(path)
        <4>1. path = <<"/">> /\ IndexOf(path) \in Files
          BY <2>4, <3>1, <3>2
        <4>2. r.file = IndexOf(path)
          BY <3>1, <4>1, ResponseIs DEF handle200Response
        <4> QED BY <4>1, <4>2 DEF IndexOf
      <3>3. CASE ~IsDir(path)
        <4>1. path \in Files
          BY <3>1, <3>3 DEF Exists
        <4>2. path # <<"/">>
          <5>1. IsDir(<<"/">>)
            <6>1. EndsWithSlash(<<"/">>) /\ SubSeq(<<"/">>, 1, Len(<<"/">>) - 1) = <<>>
              BY DEF EndsWithSlash
            <6> QED BY <6>1, TreeIsATree DEF IsDir, WithoutSlash
          <5> QED BY <3>3, <5>1
        <4>3. r.file = path
          BY <3>1, <3>3, <4>2, ResponseIs DEF handle200Response
        <4> QED BY <4>1, <4>3
      <3> QED BY <3>2, <3>3
    <2> HIDE DEF r
    <2>9. ~Exists(path) <=> path \notin Files /\ dir \notin Dirs
      BY DEF Exists, IsDir
    <2>10. IsDir(path) <=> dir \in Dirs
      BY DEF IsDir
    <2> HIDE DEF path, raw, dir, slash
    <2>11. /\ r.status = 501 <=> q.method # "GET"
           /\ r.status = 404 <=> path \notin Files /\ dir \notin Dirs
           /\ r.status = 301 <=> dir \in Dirs /\ ~slash
           /\ r.status = 403 <=> dir \in Dirs /\ slash /\ dir \o <<"/", "index.html">> \notin Files
      <3>1. dir \in Dirs /\ slash /\ dir \o <<"/", "index.html">> \notin Files
            <=> IsDir(path) /\ slash /\ IndexOf(path) \notin Files
        BY <2>5, <2>10
      <3> QED BY <1>2, <2>6, <2>9, <2>10, <3>1
    <2> QED BY <2>7, <2>8, <2>11 DEF AsSpecified, path, raw, dir, slash
  <1> QED BY <1>1, <1>2

LEMMA Decodings ==
    ASSUME NEW t
    PROVE  urlDecode(t) = Decoded(t, {"+"}) /\ urlDecodeOnly(t) = Decoded(t, {})
  BY DEF urlDecode, urlDecodeOnly, Decoded

(* Whoever asks in an ordinary way is answered as the assignment wants it. *)
THEOREM SpecifiedAnswers == Spec => []AnswersAsSpecified
  <1> DEFINE Inv == TypeInv /\ ThreadInv /\ AnswerInv
  <1>1. TypeOK /\ AnswersAreOwn => AnswersAsSpecified
    <2> SUFFICES ASSUME TypeOK, AnswersAreOwn, NEW c \in Clients,
                        answer[c] # NoAnswer, request[c] # NoRequest,
                        NEW blanks, blanks = IF build = "server" THEN {"+"} ELSE {},
                        request[c].method = "GET" => Ordinary(request[c], blanks)
                 PROVE  AsSpecified(request[c], answer[c])
      BY DEF AnswersAsSpecified
    <2>1. request[c] \in Requests
      BY DEF TypeOK, NetTypeOK
    <2>2. CASE build = "server"
      <3>1. answer[c] = Respond(request[c].method, urlDecode(request[c].target))
        BY <2>1, <2>2 DEF AnswersAreOwn, handleHTTPRequest
      <3> QED BY <2>1, <2>2, <3>1, Decodings, RespondsAsSpecified
    <2>3. CASE build # "server"
      <3>1. answer[c] = Respond(request[c].method, urlDecodeOnly(request[c].target))
        BY <2>1, <2>3 DEF AnswersAreOwn, ResponseTo
      <3> QED BY <2>1, <2>3, <3>1, Decodings, RespondsAsSpecified
    <2> QED BY <2>2, <2>3
  <1>2. Inv => AnswersAsSpecified
    BY <1>1 DEF TypeInv, AnswerInv
  <1> QED BY <1>2, TypeInit, WaitingInit, AnswerInit, TypeStep, ThreadInvStep, AnswerStep, PTL DEF Spec

----------------------------------------------------------------------------
(* To its clients either server is the service of WebService.              *)

(* A content is sent behind its header.                                    *)
HeaderFirst ==
    /\ \A c \in Clients : thread[c] = "content" /\ client[c] # "left" => answer[c] # NoAnswer
    /\ stage = "content" /\ client[cur] # "left" => answer[cur] # NoAnswer

(* The loop with epoll is given nobody whom it has answered, and has       *)
(* something to send when it sends.                                        *)
OnceEach ==
    /\ \A p \in Ports : \A i \in 1..Len(backlog[p]) :
         /\ answer[backlog[p][i]] = NoAnswer
         /\ stage \in Busy => backlog[p][i] # cur
    /\ \A c \in Clients : client[c] = "idle" => answer[c] = NoAnswer
    /\ stage \in Busy => client[cur] # "idle"
    /\ stage \in {"handshake", "read", "header"} => answer[cur] = NoAnswer
    /\ stage = "header" => sending # NoAnswer

ServiceInv == HeaderFirst /\ (build = "server_https" => OnceEach)

LEMMA ServiceInit == Init => ServiceInv
  <1> SUFFICES ASSUME Init PROVE ServiceInv
    OBVIOUS
  <1>1. \A p \in Ports : Len(backlog[p]) = 0
    BY EmptySeq DEF Init, ThreadInit, WebInit
  <1>2. OnceEach
    BY <1>1 DEF OnceEach, Init, ThreadInit, EpollInit, WebInit, Busy
  <1> QED BY <1>2 DEF ServiceInv, HeaderFirst, Init, ThreadInit, EpollInit

(* Steps of the clients, and of the loop between its calls on them.        *)
LEMMA OnceKept ==
    ASSUME TypeInv, OnceEach, UNCHANGED <<backlog, answer>>,
           \A c \in Clients : client'[c] = "idle" => client[c] = "idle",
           \/ UNCHANGED <<stage, cur, sending>>
           \/ stage' \notin Busy
           \/ stage \in {"handshake", "read"} /\ stage' \in {"handshake", "read", "header"}
                /\ cur' = cur /\ (stage' = "header" => sending' # NoAnswer)
    PROVE  OnceEach'
  <1>1. stage \in Busy => cur \in Clients
    BY DEF TypeInv, Connected
  <1>2. CASE UNCHANGED <<stage, cur, sending>>
    BY <1>1, <1>2 DEF OnceEach, Busy
  <1>3. CASE stage' \notin Busy
    BY <1>3 DEF OnceEach, Busy
  <1>4. CASE stage \in {"handshake", "read"} /\ stage' \in {"handshake", "read", "header"}
                /\ cur' = cur /\ (stage' = "header" => sending' # NoAnswer)
    BY <1>1, <1>4 DEF OnceEach, Busy
  <1> QED BY <1>2, <1>3, <1>4

(* The loop goes from the header to the content, and to the end.           *)
LEMMA OnceSent ==
    ASSUME TypeInv, OnceEach, UNCHANGED <<backlog, client, cur>>,
           stage \in {"header", "content"}, stage' \in {"content", "close"},
           \A c \in Clients \ {cur} : answer'[c] = answer[c]
    PROVE  OnceEach'
  <1>1. \A p \in Ports : \A i \in 1..Len(backlog[p]) : backlog[p][i] \in Clients \ {cur}
    BY ElementOfSeq DEF TypeInv, TypeOK, NetTypeOK, OnceEach, Busy
  <1>2. \A c \in Clients : client[c] = "idle" => c # cur
    BY DEF OnceEach, Busy
  <1> QED BY <1>1, <1>2 DEF OnceEach, Busy

LEMMA OnceArrive ==
    ASSUME TypeInv, ThreadInv, OnceEach, NEW c \in Clients, NEW p \in Ports, Arrive(c, p)
    PROVE  OnceEach'
  <1>1. /\ client[c] = "idle" /\ client' = [client EXCEPT ![c] = "here"]
        /\ backlog' = [backlog EXCEPT ![p] = Append(@, c)]
        /\ UNCHANGED <<answer, stage, cur, sending>>
    BY DEF Arrive, Connect
  <1>2. backlog \in [Ports -> Seq(Clients)]
        /\ client \in [Clients -> {"idle", "here", "shut", "left"}]
        /\ (stage \in Busy => cur \in Clients)
    BY DEF TypeInv, TypeOK, NetTypeOK, Connected
  <1>3. /\ Len(backlog'[p]) = Len(backlog[p]) + 1 /\ Len(backlog[p]) \in Nat
        /\ \A i \in 1..Len(backlog[p]) : backlog'[p][i] = backlog[p][i]
        /\ backlog'[p][Len(backlog[p]) + 1] = c
        /\ \A o \in Ports \ {p} : backlog'[o] = backlog[o]
    BY <1>1, <1>2, AppendProperties, LenProperties
  <1>4. answer[c] = NoAnswer /\ (stage \in Busy => cur # c)
    BY <1>1 DEF OnceEach
  <1>5. ASSUME NEW o \in Ports, NEW i \in 1..Len(backlog'[o])
        PROVE  answer[backlog'[o][i]] = NoAnswer /\ (stage \in Busy => backlog'[o][i] # cur)
    <2>1. \/ backlog'[o][i] = c
          \/ i \in 1..Len(backlog[o]) /\ backlog'[o][i] = backlog[o][i]
      <3>1. CASE o = p
        <4>1. i \in 1..Len(backlog[p]) \/ i = Len(backlog[p]) + 1
          BY <1>3, <3>1
        <4> QED BY <1>3, <3>1, <4>1
      <3>2. CASE o # p
        BY <1>3, <3>2
      <3> QED BY <3>1, <3>2
    <2> QED BY <1>4, <2>1 DEF OnceEach
  <1>6. \A d \in Clients : client'[d] = "idle" => client[d] = "idle"
    BY <1>1, <1>2
  <1>7. stage \in Busy => client'[cur] # "idle"
    BY <1>2, <1>6 DEF OnceEach
  <1> QED BY <1>1, <1>5, <1>6, <1>7 DEF OnceEach

LEMMA OnceAccept ==
    ASSUME TypeInv, ThreadInv, OnceEach, NEW p \in Ports, AcceptOne(p)
    PROVE  OnceEach'
  <1>1. /\ backlog[p] # <<>> /\ Take(p) /\ cur' = Head(backlog[p])
        /\ stage' \in {"handshake", "read"} /\ UNCHANGED <<client, answer>>
    BY DEF AcceptOne, clientVars
  <1>2. /\ cur' \in Clients /\ 1 \in 1..Len(backlog[p]) /\ cur' = backlog[p][1]
        /\ Len(backlog[p]) \in Nat
        /\ \A o \in Ports \ {p} : backlog'[o] = backlog[o]
        /\ \A i \in 1..Len(backlog'[p]) :
             i + 1 \in 1..Len(backlog[p]) /\ i \in Nat /\ backlog'[p][i] = backlog[p][i + 1]
    BY <1>1, HeadAndTail
  <1>3. ASSUME NEW o \in Ports, NEW i \in 1..Len(backlog'[o])
        PROVE  answer[backlog'[o][i]] = NoAnswer /\ backlog'[o][i] # cur'
    <2>1. CASE o = p
      <3>1. i + 1 \in 1..Len(backlog[p]) /\ i + 1 # 1 /\ backlog'[p][i] = backlog[p][i + 1]
        BY <1>2, <2>1
      <3> QED BY <1>2, <2>1, <3>1 DEF OnceEach, ThreadInv, Waiting
    <2>2. CASE o # p
      BY <1>2, <2>2 DEF OnceEach, ThreadInv, Waiting
    <2> QED BY <2>1, <2>2
  <1>4. client[cur'] # "idle" /\ answer[cur'] = NoAnswer
    BY <1>2 DEF OnceEach, ThreadInv, Waiting
  <1>5. \A d \in Clients : client[d] = "idle" => answer[d] = NoAnswer
    BY DEF OnceEach
  <1> QED BY <1>1, <1>3, <1>4, <1>5 DEF OnceEach, Busy

LEMMA OnceStep ==
    ASSUME TypeInv, ThreadInv, OnceEach, EpollSteps
    PROVE  OnceEach'
  <1>1. client \in [Clients -> {"idle", "here", "shut", "left"}]
        /\ answer \in [Clients -> Responses \cup {NoAnswer}]
    BY DEF TypeInv, TypeOK, NetTypeOK
  <1>2. CASE EpollWait \/ EventsDone \/ HandshakeFails \/ CloseOne
    <2>1. UNCHANGED <<backlog, answer, client>> /\ stage' \notin Busy
      BY <1>2 DEF EpollWait, EventsDone, HandshakeFails, CloseOne, netVars, Busy
    <2> QED BY <2>1, OnceKept
  <1>3. CASE Handshake
    <2>1. UNCHANGED <<backlog, answer, client, cur>> /\ stage = "handshake" /\ stage' = "read"
      BY <1>3 DEF Handshake, netVars
    <2> QED BY <2>1, OnceKept
  <1>4. CASE Read \/ ReadNothing
    <2>1. UNCHANGED <<backlog, answer, client, cur>> /\ stage = "read" /\ stage' = "header"
      BY <1>4 DEF Read, ReadNothing, netVars
    <2>2. sending' # NoAnswer
      <3>1. CASE Read
        <4>1. request[cur] \in Requests
          BY <3>1 DEF Read, TypeInv, TypeOK, NetTypeOK, Connected, Busy
        <4> QED BY <3>1, <4>1, NoAnswerIsNone DEF Read
      <3>2. CASE ReadNothing
        BY <3>2, NoAnswerIsNone DEF ReadNothing
      <3> QED BY <1>4, <3>1, <3>2
    <2> QED BY <2>1, <2>2, OnceKept
  <1>5. CASE SendHeaderOne \/ SendContentOne
    <2>1. /\ UNCHANGED <<backlog, client, cur>>
          /\ stage \in {"header", "content"} /\ stage' \in {"content", "close"}
      BY <1>5 DEF SendHeaderOne, SendContentOne, clientVars
    <2>2. \A c \in Clients \ {cur} : answer'[c] = answer[c]
      BY <1>1, <1>5 DEF SendHeaderOne, SendContentOne, HeaderArrives, ContentArrives
    <2> QED BY <2>1, <2>2, OnceSent
  <1>6. CASE SendOneFails
    BY <1>6, OnceKept DEF SendOneFails, ServeEnds, clientVars, epollVars
  <1> QED BY <1>2, <1>3, <1>4, <1>5, <1>6, OnceArrive, OnceAccept DEF EpollSteps, Serve

(* Steps that send nothing.                                                *)
LEMMA HeaderKept ==
    ASSUME TypeInv, HeaderFirst, UNCHANGED answer,
           \A c \in Clients : client'[c] # "left" => client[c] # "left",
           \A c \in Clients : thread'[c] = "content" => thread[c] = "content",
           stage' = "content" => stage = "content" /\ cur' = cur
    PROVE  HeaderFirst'
  <1>1. stage \in Busy => cur \in Clients
    BY DEF TypeInv, Connected
  <1> QED BY <1>1 DEF HeaderFirst, Busy

LEMMA HeaderThread ==
    ASSUME TypeInv, ThreadInv, Apart, HeaderFirst, build = "server",
           NEW c \in Clients, handle_client(c), UNCHANGED epollVars
    PROVE  HeaderFirst'
  <1>1. /\ thread \in [Clients -> {"none", "start", "recv", "open", "header", "content", "close", "done"}]
        /\ answer \in [Clients -> Responses \cup {NoAnswer}]
        /\ stage' # "content"
    BY DEF TypeInv, TypeOK, NetTypeOK, Apart, epollVars
  <1>2. ASSUME UNCHANGED <<client, answer>>, NEW l, l # "content", thread' = [thread EXCEPT ![c] = l]
        PROVE  HeaderFirst'
    <2>1. \A d \in Clients : thread'[d] = "content" => thread[d] = "content"
      BY <1>1, <1>2
    <2> QED BY <1>1, <1>2, <2>1, HeaderKept
  <1>3. CASE SendHeader(c)
    <2>1. /\ thread[c] = "header" /\ UNCHANGED client /\ sock[c] = c /\ reply[c] # NoAnswer
          /\ answer' = IF client[c] = "left" THEN answer ELSE [answer EXCEPT ![c] = reply[c]]
          /\ \A d \in Clients \ {c} : thread'[d] = thread[d]
      BY <1>1, <1>3 DEF SendHeader, HeaderArrives, clientVars, ThreadInv, ServesOwn, Live, TypeInv, Connected
    <2>2. /\ \A d \in Clients \ {c} : answer'[d] = answer[d]
          /\ client[c] # "left" => answer'[c] # NoAnswer
      BY <1>1, <2>1
    <2> QED BY <1>1, <2>1, <2>2 DEF HeaderFirst
  <1>4. CASE ReadEntry(c) \/ Close(c)
    BY <1>2, <1>4 DEF ReadEntry, Close, netVars
  <1>5. CASE Recv(c) \/ RecvNothing(c) \/ OpenFile(c)
    BY <1>2, <1>5 DEF Recv, RecvNothing, OpenFile, netVars
  <1>6. CASE SendContent(c)
    BY <1>2, <1>6 DEF SendContent, ContentArrives, clientVars
  <1>7. CASE ReadFaults(c) \/ OpenFaults(c) \/ SendFails(c)
    BY <1>1, <1>7, HeaderKept DEF ReadFaults, OpenFaults, SendFails, ServerEnds, clientVars, threadVars
  <1> QED BY <1>3, <1>4, <1>5, <1>6, <1>7 DEF handle_client

LEMMA HeaderEpoll ==
    ASSUME TypeInv, ServiceInv, Apart, EpollSteps
    PROVE  HeaderFirst'
  <1>1. /\ \A c \in Clients : thread'[c] = "none"
        /\ answer \in [Clients -> Responses \cup {NoAnswer}]
        /\ client \in [Clients -> {"idle", "here", "shut", "left"}]
        /\ HeaderFirst /\ OnceEach
    BY DEF EpollSteps, Apart, threadVars, TypeInv, TypeOK, NetTypeOK, ServiceInv
  <1>2. CASE SendHeaderOne
    <2>1. /\ stage = "header" /\ cur \in Clients /\ sending # NoAnswer /\ UNCHANGED <<cur, client>>
          /\ answer' = IF client[cur] = "left" THEN answer ELSE [answer EXCEPT ![cur] = sending]
      BY <1>1, <1>2 DEF SendHeaderOne, HeaderArrives, clientVars, TypeInv, Connected, Busy, OnceEach
    <2>2. client[cur] # "left" => answer'[cur] # NoAnswer
      BY <1>1, <2>1
    <2> QED BY <1>1, <2>1, <2>2 DEF HeaderFirst
  <1>3. ASSUME NEW c \in Clients, NEW p \in Ports, Arrive(c, p) PROVE HeaderFirst'
    <2>1. UNCHANGED <<answer, stage, cur>> /\ \A d \in Clients : client'[d] # "left" => client[d] # "left"
      BY <1>1, <1>3 DEF Arrive, Connect
    <2> QED BY <1>1, <2>1, HeaderKept
  <1>4. ASSUME UNCHANGED <<answer, client>>, stage' # "content" PROVE HeaderFirst'
    BY <1>1, <1>4, HeaderKept
  <1>5. CASE EpollWait \/ EventsDone \/ Handshake \/ HandshakeFails \/ Read \/ ReadNothing \/ CloseOne
    BY <1>4, <1>5 DEF EpollWait, EventsDone, Handshake, HandshakeFails, Read, ReadNothing, CloseOne, netVars
  <1>6. ASSUME NEW p \in Ports, AcceptOne(p) PROVE HeaderFirst'
    BY <1>4, <1>6 DEF AcceptOne, clientVars
  <1>7. CASE SendContentOne
    BY <1>4, <1>7 DEF SendContentOne, ContentArrives, clientVars
  <1>8. CASE SendOneFails
    BY <1>1, <1>8, HeaderKept DEF SendOneFails, ServeEnds, clientVars, epollVars
  <1> QED BY <1>2, <1>3, <1>5, <1>6, <1>7, <1>8 DEF EpollSteps, Serve

LEMMA ServiceStep ==
    TypeInv /\ Apart /\ ThreadInv /\ ServiceInv /\ [Next]_webVars => ServiceInv'
  <1> SUFFICES ASSUME TypeInv, Apart, ThreadInv, ServiceInv, [Next]_webVars PROVE ServiceInv'
    OBVIOUS
  <1>1. /\ thread \in [Clients -> {"none", "start", "recv", "open", "header", "content", "close", "done"}]
        /\ client \in [Clients -> {"idle", "here", "shut", "left"}]
        /\ HeaderFirst
    BY DEF TypeInv, TypeOK, NetTypeOK, ServiceInv
  <1>2. CASE ClientSteps
    <2>1. PICK c \in Clients : Say(c) /\ UNCHANGED <<threadVars, epollVars, build>>
      BY <1>2 DEF ClientSteps
    <2>2. /\ UNCHANGED <<backlog, answer, thread, stage, cur, sending, build>>
          /\ \A d \in Clients : /\ client'[d] # "left" => client[d] # "left"
                                /\ client'[d] = "idle" => client[d] = "idle"
      BY <1>1, <2>1 DEF Say, Ask, Finish, Leave, threadVars, epollVars
    <2>3. HeaderFirst'
      BY <1>1, <2>2, HeaderKept
    <2>4. OnceEach => OnceEach'
      BY <2>2, OnceKept
    <2> QED BY <2>2, <2>3, <2>4 DEF ServiceInv
  <1>3. CASE ThreadSteps
    <2>1. build = "server" /\ build' = "server" /\ UNCHANGED epollVars
      BY <1>3 DEF ThreadSteps
    <2>2. UNCHANGED <<stage, cur>>
      BY <2>1 DEF epollVars
    <2>3. ASSUME NEW c \in Clients, Connect(c, "http"), UNCHANGED threadVars PROVE HeaderFirst'
      <3>1. UNCHANGED <<answer, thread>> /\ \A d \in Clients : client'[d] # "left" => client[d] # "left"
        BY <1>1, <2>3 DEF Connect, threadVars
      <3>2. \A d \in Clients : thread'[d] = "content" => thread[d] = "content"
        BY <3>1
      <3> QED BY <1>1, <2>2, <3>1, <3>2, HeaderKept
    <2>4. ASSUME Accept PROVE HeaderFirst'
      <3>1. UNCHANGED <<client, answer>>
            /\ \A d \in Clients : thread'[d] = "content" => thread[d] = "content"
        BY <1>1, <2>4 DEF Accept, clientVars
      <3> QED BY <1>1, <2>2, <3>1, HeaderKept
    <2>5. ASSUME DetachFaults PROVE HeaderFirst'
      <3>1. UNCHANGED <<client, answer, thread>>
        BY <2>5 DEF DetachFaults, ServerEnds, clientVars, threadVars
      <3>2. /\ \A d \in Clients : client'[d] # "left" => client[d] # "left"
            /\ \A d \in Clients : thread'[d] = "content" => thread[d] = "content"
        BY <3>1
      <3> QED BY <1>1, <2>2, <3>1, <3>2, HeaderKept
    <2>6. HeaderFirst'
      <3>1. ASSUME NEW c \in Clients, handle_client(c) PROVE HeaderFirst'
        BY <1>1, <2>1, <3>1, HeaderThread
      <3> QED BY <1>3, <2>3, <2>4, <2>5, <3>1 DEF ThreadSteps
    <2> QED BY <2>1, <2>6 DEF ServiceInv
  <1>4. CASE EpollSteps
    <2>1. build = "server_https"
      BY <1>4 DEF EpollSteps
    <2>2. HeaderFirst'
      BY <1>4, HeaderEpoll
    <2>3. OnceEach'
      BY <1>4, <2>1, OnceStep DEF ServiceInv
    <2> QED BY <2>2, <2>3 DEF ServiceInv
  <1>5. CASE UNCHANGED webVars
    <2>1. UNCHANGED <<backlog, client, answer, thread, stage, cur, sending, build>>
      BY <1>5 DEF webVars, netVars, threadVars, epollVars
    <2>2. HeaderFirst'
      BY <1>1, <2>1, HeaderKept
    <2>3. OnceEach => OnceEach'
      BY <2>1, OnceKept
    <2> QED BY <2>1, <2>2, <2>3 DEF ServiceInv
  <1> QED BY <1>2, <1>3, <1>4, <1>5, StepCases

----------------------------------------------------------------------------
(* The steps of the service.                                               *)

ServiceStutters == UNCHANGED <<client, request, answer, complete, build>>

LEMMA AboveStutters ==
    ASSUME ServiceStutters
    PROVE  UNCHANGED Service!vars
  BY DEF ServiceStutters, Service!vars

(* A header is sent that answers what was asked.                           *)
LEMMA AboveHeader ==
    ASSUME TypeInv, NEW c \in Clients, client[c] # "idle", NEW r, HeaderArrives(c, r),
           UNCHANGED <<client, request, build>>,
           client[c] # "left" => \E q \in Requests :
               /\ r = IF build = "server" THEN handleHTTPRequest[q] ELSE ResponseTo[q]
               /\ q = request[c] \/ (build # "server" /\ request[c] = NoRequest /\ client[c] = "shut"),
           client[c] # "left" => r # NoAnswer /\ answer[c] \in {NoAnswer, r}
    PROVE  [Service!Next]_(Service!vars)
  <1>1. client \in [Clients -> {"idle", "here", "shut", "left"}]
        /\ answer \in [Clients -> Responses \cup {NoAnswer}]
    BY DEF TypeInv, TypeOK, NetTypeOK
  <1>2. CASE client[c] = "left"
    BY <1>2, AboveStutters DEF HeaderArrives, ServiceStutters
  <1>3. CASE client[c] # "left"
    <2>1. client[c] \in {"here", "shut"}
      BY <1>1, <1>3
    <2>2. answer' = [answer EXCEPT ![c] = r] /\ complete' \in {complete, complete \cup {c}}
      BY <1>3 DEF HeaderArrives
    <2>3. CASE answer[c] = NoAnswer
      <3>1. Service!Answer(c)
        BY <1>3, <2>1, <2>2, <2>3 DEF Service!Answer, Service!Listens
      <3> QED BY <3>1 DEF Service!Next
    <2>4. CASE answer[c] = r /\ answer[c] # NoAnswer
      <3>1. answer' = answer
        BY <1>1, <2>2, <2>4
      <3>2. CASE complete' = complete
        BY <3>1, <3>2, AboveStutters DEF ServiceStutters
      <3>3. CASE complete' = complete \cup {c}
        <4>1. Service!Complete(c)
          BY <2>1, <2>4, <3>1, <3>3 DEF Service!Complete, Service!Listens
        <4> QED BY <4>1 DEF Service!Next
      <3> QED BY <2>2, <3>2, <3>3
    <2> QED BY <1>3, <2>3, <2>4
  <1> QED BY <1>2, <1>3

LEMMA AboveContent ==
    ASSUME TypeInv, NEW c \in Clients, client[c] # "idle", ContentArrives(c),
           UNCHANGED <<client, request, build>>,
           client[c] # "left" => answer[c] # NoAnswer
    PROVE  [Service!Next]_(Service!vars)
  <1>1. CASE client[c] = "left"
    BY <1>1, AboveStutters DEF ContentArrives, ServiceStutters
  <1>2. CASE client[c] # "left"
    <2>1. Service!Complete(c)
      BY <1>2 DEF ContentArrives, Service!Complete, Service!Listens, TypeInv, TypeOK, NetTypeOK
    <2> QED BY <2>1 DEF Service!Next
  <1> QED BY <1>1, <1>2

LEMMA AboveConnect ==
    ASSUME NEW c \in Clients, NEW p \in Ports, Connect(c, p), UNCHANGED build
    PROVE  [Service!Next]_(Service!vars)
  <1>1. Service!Come(c)
    BY DEF Connect, Service!Come
  <1> QED BY <1>1 DEF Service!Next

LEMMA AboveClients ==
    ASSUME ClientSteps
    PROVE  [Service!Next]_(Service!vars)
  <1>1. PICK c \in Clients : Say(c) /\ UNCHANGED <<threadVars, epollVars, build>>
    BY DEF ClientSteps
  <1>2. Service!Ask(c) \/ Service!Shut(c) \/ Service!Leave(c)
    BY <1>1 DEF Say, Ask, Finish, Leave, Service!Ask, Service!Shut, Service!Leave, Service!Listens
  <1> QED BY <1>2 DEF Service!Next

LEMMA AboveThreads ==
    ASSUME TypeInv, ThreadInv, AnswerInv, ServiceInv, ThreadSteps
    PROVE  [Service!Next]_(Service!vars)
  <1>1. build = "server" /\ UNCHANGED build
    BY DEF ThreadSteps
  <1>2. ASSUME UNCHANGED <<clientVars, answer, complete>> PROVE [Service!Next]_(Service!vars)
    BY <1>1, <1>2, AboveStutters DEF ServiceStutters, clientVars
  <1>3. ASSUME NEW c \in Clients, handle_client(c) PROVE [Service!Next]_(Service!vars)
    <2>1. thread[c] \in Live => sock[c] = c /\ client[c] # "idle"
      BY DEF ThreadInv, ServesOwn, Waiting
    <2>2. CASE SendHeader(c)
      <3>1. /\ thread[c] = "header" /\ HeaderArrives(c, reply[c]) /\ client[c] # "idle"
            /\ UNCHANGED <<client, request>>
        BY <2>1, <2>2 DEF SendHeader, Live, clientVars
      <3>2. reply[c] # NoAnswer /\ request[c] \in Requests /\ reply[c] = handleHTTPRequest[request[c]]
        BY <3>1 DEF TypeInv, TypeOK, NetTypeOK, Connected, AnswerInv, RepliesAreOwn
      <3>3. answer[c] \in {NoAnswer, reply[c]}
        BY <1>1, <3>2 DEF AnswerInv, AnswersAreOwn
      <3> QED BY <1>1, <3>1, <3>2, <3>3, AboveHeader
    <2>3. CASE SendContent(c)
      BY <1>1, <2>1, <2>3, AboveContent DEF SendContent, Live, clientVars, ServiceInv, HeaderFirst
    <2>4. CASE ReadEntry(c) \/ Close(c)
      BY <1>2, <2>4 DEF ReadEntry, Close, netVars, clientVars
    <2>5. CASE Recv(c) \/ RecvNothing(c) \/ OpenFile(c)
      BY <1>2, <2>5 DEF Recv, RecvNothing, OpenFile, netVars, clientVars
    <2>6. CASE ReadFaults(c) \/ OpenFaults(c) \/ SendFails(c)
      BY <1>2, <2>6 DEF ReadFaults, OpenFaults, SendFails, ServerEnds
    <2> QED BY <1>3, <2>2, <2>3, <2>4, <2>5, <2>6 DEF handle_client
  <1>4. CASE Accept \/ DetachFaults
    BY <1>2, <1>4 DEF Accept, DetachFaults, ServerEnds
  <1> QED BY <1>1, <1>3, <1>4, AboveConnect DEF ThreadSteps, Ports

LEMMA AboveEpoll ==
    ASSUME TypeInv, AnswerInv, ServiceInv, EpollSteps
    PROVE  [Service!Next]_(Service!vars)
  <1>1. build = "server_https" /\ UNCHANGED build /\ OnceEach
    BY DEF EpollSteps, ServiceInv
  <1>2. ASSUME UNCHANGED <<clientVars, answer, complete>> PROVE [Service!Next]_(Service!vars)
    BY <1>1, <1>2, AboveStutters DEF ServiceStutters, clientVars
  <1>3. CASE SendHeaderOne
    <2>1. /\ stage = "header" /\ cur \in Clients /\ HeaderArrives(cur, sending)
          /\ client[cur] # "idle" /\ answer[cur] = NoAnswer /\ sending # NoAnswer
          /\ UNCHANGED <<client, request>>
      BY <1>1, <1>3 DEF SendHeaderOne, TypeInv, Connected, OnceEach, Busy, clientVars
    <2>2. PICK q \in Requests : sending = ResponseTo[q]
      BY <2>1 DEF TypeInv, TypeOK
    <2>3. request[cur] \in Requests \cup {NoRequest}
      BY <2>1 DEF TypeInv, TypeOK, NetTypeOK
    <2>4. \/ client[cur] = "left"
          \/ request[cur] = NoRequest /\ client[cur] = "shut"
          \/ request[cur] # NoRequest /\ sending = ResponseTo[request[cur]]
      BY <2>1 DEF AnswerInv, SendingIsOwn
    <2>5. client[cur] # "left" => \E s \in Requests :
            /\ sending = IF build = "server" THEN handleHTTPRequest[s] ELSE ResponseTo[s]
            /\ s = request[cur] \/ (build # "server" /\ request[cur] = NoRequest /\ client[cur] = "shut")
      BY <1>1, <2>2, <2>3, <2>4
    <2> QED BY <1>1, <2>1, <2>5, AboveHeader
  <1>4. CASE SendContentOne
    <2>1. /\ cur \in Clients /\ client[cur] # "idle" /\ ContentArrives(cur) /\ UNCHANGED <<client, request>>
          /\ client[cur] # "left" => answer[cur] # NoAnswer
      BY <1>1, <1>4 DEF SendContentOne, TypeInv, Connected, OnceEach, Busy, clientVars, ServiceInv, HeaderFirst
    <2> QED BY <1>1, <2>1, AboveContent
  <1>5. ASSUME NEW c \in Clients, NEW p \in Ports, Arrive(c, p) PROVE [Service!Next]_(Service!vars)
    BY <1>1, <1>5, AboveConnect DEF Arrive
  <1>6. ASSUME NEW p \in Ports, AcceptOne(p) PROVE [Service!Next]_(Service!vars)
    BY <1>2, <1>6 DEF AcceptOne
  <1>7. CASE EpollWait \/ EventsDone \/ Handshake \/ HandshakeFails \/ Read \/ ReadNothing \/ CloseOne
    BY <1>2, <1>7 DEF EpollWait, EventsDone, Handshake, HandshakeFails, Read, ReadNothing, CloseOne,
                      netVars, clientVars
  <1>8. CASE SendOneFails
    BY <1>2, <1>8 DEF SendOneFails, ServeEnds
  <1> QED BY <1>3, <1>4, <1>5, <1>6, <1>7, <1>8 DEF EpollSteps, Serve

(* What is ordinary when blanks may be written "+" is ordinary otherwise.  *)
LEMMA OrdinaryForBoth ==
    ASSUME NEW q \in Requests, Ordinary(q, {"+"})
    PROVE  Ordinary(q, {})
  BY DEF Ordinary, CutAt

LEMMA ServiceBegins == Init => Service!Init
  <1> SUFFICES ASSUME Init PROVE Service!Init
    OBVIOUS
  <1>1. ASSUME NEW q \in Requests
        PROVE  handleHTTPRequest[q] \in RightResponses[q] /\ ResponseTo[q] \in RightResponses[q]
    <2>1. handleHTTPRequest[q] \in Responses /\ ResponseTo[q] \in Responses
      BY DEF Responses
    <2>2. (q.method = "GET" => Ordinary(q, {"+"})) =>
            AsSpecified(q, handleHTTPRequest[q]) /\ AsSpecified(q, ResponseTo[q])
      <3> SUFFICES ASSUME q.method = "GET" => Ordinary(q, {"+"})
                   PROVE  AsSpecified(q, handleHTTPRequest[q]) /\ AsSpecified(q, ResponseTo[q])
        OBVIOUS
      <3>1. AsSpecified(q, Respond(q.method, Decoded(q.target, {"+"})))
        BY RespondsAsSpecified
      <3>2. AsSpecified(q, Respond(q.method, Decoded(q.target, {})))
        BY OrdinaryForBoth, RespondsAsSpecified
      <3> QED BY <3>1, <3>2, Decodings DEF handleHTTPRequest, ResponseTo
    <2> QED BY <2>1, <2>2 DEF RightResponses
  <1>2. DOMAIN handleHTTPRequest = Requests /\ DOMAIN ResponseTo = Requests
    BY DEF handleHTTPRequest, ResponseTo
  <1>3. /\ client = [c \in Clients |-> "idle"]
        /\ request = [c \in Clients |-> NoRequest]
        /\ answer = [c \in Clients |-> NoAnswer]
        /\ complete = {}
    BY DEF Init, ThreadInit, WebInit
  <1> QED BY <1>1, <1>2, <1>3 DEF Service!Init

(* To its clients either server is the service of WebService: every step   *)
(* is one of its steps or none.                                            *)
THEOREM ServerIsWebService == Spec => ImplementsWebService
  <1> DEFINE Inv == TypeInv /\ Apart /\ ThreadInv /\ AnswerInv /\ ServiceInv
  <1>1. Init => Inv
    BY TypeInit, ApartInit, WaitingInit, AnswerInit, ServiceInit
  <1>2. Inv /\ [Next]_webVars => Inv'
    BY TypeStep, ApartStep, ThreadInvStep, AnswerStep, ServiceStep
  <1>3. Inv /\ [Next]_webVars => [Service!Next]_(Service!vars)
    <2> SUFFICES ASSUME Inv, [Next]_webVars PROVE [Service!Next]_(Service!vars)
      OBVIOUS
    <2>1. CASE UNCHANGED webVars
      BY <2>1, AboveStutters DEF webVars, netVars, ServiceStutters
    <2> QED BY <2>1, StepCases, AboveClients, AboveThreads, AboveEpoll
  <1> QED BY <1>1, <1>2, <1>3, ServiceBegins, PTL DEF Spec, ImplementsWebService, Service!Spec
=============================================================================
