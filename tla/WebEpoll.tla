----------------------------- MODULE WebEpoll -----------------------------
(***************************************************************************)
(* The static web server with TLS (homework1/demo: server_https.c,         *)
(* utils_https.c): one thread, and both listening sockets registered with  *)
(* epoll, edge-triggered.  For each event it accepts one connection and    *)
(* serves it to the end with blocking calls.                               *)
(***************************************************************************)
EXTENDS WebClients

VARIABLES
    edge,    \* ports with an arrival epoll has not reported yet
    events,  \* reported ports this round has still to look at
    stage,   \* where the loop is
    cur,     \* the connection being served, or NoClient
    port,    \* its port
    sending, \* the response being sent, or NoAnswer
    buffer   \* per port, what request_buffer holds from earlier, or NoRequest

epollVars == <<edge, events, stage, cur, port, sending, buffer>>

Stages == {"wait", "events", "handshake", "read", "header", "content", "close"}

EpollInit ==
    /\ WebInit
    /\ edge = {}
    /\ events = {}
    /\ stage = "wait"
    /\ cur = NoClient
    /\ port = "http"
    /\ sending = NoAnswer
    /\ buffer = [p \in Ports |-> NoRequest]

ServeEnds == up' = FALSE /\ UNCHANGED <<backlog, clientVars, answer, complete, epollVars>>

----------------------------------------------------------------------------
(* An arrival makes its port ready, however many arrivals there are.       *)
Arrive(c, p) ==
    /\ Connect(c, p)
    /\ edge' = edge \cup {p}
    /\ UNCHANGED <<events, stage, cur, port, sending, buffer>>

\* Mutant of EpollWait: an event that was reported is reported again.
EpollWaitStale ==
    /\ up
    /\ stage = "wait"
    /\ edge # {}
    /\ events' = edge
    /\ stage' = "events"
    /\ UNCHANGED <<netVars, edge, cur, port, sending, buffer>>

\* Mutant of EpollWait: one event is taken, the others are dropped.
EpollWaitOne ==
    /\ up
    /\ stage = "wait"
    /\ edge # {}
    /\ \E p \in edge : events' = {p}
    /\ edge' = {}
    /\ stage' = "events"
    /\ UNCHANGED <<netVars, cur, port, sending, buffer>>

(* Reported once: what is ready and was not waited for stays unreported    *)
(* until the next arrival.                                                 *)
EpollWait ==
    /\ up
    /\ stage = "wait"
    /\ edge # {}
    /\ events' = {p \in edge : backlog[p] # <<>>}
    /\ edge' = {}
    /\ stage' = "events"
    /\ UNCHANGED <<netVars, cur, port, sending, buffer>>

AcceptOne(p) ==
    /\ up
    /\ stage = "events"
    /\ p \in events
    /\ backlog[p] # <<>>
    /\ cur' = Head(backlog[p])
    /\ port' = p
    /\ Take(p)
    /\ events' = events \ {p}
    /\ stage' = IF p = "https" THEN "handshake" ELSE "read"
    /\ UNCHANGED <<up, clientVars, answer, complete, edge, sending, buffer>>

EventsDone ==
    /\ up
    /\ stage = "events"
    /\ events = {}
    /\ stage' = "wait"
    /\ UNCHANGED <<netVars, edge, events, cur, port, sending, buffer>>

----------------------------------------------------------------------------
Handshake ==
    /\ up
    /\ stage = "handshake"
    /\ client[cur] = "here"
    /\ stage' = "read"
    /\ UNCHANGED <<netVars, edge, events, cur, port, sending, buffer>>

(* The client is gone, perhaps because it refuses the certificate.         *)
HandshakeFails ==
    /\ up
    /\ stage = "handshake"
    /\ client[cur] # "here"
    /\ cur' = NoClient
    /\ stage' = "events"
    /\ UNCHANGED <<netVars, edge, events, port, sending, buffer>>

(* urlDecode of this server leaves "+" alone.                              *)
urlDecodeOnly(target) == [i \in DOMAIN target |-> DecodePiece(target[i])]

(* handleHTTPRequest and the get...Response functions.                     *)
ResponseTo == [q \in Requests |-> Respond(q.method, urlDecodeOnly(q.target))]

ASSUME NoAnswerIsNone == \A q \in Requests : ResponseTo[q] # NoAnswer

Read ==
    /\ up
    /\ stage = "read"
    /\ request[cur] # NoRequest
    /\ buffer' = [buffer EXCEPT ![port] = request[cur]]
    /\ sending' = ResponseTo[request[cur]]
    /\ stage' = "header"
    /\ UNCHANGED <<netVars, edge, events, cur, port>>

(* When nothing was read, what the buffer holds is answered all the same:  *)
(* an earlier request, of the same port or, where the two branches share   *)
(* their buffer, of the other; or what the stack held, which may read as   *)
(* any request.                                                            *)
ReadNothing ==
    /\ up
    /\ stage = "read"
    /\ NothingToRead(cur)
    /\ \E p \in Ports, q \in Requests :
         /\ buffer[p] \in {q, NoRequest}
         /\ sending' = ResponseTo[q]
    /\ stage' = "header"
    /\ UNCHANGED <<netVars, edge, events, cur, port, buffer>>

SendHeaderOne ==
    /\ up
    /\ stage = "header"
    /\ HeaderArrives(cur, sending)
    /\ stage' = IF sending.status = 301 THEN "close" ELSE "content"
    /\ UNCHANGED <<up, backlog, clientVars, edge, events, cur, port, sending, buffer>>

SendContentOne ==
    /\ up
    /\ stage = "content"
    /\ ContentArrives(cur)
    /\ stage' = "close"
    /\ UNCHANGED <<up, backlog, clientVars, edge, events, cur, port, sending, buffer>>

(* SIGPIPE ends this process too: at a write, or at that of SSL_shutdown   *)
(* when the one before it was refused.                                     *)
SendOneFails ==
    /\ up
    /\ stage \in {"header", "content"} \/ (stage = "close" /\ port = "https")
    /\ client[cur] = "left"
    /\ cur \notin complete
    /\ ServeEnds

(* With TLS, SSL_shutdown is called again until the client has closed too. *)
CloseOne ==
    /\ up
    /\ stage = "close"
    /\ port = "https" => client[cur] # "here"
    /\ cur' = NoClient
    /\ sending' = NoAnswer
    /\ stage' = "events"
    /\ UNCHANGED <<netVars, edge, events, port, buffer>>

----------------------------------------------------------------------------
Serve ==
    \/ EpollWait \/ (\E p \in Ports : AcceptOne(p)) \/ EventsDone
    \/ Handshake \/ HandshakeFails \/ Read \/ ReadNothing
    \/ SendHeaderOne \/ SendContentOne \/ SendOneFails \/ CloseOne

EpollNext ==
    \/ \E c \in Clients, p \in Ports : Arrive(c, p)
    \/ \E c \in Clients : Say(c) /\ UNCHANGED epollVars
    \/ Serve
============================================================================
