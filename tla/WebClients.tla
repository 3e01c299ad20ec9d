---------------------------- MODULE WebClients ----------------------------
(***************************************************************************)
(* Clients of the static web server and the kernel between them and it:    *)
(* connections that wait for accept, requests, clients that leave, and     *)
(* what of an answer reached its client.  A client here is one connection. *)
(* A request arrives in one piece and fits the server's buffer.            *)
(***************************************************************************)
EXTENDS HttpResponse

CONSTANTS
    Clients,
    NoClient, NoRequest, NoAnswer

ASSUME NoValues ==
    /\ NoClient \notin Clients
    /\ NoRequest \notin Requests
    /\ \A q \in Requests : NoAnswer \notin {handleHTTPRequest[q], q}

Ports == {"http", "https"}  \* the listening sockets

VARIABLES
    up,        \* the server process runs
    backlog,   \* per port, the connections the kernel holds for accept
    client,    \* "idle", "here", "shut" (has closed its sending side), "left"
    request,   \* what the client sent
    answer,    \* the response whose header reached the client
    complete   \* the clients that have the whole response

clientVars == <<client, request>>
netVars == <<up, backlog, client, request, answer, complete>>

WebInit ==
    /\ up = TRUE
    /\ backlog = [p \in Ports |-> <<>>]
    /\ client = [c \in Clients |-> "idle"]
    /\ request = [c \in Clients |-> NoRequest]
    /\ answer = [c \in Clients |-> NoAnswer]
    /\ complete = {}

----------------------------------------------------------------------------
Connect(c, p) ==
    /\ up
    /\ client[c] = "idle"
    /\ client' = [client EXCEPT ![c] = "here"]
    /\ backlog' = [backlog EXCEPT ![p] = Append(@, c)]
    /\ UNCHANGED <<up, request, answer, complete>>

Ask(c) ==
    /\ up
    /\ client[c] = "here"
    /\ request[c] = NoRequest
    /\ \E q \in Requests : request' = [request EXCEPT ![c] = q]
    /\ UNCHANGED <<up, backlog, client, answer, complete>>

Finish(c) ==
    /\ up
    /\ client[c] = "here"
    /\ request[c] = NoRequest
    /\ client' = [client EXCEPT ![c] = "shut"]
    /\ UNCHANGED <<up, backlog, request, answer, complete>>

Leave(c) ==
    /\ up
    /\ client[c] \in {"here", "shut"}
    /\ client' = [client EXCEPT ![c] = "left"]
    /\ UNCHANGED <<up, backlog, request, answer, complete>>

Say(c) == Ask(c) \/ Finish(c) \/ Leave(c)

----------------------------------------------------------------------------
(* The server's system calls on a connection.                              *)

Take(p) == backlog' = [backlog EXCEPT ![p] = Tail(@)]

(* End of file before any request, or a reset, which discards it.          *)
NothingToRead(c) == client[c] = "left" \/ (client[c] = "shut" /\ request[c] = NoRequest)

(* A header, and the content behind it, arrive unless the client is gone.  *)
HeaderArrives(c, r) ==
    /\ answer' = IF client[c] = "left" THEN answer ELSE [answer EXCEPT ![c] = r]
    /\ complete' = IF client[c] # "left" /\ r.status = 301 THEN complete \cup {c} ELSE complete

ContentArrives(c) ==
    /\ complete' = IF client[c] = "left" THEN complete ELSE complete \cup {c}
    /\ UNCHANGED answer

----------------------------------------------------------------------------
NetTypeOK(Answers) ==
    /\ up \in BOOLEAN
    /\ backlog \in [Ports -> Seq(Clients)]
    /\ client \in [Clients -> {"idle", "here", "shut", "left"}]
    /\ request \in [Clients -> Requests \cup {NoRequest}]
    /\ answer \in [Clients -> Answers \cup {NoAnswer}]
    /\ complete \subseteq Clients
============================================================================
