---------------------------- MODULE WebService ----------------------------
(***************************************************************************)
(* What a static web server promises its clients, in their terms: there is *)
(* one right response to each request, and who asks is sent that response, *)
(* once, header first, while still there.  No threads, tables, buffers or  *)
(* events: WebServer is shown to implement this.                           *)
(***************************************************************************)
CONSTANTS
    Clients, Requests,
    Right,              \* request -> the responses that may be given to it
    NoRequest, NoAnswer

VARIABLES
    response,  \* request -> the response this server gives to it
    silent,    \* whether who asks nothing is surely sent nothing
    client,    \* "idle", "here", "shut" (has closed its sending side), "left"
    request, answer,
    complete   \* the clients that have the whole response

vars == <<response, silent, client, request, answer, complete>>

Init ==
    /\ DOMAIN response = Requests
    /\ \A q \in Requests : response[q] \in Right[q]
    /\ silent \in BOOLEAN
    /\ client = [c \in Clients |-> "idle"]
    /\ request = [c \in Clients |-> NoRequest]
    /\ answer = [c \in Clients |-> NoAnswer]
    /\ complete = {}

Come(c) ==
    /\ client[c] = "idle"
    /\ client' = [client EXCEPT ![c] = "here"]
    /\ UNCHANGED <<response, silent, request, answer, complete>>

Ask(c) ==
    /\ client[c] = "here"
    /\ request[c] = NoRequest
    /\ \E q \in Requests : request' = [request EXCEPT ![c] = q]
    /\ UNCHANGED <<response, silent, client, answer, complete>>

Shut(c) ==
    /\ client[c] = "here"
    /\ request[c] = NoRequest
    /\ client' = [client EXCEPT ![c] = "shut"]
    /\ UNCHANGED <<response, silent, request, answer, complete>>

Listens(c) == client[c] \in {"here", "shut"}

Leave(c) ==
    /\ Listens(c)
    /\ client' = [client EXCEPT ![c] = "left"]
    /\ UNCHANGED <<response, silent, request, answer, complete>>

Answer(c) ==
    /\ Listens(c)
    /\ answer[c] = NoAnswer
    /\ \E q \in Requests :
         /\ q = request[c] \/ (~silent /\ request[c] = NoRequest /\ client[c] = "shut")
         /\ answer' = [answer EXCEPT ![c] = response[q]]
    /\ complete' \in {complete, complete \cup {c}}
    /\ UNCHANGED <<response, silent, client, request>>

Complete(c) ==
    /\ Listens(c)
    /\ answer[c] # NoAnswer
    /\ complete' = complete \cup {c}
    /\ UNCHANGED <<response, silent, client, request, answer>>

Next == \E c \in Clients : Come(c) \/ Ask(c) \/ Shut(c) \/ Leave(c) \/ Answer(c) \/ Complete(c)

Spec == Init /\ [][Next]_vars
============================================================================
