---------------------------- MODULE WebServer ----------------------------
(***************************************************************************)
(* The static web server that the container runs: demo/Makefile builds two *)
(* of them, and one is started.                                            *)
(***************************************************************************)
EXTENDS WebThreads, WebEpoll

VARIABLE build  \* "server" or "server_https"

webVars == <<netVars, threadVars, epollVars, build>>

Init ==
    /\ build \in {"server", "server_https"}
    /\ ThreadInit
    /\ EpollInit

Next ==
    \/ build = "server" /\ ThreadNext /\ UNCHANGED <<epollVars, build>>
    \/ build = "server_https" /\ EpollNext /\ UNCHANGED <<threadVars, build>>

Spec == Init /\ [][Next]_webVars

(* Threads run and the loops go round.  Clients owe nothing.               *)
FairSpec ==
    /\ Spec
    /\ WF_webVars(build = "server" /\ Accept /\ UNCHANGED <<epollVars, build>>)
    /\ \A c \in Clients :
         WF_webVars(build = "server" /\ handle_client(c) /\ UNCHANGED <<epollVars, build>>)
    /\ WF_webVars(build = "server_https" /\ Serve /\ UNCHANGED <<threadVars, build>>)

----------------------------------------------------------------------------
(* Properties.                                                             *)

Responses == {handleHTTPRequest[q] : q \in Requests} \cup {ResponseTo[q] : q \in Requests}

TypeOK ==
    /\ build \in {"server", "server_https"}
    /\ NetTypeOK(Responses)
    /\ client_capacity \in Nat \ {0}
    /\ client_infos \in [Table -> Clients \cup {NoClient}]
    /\ num_clients \in 0..client_capacity
    /\ entry \in [Clients -> Nat]
    /\ stale \subseteq Clients
    /\ thread \in [Clients -> {"none", "start", "recv", "open", "header", "content", "close", "done"}]
    /\ sock \in [Clients -> Clients \cup {NoClient}]
    /\ reply \in [Clients -> {handleHTTPRequest[q] : q \in Requests} \cup {NoAnswer}]
    /\ open \subseteq Clients
    /\ edge \subseteq Ports
    /\ events \subseteq Ports
    /\ stage \in Stages
    /\ cur \in Clients \cup {NoClient}
    /\ port \in Ports
    /\ sending \in {ResponseTo[q] : q \in Requests} \cup {NoAnswer}
    /\ buffer \in [Ports -> Requests \cup {NoRequest}]

(* The answer is the one the assignment specifies, although the code       *)
(* decodes all of the request first and cuts it afterwards.                *)
AnswersAsSpecified ==
    \A c \in Clients : answer[c] # NoAnswer /\ request[c] # NoRequest =>
        LET q == request[c]
            blanks == IF build = "server" THEN {"+"} ELSE {}
        IN (q.method = "GET" => Ordinary(q, blanks)) => AsSpecified(q, answer[c])

(* The responses that the assignment allows, of those the servers know.    *)
RightResponses ==
    [q \in Requests |->
        {r \in Responses : (q.method = "GET" => Ordinary(q, {"+"})) => AsSpecified(q, r)}]

(* To its clients either server is the service of WebService, although     *)
(* threads find their connection in a table that moves, the other server's *)
(* one buffer still holds earlier requests, and connections are lost: an   *)
(* answer is the right one to what was asked, is given once, and only to a *)
(* client that is there.                                                   *)
Service == INSTANCE WebService WITH
    Right <- RightResponses,
    response <- IF build = "server" THEN handleHTTPRequest ELSE ResponseTo,
    silent <- (build = "server")

ImplementsWebService == Service!Spec

(* No two threads serve one connection, and none serves a closed one.      *)
Serving == {c \in Clients : thread[c] \notin {"none", "start", "done"}}
ServedByOne ==
    /\ \A c \in Serving : sock[c] \in open
    /\ \A c, d \in Serving : sock[c] = sock[d] => c = d

(* An open connection that no thread serves or will serve was lost because *)
(* its entry moved under its thread, or because no thread was to be had.   *)
Lost(c) == c \in open /\ (thread[c] = "none" \/ (c \in stale /\ thread[c] = "done"))

LostForAReason ==
    \A c \in open : thread[c] = "start" \/ (\E d \in Serving : sock[d] = c) \/ Lost(c)

(* accept is called only for a port where somebody waits: it never blocks, *)
(* though only one arrival is taken per event and events are reported once.*)
AcceptDoesNotBlock == \A p \in events : backlog[p] # <<>>

(* Whoever asks is answered, unless connections were lost.                 *)
AskedIsAnswered ==
    \A c \in Clients :
        (build = "server" /\ client[c] = "here" /\ request[c] # NoRequest)
          ~> (c \in complete \/ client[c] = "left" \/ ~up \/ \E d \in Clients : Lost(d))

(* The client being served keeps the loop waiting: it has a connection and *)
(* says nothing, or it has its answer and does not close.                  *)
KeptWaiting ==
    /\ cur # NoClient
    /\ client[cur] = "here"
    /\ \/ stage = "read" /\ request[cur] = NoRequest
       \/ stage = "close" /\ port = "https"

(* When a connection arrives on a port, the one that has waited there      *)
(* longest is accepted, whatever arrives on the other, unless one client   *)
(* keeps the only thread waiting for good.                                 *)
ArrivalIsNoticed ==
    \A c \in Clients, p \in Ports :
        (p \in edge /\ backlog[p] # <<>> /\ Head(backlog[p]) = c)
          ~> (backlog[p] = <<>> \/ Head(backlog[p]) # c \/ ~up \/ []KeptWaiting)
============================================================================
