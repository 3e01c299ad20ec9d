------------------------------ MODULE TunVpn ------------------------------
(***************************************************************************)
(* The VPN of lab8: tunvpn_server gives every client that asks an address  *)
(* and forwards packets between the clients and its own tun device;        *)
(* tunvpn_client asks once, then carries packets between its tun device    *)
(* and the server.                                                         *)
(*                                                                         *)
(* Addresses are offsets from ADDRBASE.  A packet is its destination.  A   *)
(* client is the UDP address it sends from: a process started again from   *)
(* the same address is the same client.                                    *)
(***************************************************************************)
EXTENDS Naturals, FiniteSets

CONSTANTS
    Clients,
    Server,      \* the server, as an end of the link
    NumAddrs,    \* bound: addresses the server gives out
    MYADDR,      \* the server's own address (244 above ADDRBASE)
    Dests,       \* bound: addresses that packets are sent to
    NoAddr,      \* virtual_ip = 0
    Header,      \* the start of an IP header, read as an address
    NoClient,
    MaxStarts,   \* bound: runs of each client
    MaxRestarts, \* bound: restarts of the server
    MaxLosses,   \* bound: datagrams lost
    MaxRepeats,  \* bound: datagrams repeated
    MaxNet       \* bound: datagrams on the way when a packet is sent

Addrs == 0..(NumAddrs - 1)

ASSUME BoundsAreNat ==
    /\ NumAddrs \in Nat \ {0} /\ MYADDR \in Nat
    /\ MaxStarts \in [Clients -> Nat]
    /\ Dests \subseteq 0..(NumAddrs - 1) \cup {MYADDR}
    /\ {MaxRestarts, MaxLosses, MaxRepeats, MaxNet} \subseteq Nat

ASSUME NoneAreNew ==
    /\ NoAddr \notin Nat /\ Header \notin Nat /\ NoAddr # Header
    /\ NoClient \notin Clients /\ Server \notin Clients

VARIABLES
    server,       \* "up" or "down"
    client_num, client_addr,
    lost,         \* history: the tables of servers that were stopped
    state,        \* of a client: "off", "asking", "up" or "failed" (errquit)
    virtual_ip,
    daddr,        \* destination in the client's buffer, which nothing clears
    got,          \* destinations of the packets written to each tun device
    net,          \* datagrams on the way
    starts,       \* runs of each client
    restarts, losses, repeats

serverVars == <<server, client_num, client_addr, lost>>
clientVars == <<state, virtual_ip, daddr, starts>>
vars == <<serverVars, clientVars, got, net, restarts, losses, repeats>>

Request(c) == [kind |-> "request", from |-> c, to |-> Server, addr |-> NoAddr]
Reply(c, a) == [kind |-> "reply", from |-> Server, to |-> c, addr |-> a]
ToServer(c, a) == [kind |-> "packet", from |-> c, to |-> Server, addr |-> a]
ToClient(c, a) == [kind |-> "packet", from |-> Server, to |-> c, addr |-> a]

Datagram ==
    {Request(c) : c \in Clients}
        \cup {Reply(c, a) : c \in Clients, a \in Addrs}
        \cup {ToServer(c, a) : c \in Clients, a \in Dests}
        \cup {ToClient(c, a) : c \in Clients, a \in Dests}

Tables == [Addrs -> Clients \cup {NoClient}]

TypeOK ==
    /\ server \in {"up", "down"}
    /\ client_num \in 0..NumAddrs
    /\ client_addr \in Tables
    /\ lost \subseteq Tables
    /\ state \in [Clients -> {"off", "asking", "up", "failed"}]
    /\ virtual_ip \in [Clients -> Addrs \cup {NoAddr, Header}]
    /\ daddr \in [Clients -> Dests \cup {NoAddr}]
    /\ got \in [Clients \cup {Server} -> SUBSET Dests]
    /\ net \subseteq Datagram
    /\ \A c \in Clients : starts[c] \in 0..MaxStarts[c]
    /\ restarts \in 0..MaxRestarts /\ losses \in 0..MaxLosses /\ repeats \in 0..MaxRepeats

Init ==
    /\ server = "up"
    /\ client_num = 0
    /\ client_addr = [a \in Addrs |-> NoClient]
    /\ lost = {}
    /\ state = [c \in Clients |-> "off"]
    /\ virtual_ip = [c \in Clients |-> NoAddr]
    /\ daddr = [c \in Clients |-> NoAddr]
    /\ got = [n \in Clients \cup {Server} |-> {}]
    /\ net = {}
    /\ starts = [c \in Clients |-> 0]
    /\ restarts = 0 /\ losses = 0 /\ repeats = 0

(* m arrives; the link may deliver it once more.                           *)
Arrive(m, sent) ==
    \/ net' = (net \ {m}) \cup sent /\ UNCHANGED repeats
    \/ repeats < MaxRepeats /\ net' = net \cup sent /\ repeats' = repeats + 1

----------------------------------------------------------------------------
(* Server.                                                                 *)

Known(a) == a \in Addrs /\ client_addr[a] # NoClient

\* Mutant of ServeRequest: the count of clients stays.
SameAddressAgain(m) ==
    /\ server = "up"
    /\ m.to = Server /\ m.kind = "request"
    /\ client_num < NumAddrs
    /\ client_addr' = [client_addr EXCEPT ![client_num] = m.from]
    /\ Arrive(m, {Reply(m.from, client_num)})
    /\ UNCHANGED <<server, client_num, lost, clientVars, got, restarts, losses>>

\* Mutant of ServeRequest: counts the clients in the table, not the requests.
CountsClients(m) ==
    /\ server = "up"
    /\ m.to = Server /\ m.kind = "request"
    /\ client_num < NumAddrs
    /\ client_addr' = [client_addr EXCEPT ![client_num] = m.from]
    /\ client_num' = Cardinality({client_addr'[a] : a \in Addrs} \ {NoClient})
    /\ Arrive(m, {Reply(m.from, client_num)})
    /\ UNCHANGED <<server, lost, clientVars, got, restarts, losses>>

\* Mutant of ServeRequest: every client in the table hears of a new one.
RepliesToAll(m) ==
    /\ server = "up"
    /\ m.to = Server /\ m.kind = "request"
    /\ client_num < NumAddrs
    /\ client_addr' = [client_addr EXCEPT ![client_num] = m.from]
    /\ client_num' = client_num + 1
    /\ Arrive(m, {Reply(c, client_num) : c \in {client_addr'[a] : a \in 0..client_num}})
    /\ UNCHANGED <<server, lost, clientVars, got, restarts, losses>>

\* Mutant of ServeRequest: a client in the table is not answered again.
AnsweredOnce(m) ==
    /\ server = "up"
    /\ m.to = Server /\ m.kind = "request"
    /\ client_num < NumAddrs
    /\ IF \E a \in Addrs : client_addr[a] = m.from
         THEN Arrive(m, {}) /\ UNCHANGED <<client_num, client_addr>>
         ELSE /\ client_addr' = [client_addr EXCEPT ![client_num] = m.from]
              /\ client_num' = client_num + 1
              /\ Arrive(m, {Reply(m.from, client_num)})
    /\ UNCHANGED <<server, lost, clientVars, got, restarts, losses>>

(* Every request gets the next address, a repeated one too.                *)
ServeRequest(m) ==
    /\ server = "up"
    /\ m.to = Server /\ m.kind = "request"
    /\ client_num < NumAddrs
    /\ client_addr' = [client_addr EXCEPT ![client_num] = m.from]
    /\ client_num' = client_num + 1
    /\ Arrive(m, {Reply(m.from, client_num)})
    /\ UNCHANGED <<server, lost, clientVars, got, restarts, losses>>

(* For the server itself: written to its tun device.                       *)
ServeOwn(m) ==
    /\ server = "up"
    /\ m.to = Server /\ m.kind = "packet"
    /\ m.addr = MYADDR
    /\ got' = [got EXCEPT ![Server] = @ \cup {m.addr}]
    /\ Arrive(m, {})
    /\ UNCHANGED <<serverVars, clientVars, restarts, losses>>

(* From one client to another.                                             *)
Forward(m) ==
    /\ server = "up"
    /\ m.to = Server /\ m.kind = "packet"
    /\ m.addr # MYADDR
    /\ Known(m.addr)
    /\ Arrive(m, {ToClient(client_addr[m.addr], m.addr)})
    /\ UNCHANGED <<serverVars, clientVars, got, restarts, losses>>

DropUnknown(m) ==
    /\ server = "up"
    /\ m.to = Server /\ m.kind = "packet"
    /\ m.addr # MYADDR
    /\ ~Known(m.addr)
    /\ Arrive(m, {})
    /\ UNCHANGED <<serverVars, clientVars, got, restarts, losses>>

(* A packet of the server's own host, read from its tun device: its kernel *)
(* hands out none for MYADDR.  One for an unknown address is dropped.      *)
ServerSend(a) ==
    /\ server = "up"
    /\ Cardinality(net) < MaxNet
    /\ a # MYADDR
    /\ Known(a)
    /\ net' = net \cup {ToClient(client_addr[a], a)}
    /\ UNCHANGED <<serverVars, clientVars, got, restarts, losses, repeats>>

(* The process ends; the table goes with it.                               *)
Stop ==
    /\ server = "up"
    /\ restarts < MaxRestarts
    /\ server' = "down"
    /\ restarts' = restarts + 1
    /\ lost' = lost \cup {client_addr}
    /\ UNCHANGED <<client_num, client_addr, clientVars, got, net, losses, repeats>>

Boot ==
    /\ server = "down"
    /\ server' = "up"
    /\ client_num' = 0
    /\ client_addr' = [a \in Addrs |-> NoClient]
    /\ UNCHANGED <<lost, clientVars, got, net, restarts, losses, repeats>>

----------------------------------------------------------------------------
(* Client.                                                                 *)

Running(c) == state[c] \in {"asking", "up"}

Ask(c) ==
    /\ ~Running(c)
    /\ starts[c] < MaxStarts[c]
    /\ state' = [state EXCEPT ![c] = "asking"]
    /\ starts' = [starts EXCEPT ![c] = @ + 1]
    /\ virtual_ip' = [virtual_ip EXCEPT ![c] = NoAddr]
    /\ daddr' = [daddr EXCEPT ![c] = NoAddr]
    /\ got' = [got EXCEPT ![c] = {}]
    /\ net' = net \cup {Request(c)}
    /\ UNCHANGED <<serverVars, restarts, losses, repeats>>

(* The first four bytes from the server are taken for the address, of      *)
(* whatever kind the datagram is.                                          *)
Configure(m) ==
    /\ m.to \in Clients
    /\ state[m.to] = "asking"
    /\ state' = [state EXCEPT ![m.to] = "up"]
    /\ virtual_ip' = [virtual_ip EXCEPT ![m.to] = IF m.kind = "reply" THEN m.addr ELSE Header]
    /\ Arrive(m, {})
    /\ UNCHANGED <<serverVars, daddr, starts, got, restarts, losses>>

(* A packet is written to the tun device if it is for this client.         *)
TakePacket(m) ==
    /\ m.to \in Clients /\ m.kind = "packet"
    /\ state[m.to] = "up"
    /\ daddr' = [daddr EXCEPT ![m.to] = m.addr]
    /\ got' = [got EXCEPT ![m.to] = IF m.addr = virtual_ip[m.to] THEN @ \cup {m.addr} ELSE @]
    /\ Arrive(m, {})
    /\ UNCHANGED <<serverVars, state, virtual_ip, starts, restarts, losses>>

\* Mutant of TakeReply: the four bytes are put where the destination is.
ReplyIsDestination(m) ==
    /\ m.to \in Clients /\ m.kind = "reply"
    /\ state[m.to] = "up"
    /\ daddr' = [daddr EXCEPT ![m.to] = m.addr]
    /\ Arrive(m, {})
    /\ UNCHANGED <<serverVars, state, virtual_ip, starts, got, restarts, losses>>

(* A reply overwrites four bytes of the buffer, and the destination that   *)
(* is compared is that of the packet before.  When it is this client's,    *)
(* the four bytes are written, the device refuses them and the client ends.*)
TakeReply(m) ==
    /\ m.to \in Clients /\ m.kind = "reply"
    /\ state[m.to] = "up"
    /\ state' = [state EXCEPT ![m.to] = IF daddr[m.to] = virtual_ip[m.to] THEN "failed" ELSE @]
    /\ Arrive(m, {})
    /\ UNCHANGED <<serverVars, virtual_ip, daddr, starts, got, restarts, losses>>

(* A packet of the client's host, read from its tun device: its kernel     *)
(* hands out none for the client's own address.                            *)
ClientSend(c, a) ==
    /\ state[c] = "up"
    /\ Cardinality(net) < MaxNet
    /\ a # virtual_ip[c]
    /\ daddr' = [daddr EXCEPT ![c] = a]
    /\ net' = net \cup {ToServer(c, a)}
    /\ UNCHANGED <<serverVars, state, virtual_ip, starts, got, restarts, losses, repeats>>

Quit(c) ==
    /\ Running(c)
    /\ state' = [state EXCEPT ![c] = "off"]
    /\ UNCHANGED <<serverVars, virtual_ip, daddr, starts, got, net, restarts, losses, repeats>>

----------------------------------------------------------------------------
(* The link.                                                               *)

(* No server: the client's connected socket reports it and the client ends.*)
Refuse(m) ==
    /\ server = "down"
    /\ m.to = Server
    /\ state' = [state EXCEPT ![m.from] = IF Running(m.from) THEN "failed" ELSE @]
    /\ Arrive(m, {})
    /\ UNCHANGED <<serverVars, virtual_ip, daddr, starts, got, restarts, losses>>

(* No client: the server's socket, which is not connected, reports nothing.*)
Vanish(m) ==
    /\ m.to \in Clients
    /\ ~Running(m.to)
    /\ Arrive(m, {})
    /\ UNCHANGED <<serverVars, clientVars, got, restarts, losses>>

Lose(m) ==
    /\ losses < MaxLosses
    /\ net' = net \ {m}
    /\ losses' = losses + 1
    /\ UNCHANGED <<serverVars, clientVars, got, restarts, repeats>>

----------------------------------------------------------------------------
Receive(m) ==
    \/ ServeRequest(m) \/ ServeOwn(m) \/ Forward(m) \/ DropUnknown(m)
    \/ Configure(m) \/ TakePacket(m) \/ TakeReply(m)
    \/ Refuse(m) \/ Vanish(m)

Next ==
    \/ Stop \/ Boot
    \/ \E c \in Clients : Ask(c) \/ Quit(c)
    \/ \E a \in Dests : ServerSend(a) \/ \E c \in Clients : ClientSend(c, a)
    \/ \E m \in net : Receive(m) \/ Lose(m)

Spec == Init /\ [][Next]_vars

(* The link delivers what it does not lose and the processes read it.  No  *)
(* one has to start a process, end it or send.                             *)
FairSpec == Spec /\ \A m \in Datagram : WF_vars(m \in net /\ Receive(m))

----------------------------------------------------------------------------
(* Properties.                                                             *)

(* A server has given address a to c: the one that runs, which forwards to *)
(* c what is sent to a, or one that was stopped.                           *)
Gave(a, c) == client_addr[a] = c \/ \E t \in lost : t[a] = c

(* An address a client holds, or is being told, is one a server gave to    *)
(* it, however requests were repeated and clients or servers restarted:    *)
(* until the server is stopped, it forwards to each what the address says, *)
(* and two clients meet at an address only when the server was stopped.    *)
HeldIsRouted ==
    /\ \A c \in Clients : virtual_ip[c] \in Addrs => Gave(virtual_ip[c], c)
    /\ \A m \in net : m.kind = "reply" => Gave(m.addr, m.to)

(* A packet reaches only one its address belongs to: the server, or a      *)
(* client that a server gave the address to.                               *)
OnlyAddresseeGets ==
    /\ got[Server] \subseteq {MYADDR}
    /\ \A c \in Clients : \A a \in got[c] : a # MYADDR /\ Gave(a, c)

(* A client that was started once fails only when the server goes away or  *)
(* the link repeats something: replies never meet its packet loop.         *)
FailsForAReason ==
    restarts = 0 /\ repeats = 0 =>
        \A c \in Clients : state[c] = "failed" => starts[c] > 1

(* A client that asks is answered or ends, if nothing is lost.             *)
AskingIsAnswered ==
    \A c \in Clients : state[c] = "asking" ~> (state[c] # "asking" \/ losses > 0)

(* Each of the connected clients uses a non-conflicting address.           *)
NonConflicting ==
    \A c \in Clients : state[c] = "up" =>
        /\ virtual_ip[c] # MYADDR
        /\ \A d \in Clients \ {c} : state[d] = "up" => virtual_ip[d] # virtual_ip[c]
============================================================================
