--------------------------- MODULE TunVpnProofs ---------------------------
(***************************************************************************)
(* Proofs about TunVpn, for any clients, addresses and faults.             *)
(***************************************************************************)
EXTENDS TunVpn, TLAPS

TypeInv == TypeOK /\ starts = [c \in Clients |-> starts[c]]

(* What a server gave stays given, and all that is on the way or was       *)
(* written to a device agrees with it.                                     *)
Unassigned == \A a \in Addrs : a >= client_num => client_addr[a] = NoClient
PacketsAreRouted ==
    \A m \in net : m.to \in Clients => m.addr \in Addrs /\ Gave(m.addr, m.to)
NotForServer ==
    \A m \in net : m.to \in Clients /\ m.kind = "packet" => m.addr # MYADDR

RoutedInv ==
    /\ Unassigned
    /\ server = "down" => client_addr \in lost
    /\ restarts = 0 => server = "up" /\ lost = {}
    /\ NotForServer
    /\ PacketsAreRouted
    /\ \A c \in Clients : virtual_ip[c] \in Addrs => Gave(virtual_ip[c], c)
    /\ got[Server] \subseteq {MYADDR}
    /\ \A c \in Clients : \A a \in got[c] : a \in Addrs /\ a # MYADDR /\ Gave(a, c)

----------------------------------------------------------------------------
(* Types.                                                                  *)

(* The shapes of a datagram.                                               *)
LEMMA Shapes ==
    ASSUME NEW m \in Datagram
    PROVE \/ m.kind = "request" /\ m.from \in Clients /\ m.to = Server /\ m.addr = NoAddr
             /\ m = Request(m.from)
          \/ m.kind = "reply" /\ m.from = Server /\ m.to \in Clients /\ m.addr \in Addrs
             /\ m = Reply(m.to, m.addr)
          \/ m.kind = "packet" /\ m.from \in Clients /\ m.to = Server /\ m.addr \in Dests
          \/ m.kind = "packet" /\ m.from = Server /\ m.to \in Clients /\ m.addr \in Dests
  BY DEF Datagram, Request, Reply, ToServer, ToClient

LEMMA Made ==
    /\ \A c \in Clients : Request(c) \in Datagram
    /\ \A c \in Clients, a \in Addrs : Reply(c, a) \in Datagram
    /\ \A c \in Clients, a \in Dests : ToServer(c, a) \in Datagram /\ ToClient(c, a) \in Datagram
  BY DEF Datagram

LEMMA DestsAreNat == Dests \subseteq Nat
<1> SUFFICES ASSUME NEW a \in Dests PROVE a \in Nat
  OBVIOUS
<1>1. a \in 0..(NumAddrs - 1) \/ a = MYADDR
  BY BoundsAreNat
<1> QED
  BY <1>1, BoundsAreNat

(* What an arrival does to the link.                                       *)
LEMMA ArriveTyped ==
    ASSUME TypeOK, NEW m \in net, NEW sent, sent \subseteq Datagram, Arrive(m, sent)
    PROVE /\ net' \subseteq Datagram
          /\ repeats' \in 0..MaxRepeats
          /\ \A d \in net' : d \in net \/ d \in sent
          /\ repeats' = 0 => repeats = 0 /\ net' = (net \ {m}) \cup sent
<1> USE DEF TypeOK
<1>1. MaxRepeats \in Nat /\ repeats \in Nat
  BY BoundsAreNat
<1> QED
  BY <1>1 DEF Arrive

LEMMA InitType == Init => TypeInv
<1> SUFFICES ASSUME Init PROVE TypeInv
  OBVIOUS
<1>1. client_num \in 0..NumAddrs /\ restarts \in 0..MaxRestarts /\ losses \in 0..MaxLosses
      /\ repeats \in 0..MaxRepeats
  BY BoundsAreNat DEF Init
<1>2. \A c \in Clients : starts[c] \in 0..MaxStarts[c]
  BY BoundsAreNat DEF Init
<1> QED
  BY <1>1, <1>2 DEF Init, TypeInv, TypeOK, Tables

LEMMA ServerTypeStep ==
    ASSUME TypeInv, NEW m \in net,
           ServeRequest(m) \/ ServeOwn(m) \/ Forward(m) \/ DropUnknown(m)
    PROVE TypeInv'
<1>m. m \in Datagram
  BY DEF TypeInv, TypeOK
<1>t. TypeOK
  BY DEF TypeInv
<1>1. CASE ServeRequest(m)
  <2>1. client_num \in Addrs /\ client_num + 1 \in 0..NumAddrs
    BY <1>1, BoundsAreNat DEF ServeRequest, TypeInv, TypeOK, Addrs
  <2>2. m.from \in Clients
    BY <1>1, <1>m, Shapes DEF ServeRequest
  <2>3. {Reply(m.from, client_num)} \subseteq Datagram
    BY <2>1, <2>2, Made
  <2>4. net' \subseteq Datagram /\ repeats' \in 0..MaxRepeats
    BY <1>1, <1>t, <2>3, ArriveTyped DEF ServeRequest
  <2> QED
    BY <1>1, <2>1, <2>2, <2>4 DEF ServeRequest, TypeInv, TypeOK, Tables, clientVars
<1>2. CASE ServeOwn(m)
  <2>1. m.addr \in Dests
    BY <1>2, <1>m, Shapes DEF ServeOwn
  <2>2. net' \subseteq Datagram /\ repeats' \in 0..MaxRepeats
    BY <1>2, <1>t, ArriveTyped DEF ServeOwn
  <2> QED
    BY <1>2, <2>1, <2>2 DEF ServeOwn, TypeInv, TypeOK, clientVars, serverVars
<1>3. CASE Forward(m)
  <2>1. m.addr \in Dests /\ client_addr[m.addr] \in Clients
    BY <1>3, <1>m, Shapes DEF Forward, Known, TypeInv, TypeOK, Tables
  <2>2. {ToClient(client_addr[m.addr], m.addr)} \subseteq Datagram
    BY <2>1, Made
  <2>3. net' \subseteq Datagram /\ repeats' \in 0..MaxRepeats
    BY <1>3, <1>t, <2>2, ArriveTyped DEF Forward
  <2> QED
    BY <1>3, <2>3 DEF Forward, TypeInv, TypeOK, clientVars, serverVars
<1>4. CASE DropUnknown(m)
  <2>1. net' \subseteq Datagram /\ repeats' \in 0..MaxRepeats
    BY <1>4, <1>t, ArriveTyped DEF DropUnknown
  <2> QED
    BY <1>4, <2>1 DEF DropUnknown, TypeInv, TypeOK, clientVars, serverVars
<1> QED
  BY <1>1, <1>2, <1>3, <1>4

LEMMA ClientTypeStep ==
    ASSUME TypeInv, NEW m \in net,
           Configure(m) \/ TakePacket(m) \/ TakeReply(m) \/ Refuse(m) \/ Vanish(m)
    PROVE TypeInv'
<1>m. m \in Datagram
  BY DEF TypeInv, TypeOK
<1>t. TypeOK
  BY DEF TypeInv
<1>n. net' \subseteq Datagram /\ repeats' \in 0..MaxRepeats
  BY <1>t, ArriveTyped DEF Configure, TakePacket, TakeReply, Refuse, Vanish
<1>1. CASE Configure(m)
  <2>1. m.kind = "reply" => m.addr \in Addrs
    BY <1>m, Shapes
  <2> QED
    BY <1>1, <1>n, <2>1 DEF Configure, TypeInv, TypeOK, serverVars
<1>2. CASE TakePacket(m)
  <2>1. m.addr \in Dests
    BY <1>2, <1>m, Shapes DEF TakePacket
  <2> QED
    BY <1>2, <1>n, <2>1 DEF TakePacket, TypeInv, TypeOK, serverVars
<1>3. CASE TakeReply(m)
  BY <1>3, <1>n DEF TakeReply, TypeInv, TypeOK, serverVars
<1>4. CASE Refuse(m)
  BY <1>4, <1>n DEF Refuse, TypeInv, TypeOK, serverVars
<1>5. CASE Vanish(m)
  BY <1>5, <1>n DEF Vanish, TypeInv, TypeOK, serverVars, clientVars
<1> QED
  BY <1>1, <1>2, <1>3, <1>4, <1>5

LEMMA TypeStep ==
    ASSUME TypeInv, [Next]_vars
    PROVE TypeInv'
<1>b. {MaxRestarts, MaxLosses, MaxRepeats} \subseteq Nat /\ NumAddrs \in Nat
      /\ \A c \in Clients : MaxStarts[c] \in Nat
  BY BoundsAreNat
<1>1. CASE Stop \/ Boot
  BY <1>1, <1>b DEF Stop, Boot, TypeInv, TypeOK, Tables, clientVars
<1>2. ASSUME NEW c \in Clients, Ask(c)
      PROVE TypeInv'
  <2>1. \A d \in Clients : starts'[d] = (IF d = c THEN starts[d] + 1 ELSE starts[d])
                           /\ starts'[d] \in 0..MaxStarts[d]
    BY <1>2, <1>b DEF Ask, TypeInv, TypeOK
  <2>2. starts' = [d \in Clients |-> starts'[d]]
    BY <1>2 DEF Ask, TypeInv
  <2>3. net' \subseteq Datagram
    BY <1>2, Made DEF Ask, TypeInv, TypeOK
  <2> QED
    BY <1>2, <2>1, <2>2, <2>3 DEF Ask, TypeInv, TypeOK, serverVars
<1>3. ASSUME NEW c \in Clients, Quit(c)
      PROVE TypeInv'
  BY <1>3 DEF Quit, TypeInv, TypeOK, serverVars
<1>4. ASSUME NEW a \in Dests, ServerSend(a)
      PROVE TypeInv'
  <2>1. client_addr[a] \in Clients
    BY <1>4 DEF ServerSend, Known, TypeInv, TypeOK, Tables
  <2>2. net' \subseteq Datagram
    BY <1>4, <2>1, Made DEF ServerSend, TypeInv, TypeOK
  <2> QED
    BY <1>4, <2>2 DEF ServerSend, TypeInv, TypeOK, serverVars, clientVars
<1>5. ASSUME NEW c \in Clients, NEW a \in Dests, ClientSend(c, a)
      PROVE TypeInv'
  <2>1. net' \subseteq Datagram
    BY <1>5, Made DEF ClientSend, TypeInv, TypeOK
  <2> QED
    BY <1>5, <2>1 DEF ClientSend, TypeInv, TypeOK, serverVars
<1>6. ASSUME NEW m \in net, Receive(m)
      PROVE TypeInv'
  BY <1>6, ServerTypeStep, ClientTypeStep DEF Receive
<1>7. ASSUME NEW m \in net, Lose(m)
      PROVE TypeInv'
  BY <1>7, <1>b DEF Lose, TypeInv, TypeOK, serverVars, clientVars
<1>8. CASE UNCHANGED vars
  BY <1>8 DEF vars, TypeInv, TypeOK, serverVars, clientVars
<1> QED
  BY <1>1, <1>2, <1>3, <1>4, <1>5, <1>6, <1>7, <1>8 DEF Next

----------------------------------------------------------------------------
(* Routes.                                                                 *)

LEMMA InitRouted == Init => RoutedInv
  BY NoneAreNew DEF Init, RoutedInv, NotForServer, Unassigned, PacketsAreRouted, Addrs

(* A step that gives nothing away, and sends a client only what it was     *)
(* given.                                                                  *)
LEMMA SameRoutes ==
    ASSUME TypeInv, RoutedInv, UNCHANGED <<serverVars, restarts>>,
           got'[Server] \subseteq got[Server] \cup {MYADDR},
           \A c \in Clients : got'[c] \subseteq got[c],
           \A c \in Clients : virtual_ip'[c] \in {virtual_ip[c], NoAddr, Header},
           \A m \in net' : m.to \in Clients =>
               \/ m \in net
               \/ m.addr \in Addrs /\ client_addr[m.addr] = m.to /\ m.addr # MYADDR
    PROVE RoutedInv'
<1>1. UNCHANGED <<server, client_num, client_addr, lost>>
  BY DEF serverVars
<1>2. \A a, c : Gave(a, c)' <=> Gave(a, c)
  BY <1>1 DEF Gave
<1>3. NotForServer' /\ PacketsAreRouted'
  <2>1. \A m \in net' : m.to \in Clients => m.addr \in Addrs /\ Gave(m.addr, m.to)
    BY DEF RoutedInv, PacketsAreRouted, Gave
  <2>2. PacketsAreRouted'
    BY <1>2, <2>1 DEF PacketsAreRouted
  <2> QED
    BY <2>2 DEF RoutedInv, NotForServer
<1>4. NoAddr \notin Addrs /\ Header \notin Addrs
  BY NoneAreNew DEF Addrs
<1>5. \A c \in Clients : virtual_ip'[c] \in Addrs => Gave(virtual_ip[c], c)'
  <2>1. \A c \in Clients : virtual_ip'[c] \in Addrs => virtual_ip'[c] = virtual_ip[c] /\ Gave(virtual_ip[c], c)
    BY <1>4 DEF RoutedInv
  <2> QED
    BY <1>1, <2>1 DEF Gave
<1>6. \A c \in Clients : \A a \in got'[c] : a \in Addrs /\ a # MYADDR /\ Gave(a, c)'
  BY <1>2 DEF RoutedInv
<1> QED
  BY <1>1, <1>3, <1>5, <1>6 DEF RoutedInv, Unassigned

(* Whatever was given stays given.                                         *)
Keeps == \A a \in Addrs : \A c \in Clients : Gave(a, c) => Gave(a, c)'

LEMMA KeptRoutes ==
    ASSUME RoutedInv, Keeps, UNCHANGED <<virtual_ip, got>>
    PROVE /\ \A c \in Clients : virtual_ip'[c] \in Addrs => Gave(virtual_ip[c], c)'
          /\ got'[Server] \subseteq {MYADDR}
          /\ \A c \in Clients : \A a \in got'[c] : a \in Addrs /\ a # MYADDR /\ Gave(a, c)'
  BY DEF RoutedInv, Keeps

LEMMA KeptPackets ==
    ASSUME RoutedInv, Keeps, UNCHANGED net
    PROVE PacketsAreRouted'
  BY DEF RoutedInv, Keeps, PacketsAreRouted

(* The address of a new client was nobody's.                               *)
LEMMA ServeRequestRoutes ==
    ASSUME TypeInv, RoutedInv, NEW m \in net, ServeRequest(m)
    PROVE RoutedInv'
<1>1. m \in Datagram /\ TypeOK
  BY DEF TypeInv, TypeOK
<1>2. m.from \in Clients /\ m.from # NoClient
  BY <1>1, Shapes, NoneAreNew DEF ServeRequest
<1>3. client_num \in Addrs /\ client_num \in Nat /\ client_num' = client_num + 1
  BY <1>1, BoundsAreNat DEF ServeRequest, TypeOK, Addrs
<1>4. \A a \in Addrs : client_addr'[a] = IF a = client_num THEN m.from ELSE client_addr[a]
  BY <1>1, <1>3 DEF ServeRequest, TypeOK, Tables
<1>5. \A d \in net' : d \in net \/ d = Reply(m.from, client_num)
  <2>1. {Reply(m.from, client_num)} \subseteq Datagram
    BY <1>2, <1>3, Made
  <2> QED
    BY <1>1, <2>1, ArriveTyped DEF ServeRequest
<1>6. UNCHANGED <<server, lost, got, virtual_ip, restarts>>
  BY DEF ServeRequest, clientVars
<1>7. NotForServer'
  BY <1>5 DEF RoutedInv, NotForServer, Reply
<1>8. client_addr[client_num] = NoClient
  BY <1>3 DEF RoutedInv, Unassigned
<1>9. Keeps
  BY <1>4, <1>6, <1>8, NoneAreNew DEF Keeps, Gave
<1>10. ASSUME NEW d \in net', d \notin net
       PROVE d.addr \in Addrs /\ Gave(d.addr, d.to)'
  <2>1. d = Reply(m.from, client_num)
    BY <1>5, <1>10
  <2>2. d.addr = client_num /\ d.to = m.from /\ client_addr'[client_num] = m.from
    BY <1>3, <1>4, <2>1 DEF Reply
  <2> QED
    BY <1>3, <2>2 DEF Gave
<1>11. Unassigned'
  BY <1>3, <1>4 DEF RoutedInv, Unassigned, Addrs
<1>12. PacketsAreRouted'
  <2>1. ASSUME NEW d \in net', d \in net, d.to \in Clients
        PROVE d.addr \in Addrs /\ Gave(d.addr, d.to)'
    BY <1>9, <2>1 DEF RoutedInv, PacketsAreRouted, Keeps
  <2> QED
    BY <1>10, <2>1 DEF PacketsAreRouted
<1>13. /\ \A c \in Clients : virtual_ip'[c] \in Addrs => Gave(virtual_ip[c], c)'
       /\ got'[Server] \subseteq {MYADDR}
       /\ \A c \in Clients : \A a \in got'[c] : a \in Addrs /\ a # MYADDR /\ Gave(a, c)'
  BY <1>6, <1>9, KeptRoutes
<1>14. server = "up"
  BY DEF ServeRequest
<1> QED
  BY <1>6, <1>7, <1>11, <1>12, <1>13, <1>14 DEF RoutedInv

LEMMA ArrivalRoutes ==
    ASSUME TypeInv, RoutedInv, NEW m \in net,
           \/ ServeOwn(m) \/ Forward(m) \/ DropUnknown(m)
           \/ TakeReply(m) \/ Refuse(m) \/ Vanish(m)
    PROVE RoutedInv'
<1>1. m \in Datagram /\ TypeOK
  BY DEF TypeInv, TypeOK
<1>2. CASE ServeOwn(m)
  <2>1. \A d \in net' : d \in net
    BY <1>1, <1>2, ArriveTyped DEF ServeOwn
  <2>2. got'[Server] \subseteq got[Server] \cup {MYADDR} /\ \A c \in Clients : got'[c] = got[c]
    BY <1>1, <1>2, NoneAreNew DEF ServeOwn, TypeOK
  <2> QED
    BY <1>2, <2>1, <2>2, SameRoutes DEF ServeOwn, clientVars
<1>3. CASE Forward(m)
  <2>1. m.addr \in Addrs /\ client_addr[m.addr] \in Clients /\ m.addr \in Dests /\ m.addr # MYADDR
    BY <1>1, <1>3, Shapes DEF Forward, Known, TypeOK, Tables
  <2>2. {ToClient(client_addr[m.addr], m.addr)} \subseteq Datagram
    BY <2>1, Made
  <2>3. \A d \in net' : d \in net \/ d = ToClient(client_addr[m.addr], m.addr)
    BY <1>1, <1>3, <2>2, ArriveTyped DEF Forward
  <2>4. \A d \in net' :
            \/ d \in net
            \/ d.addr \in Addrs /\ client_addr[d.addr] = d.to /\ d.addr # MYADDR
    BY <2>1, <2>3 DEF ToClient
  <2> QED
    BY <1>3, <2>4, SameRoutes DEF Forward, clientVars
<1>4. CASE DropUnknown(m) \/ TakeReply(m) \/ Refuse(m) \/ Vanish(m)
  <2>1. \A d \in net' : d \in net
    BY <1>1, <1>4, ArriveTyped DEF DropUnknown, TakeReply, Refuse, Vanish
  <2>2. UNCHANGED <<serverVars, restarts, got, virtual_ip>>
    BY <1>4 DEF DropUnknown, TakeReply, Refuse, Vanish, clientVars
  <2> QED
    BY <2>1, <2>2, SameRoutes
<1> QED
  BY <1>2, <1>3, <1>4

LEMMA ConfigureRoutes ==
    ASSUME TypeInv, RoutedInv, NEW m \in net, Configure(m)
    PROVE RoutedInv'
<1>1. m \in Datagram /\ TypeOK
  BY DEF TypeInv, TypeOK
<1>2. \A d \in net' : d \in net
  BY <1>1, ArriveTyped DEF Configure
<1>3. \A c \in Clients : virtual_ip'[c] = IF c = m.to THEN IF m.kind = "reply" THEN m.addr ELSE Header
                                                    ELSE virtual_ip[c]
  BY <1>1 DEF Configure, TypeOK
<1>4. UNCHANGED <<server, client_num, client_addr, lost, got, restarts>>
  BY DEF Configure, serverVars
<1>5. \A a, c : Gave(a, c)' <=> Gave(a, c)
  BY <1>4 DEF Gave
<1>6. NotForServer' /\ PacketsAreRouted'
  BY <1>2, <1>5 DEF RoutedInv, NotForServer, PacketsAreRouted
<1>7. Gave(m.addr, m.to)
  BY DEF RoutedInv, PacketsAreRouted, Configure
<1>8. Header \notin Addrs
  BY NoneAreNew DEF Addrs
<1>9. \A c \in Clients : virtual_ip'[c] \in Addrs => Gave(virtual_ip[c], c)'
  <2>1. ASSUME NEW c \in Clients, NEW a \in Addrs, virtual_ip'[c] = a PROVE Gave(a, c)
    BY <1>3, <1>7, <1>8, <2>1 DEF RoutedInv
  <2> QED
    BY <1>4, <2>1 DEF Gave
<1> QED
  BY <1>4, <1>5, <1>6, <1>9 DEF RoutedInv, Unassigned

LEMMA TakePacketRoutes ==
    ASSUME TypeInv, RoutedInv, NEW m \in net, TakePacket(m)
    PROVE RoutedInv'
<1>1. m \in Datagram /\ TypeOK
  BY DEF TypeInv, TypeOK
<1>2. \A d \in net' : d \in net
  BY <1>1, ArriveTyped DEF TakePacket
<1>3. /\ \A c \in Clients : got'[c] \subseteq IF c = m.to THEN got[c] \cup {m.addr} ELSE got[c]
      /\ got'[Server] = got[Server]
  BY <1>1, NoneAreNew DEF TakePacket, TypeOK
<1>4. UNCHANGED <<server, client_num, client_addr, lost, virtual_ip, restarts>>
  BY DEF TakePacket, serverVars
<1>5. \A a, c : Gave(a, c)' <=> Gave(a, c)
  BY <1>4 DEF Gave
<1>6. NotForServer' /\ PacketsAreRouted'
  BY <1>2, <1>5 DEF RoutedInv, NotForServer, PacketsAreRouted
<1>7. m.addr # MYADDR /\ m.addr \in Addrs /\ Gave(m.addr, m.to)
  BY DEF RoutedInv, NotForServer, PacketsAreRouted, TakePacket
<1>8. \A c \in Clients : \A a \in got'[c] : a \in Addrs /\ a # MYADDR /\ Gave(a, c)'
  BY <1>3, <1>5, <1>7 DEF RoutedInv
<1> QED
  BY <1>3, <1>4, <1>5, <1>6, <1>8 DEF RoutedInv, Unassigned

LEMMA RoutedStep ==
    ASSUME TypeInv, RoutedInv, [Next]_vars
    PROVE RoutedInv'
<1>0. restarts \in Nat
  BY BoundsAreNat DEF TypeInv, TypeOK
<1>1. CASE Stop
  <2>1. /\ restarts' # 0 /\ lost' = lost \cup {client_addr}
        /\ UNCHANGED <<client_num, client_addr, net, got, virtual_ip>>
    BY <1>0, <1>1 DEF Stop, clientVars
  <2>2. Keeps
    BY <2>1 DEF Keeps, Gave
  <2>3. NotForServer' /\ Unassigned'
    BY <2>1 DEF RoutedInv, NotForServer, Unassigned
  <2>4. PacketsAreRouted'
    BY <2>1, <2>2, KeptPackets
  <2>5. /\ \A c \in Clients : virtual_ip'[c] \in Addrs => Gave(virtual_ip[c], c)'
        /\ got'[Server] \subseteq {MYADDR}
        /\ \A c \in Clients : \A a \in got'[c] : a \in Addrs /\ a # MYADDR /\ Gave(a, c)'
    BY <2>1, <2>2, KeptRoutes
  <2> QED
    BY <1>1, <2>1, <2>3, <2>4, <2>5 DEF RoutedInv, Stop
<1>2. CASE Boot
  <2>1. /\ client_addr \in lost /\ server' = "up" /\ restarts' # 0
        /\ client_addr' = [a \in Addrs |-> NoClient]
        /\ UNCHANGED <<lost, net, got, virtual_ip, restarts>>
    BY <1>2 DEF Boot, RoutedInv, clientVars
  <2>2. Keeps
    BY <2>1 DEF Keeps, Gave
  <2>3. NotForServer' /\ Unassigned'
    BY <2>1 DEF RoutedInv, NotForServer, Unassigned
  <2>4. PacketsAreRouted'
    BY <2>1, <2>2, KeptPackets
  <2>5. /\ \A c \in Clients : virtual_ip'[c] \in Addrs => Gave(virtual_ip[c], c)'
        /\ got'[Server] \subseteq {MYADDR}
        /\ \A c \in Clients : \A a \in got'[c] : a \in Addrs /\ a # MYADDR /\ Gave(a, c)'
    BY <2>1, <2>2, KeptRoutes
  <2> QED
    BY <1>2, <2>1, <2>3, <2>4, <2>5 DEF RoutedInv, Boot
<1>3. ASSUME NEW c \in Clients, Ask(c)
      PROVE RoutedInv'
  <2>1. \A m \in net' : m.to \in Clients => m \in net
    BY <1>3, NoneAreNew DEF Ask, Request
  <2>2. \A d \in Clients : got'[d] \subseteq got[d]
    BY <1>3 DEF Ask, TypeInv, TypeOK
  <2>3. got'[Server] = got[Server]
    BY <1>3, NoneAreNew DEF Ask, TypeInv, TypeOK
  <2>4. \A d \in Clients : virtual_ip'[d] \in {virtual_ip[d], NoAddr}
    BY <1>3 DEF Ask, TypeInv, TypeOK
  <2> QED
    BY <1>3, <2>1, <2>2, <2>3, <2>4, SameRoutes DEF Ask
<1>4. ASSUME NEW c \in Clients, Quit(c)
      PROVE RoutedInv'
  BY <1>4, SameRoutes DEF Quit
<1>5. ASSUME NEW a \in Dests, ServerSend(a)
      PROVE RoutedInv'
  <2>1. \A m \in net' : m \in net \/ m = ToClient(client_addr[a], a)
    BY <1>5 DEF ServerSend
  <2>2. a \in Addrs /\ a # MYADDR
    BY <1>5 DEF ServerSend, Known
  <2>3. \A m \in net' :
            \/ m \in net
            \/ m.addr \in Addrs /\ client_addr[m.addr] = m.to /\ m.addr # MYADDR
    BY <2>1, <2>2 DEF ToClient
  <2> QED
    BY <1>5, <2>3, SameRoutes DEF ServerSend, clientVars
<1>6. ASSUME NEW c \in Clients, NEW a \in Dests, ClientSend(c, a)
      PROVE RoutedInv'
  <2>1. \A m \in net' : m.to \in Clients => m \in net
    BY <1>6, NoneAreNew DEF ClientSend, ToServer
  <2> QED
    BY <1>6, <2>1, SameRoutes DEF ClientSend
<1>7. ASSUME NEW m \in net, Receive(m)
      PROVE RoutedInv'
  BY <1>7, ServeRequestRoutes, ArrivalRoutes, ConfigureRoutes, TakePacketRoutes DEF Receive
<1>8. ASSUME NEW m \in net, Lose(m)
      PROVE RoutedInv'
  BY <1>8, SameRoutes DEF Lose, clientVars
<1>9. CASE UNCHANGED vars
  BY <1>9, SameRoutes DEF vars, clientVars
<1> QED
  BY <1>1, <1>2, <1>3, <1>4, <1>5, <1>6, <1>7, <1>8, <1>9 DEF Next

----------------------------------------------------------------------------
(* A client that was started once sees one reply.                          *)

Asks(c, N) == {m \in N : m.kind = "request" /\ m.from = c}
Answers(c, N) == {m \in N : m.kind = "reply" /\ m.to = c}

AnsweredOnceOnly(c) ==
    /\ state[c] # "failed"
    /\ state[c] = "up" => virtual_ip[c] # NoAddr
    /\ starts[c] = 0 => /\ state[c] = "off" /\ virtual_ip[c] = NoAddr
                        /\ Asks(c, net) = {} /\ Answers(c, net) = {}
    /\ virtual_ip[c] \in Addrs => Asks(c, net) = {} /\ Answers(c, net) = {}
    /\ Asks(c, net) # {} => Answers(c, net) = {}
    /\ \A m, n \in Answers(c, net) : m = n

OnceInv ==
    restarts = 0 /\ repeats = 0 =>
        \A c \in Clients : starts[c] <= 1 => AnsweredOnceOnly(c)

LEMMA InitOnce == Init => OnceInv
  BY DEF Init, OnceInv, AnsweredOnceOnly, Asks, Answers

(* A step that leaves c alone, or ends it.                                 *)
LEMMA SameOnce ==
    ASSUME NEW c \in Clients, AnsweredOnceOnly(c),
           starts'[c] = starts[c], virtual_ip'[c] = virtual_ip[c],
           state'[c] \in {state[c], "off"},
           Asks(c, net') \subseteq Asks(c, net), Answers(c, net') \subseteq Answers(c, net)
    PROVE AnsweredOnceOnly(c)'
<1>1. Asks(c, net)' = Asks(c, net') /\ Answers(c, net)' = Answers(c, net')
  BY DEF Asks, Answers
<1> QED
  BY <1>1 DEF AnsweredOnceOnly

LEMMA FewerOnce ==
    ASSUME NEW c \in Clients, net' \subseteq net
    PROVE Asks(c, net') \subseteq Asks(c, net) /\ Answers(c, net') \subseteq Answers(c, net)
  BY DEF Asks, Answers

LEMMA RequestOnce ==
    ASSUME TypeInv, NEW m \in net, ServeRequest(m), repeats' = 0,
           NEW c \in Clients, AnsweredOnceOnly(c)
    PROVE AnsweredOnceOnly(c)'
<1>1. m \in Datagram /\ TypeOK
  BY DEF TypeInv, TypeOK
<1>2. m.from \in Clients /\ m = Request(m.from) /\ m.kind = "request"
  BY <1>1, Shapes DEF ServeRequest
<1>3. client_num \in Addrs
  BY <1>1, BoundsAreNat DEF ServeRequest, TypeOK, Addrs
<1>4. {Reply(m.from, client_num)} \subseteq Datagram
  BY <1>2, <1>3, Made
<1>5. net' = (net \ {m}) \cup {Reply(m.from, client_num)}
  BY <1>1, <1>4, ArriveTyped DEF ServeRequest
<1>6. UNCHANGED <<state, virtual_ip, starts>>
  BY DEF ServeRequest, clientVars
<1>7. CASE c # m.from
  <2>1. Asks(c, net') \subseteq Asks(c, net) /\ Answers(c, net') \subseteq Answers(c, net)
    BY <1>5, <1>7 DEF Asks, Answers, Reply
  <2> QED
    BY <1>6, <2>1, SameOnce
<1>8. CASE c = m.from
  <2>1. m \in Asks(c, net)
    BY <1>2, <1>8 DEF Asks
  <2>2. Answers(c, net) = {} /\ starts[c] # 0 /\ virtual_ip[c] \notin Addrs
    BY <2>1 DEF AnsweredOnceOnly
  <2>3. Answers(c, net') = {Reply(c, client_num)}
    BY <1>2, <1>5, <1>8, <2>2 DEF Answers, Reply
  <2>4. Asks(c, net') = {}
    <3>1. \A d \in Asks(c, net') : d \in net /\ d # m /\ d.kind = "request" /\ d.from = c
      BY <1>5 DEF Asks, Reply
    <3>2. \A d \in net : d.kind = "request" /\ d.from = c => d = m
      BY <1>1, <1>2, <1>8, Shapes DEF TypeOK
    <3> QED
      BY <3>1, <3>2
  <2>5. Asks(c, net)' = Asks(c, net') /\ Answers(c, net)' = Answers(c, net')
    BY DEF Asks, Answers
  <2> QED
    BY <1>6, <2>2, <2>3, <2>4, <2>5 DEF AnsweredOnceOnly
<1> QED
  BY <1>7, <1>8

(* The one reply is consumed.                                              *)
LEMMA ConfigureOnce ==
    ASSUME TypeInv, NEW m \in net, Configure(m), repeats' = 0,
           NEW c \in Clients, AnsweredOnceOnly(c)
    PROVE AnsweredOnceOnly(c)'
<1>1. m \in Datagram /\ TypeOK
  BY DEF TypeInv, TypeOK
<1>2. net' = net \ {m}
  BY <1>1, ArriveTyped DEF Configure
<1>3. Asks(c, net') \subseteq Asks(c, net) /\ Answers(c, net') \subseteq Answers(c, net)
  BY <1>2, FewerOnce
<1>4. CASE c # m.to
  BY <1>1, <1>3, <1>4, SameOnce DEF Configure, TypeOK
<1>5. CASE c = m.to
  <2>1. /\ state'[c] = "up" /\ starts'[c] = starts[c]
        /\ virtual_ip'[c] = IF m.kind = "reply" THEN m.addr ELSE Header
    BY <1>1, <1>5 DEF Configure, TypeOK
  <2>2. starts[c] # 0
    BY <1>5 DEF Configure, AnsweredOnceOnly
  <2>3. Asks(c, net)' = Asks(c, net') /\ Answers(c, net)' = Answers(c, net')
    BY DEF Asks, Answers
  <2>4. CASE m.kind = "reply"
    <3>1. m \in Answers(c, net)
      BY <1>5, <2>4 DEF Answers
    <3>2. Asks(c, net) = {} /\ \A n \in Answers(c, net) : n = m
      BY <3>1 DEF AnsweredOnceOnly
    <3>3. Asks(c, net') = {} /\ Answers(c, net') = {}
      BY <1>2, <1>3, <3>2 DEF Answers
    <3>4. m.addr # NoAddr
      BY <1>1, <2>4, Shapes, NoneAreNew DEF Addrs
    <3> QED
      BY <2>1, <2>2, <2>3, <2>4, <3>3, <3>4 DEF AnsweredOnceOnly
  <2>5. CASE m.kind # "reply"
    <3>1. virtual_ip'[c] = Header /\ Header \notin Addrs /\ Header # NoAddr
      BY <2>1, <2>5, NoneAreNew DEF Addrs
    <3> QED
      BY <1>3, <2>1, <2>2, <2>3, <3>1 DEF AnsweredOnceOnly
  <2> QED
    BY <2>4, <2>5
<1> QED
  BY <1>4, <1>5

(* No reply meets a client that has an address, and no other fails.        *)
LEMMA TakeReplyOnce ==
    ASSUME TypeInv, NEW m \in net, TakeReply(m), repeats' = 0,
           NEW c \in Clients, AnsweredOnceOnly(c)
    PROVE AnsweredOnceOnly(c)'
<1>1. m \in Datagram /\ TypeOK
  BY DEF TypeInv, TypeOK
<1>2. net' \subseteq net
  BY <1>1, ArriveTyped DEF TakeReply
<1>3. state'[c] = state[c]
  <2>1. CASE c # m.to
    BY <1>1, <2>1 DEF TakeReply, TypeOK
  <2>2. CASE c = m.to
    <3>1. m \in Answers(c, net)
      BY <2>2 DEF TakeReply, Answers
    <3>2. virtual_ip[c] \notin Addrs /\ virtual_ip[c] # NoAddr
      BY <2>2, <3>1 DEF AnsweredOnceOnly, TakeReply
    <3>3. virtual_ip[c] = Header
      BY <1>1, <3>2 DEF TypeOK
    <3>4. daddr[c] \in Dests \cup {NoAddr}
      BY <1>1 DEF TypeOK
    <3>5. daddr[c] # Header
      BY <3>4, DestsAreNat, NoneAreNew
    <3> QED
      BY <1>1, <2>2, <3>3, <3>5 DEF TakeReply, TypeOK
  <2> QED
    BY <2>1, <2>2
<1> QED
  BY <1>2, <1>3, FewerOnce, SameOnce DEF TakeReply

LEMMA AskOnce ==
    ASSUME TypeInv, NEW d \in Clients, Ask(d),
           NEW c \in Clients, starts'[c] <= 1, starts[c] <= 1 => AnsweredOnceOnly(c)
    PROVE AnsweredOnceOnly(c)'
<1>1. TypeOK /\ starts[c] \in Nat
  BY BoundsAreNat DEF TypeInv, TypeOK
<1>2. net' = net \cup {Request(d)}
  BY DEF Ask
<1>3. starts' = [starts EXCEPT ![d] = @ + 1] /\ starts = [e \in Clients |-> starts[e]]
  BY DEF Ask, TypeInv
<1>4. CASE c # d
  <2>1. Asks(c, net') \subseteq Asks(c, net) /\ Answers(c, net') \subseteq Answers(c, net)
    BY <1>2, <1>4 DEF Asks, Answers, Request
  <2>2. starts'[c] = starts[c] /\ virtual_ip'[c] = virtual_ip[c] /\ state'[c] = state[c]
    BY <1>1, <1>3, <1>4 DEF Ask, TypeOK
  <2> QED
    BY <2>1, <2>2, SameOnce
<1>5. CASE c = d
  <2>1. starts'[c] = starts[c] + 1
    BY <1>3, <1>5
  <2>2. starts[c] = 0 /\ starts'[c] = 1
    BY <1>1, <2>1
  <2>3. Answers(c, net) = {}
    BY <2>2 DEF AnsweredOnceOnly
  <2>4. Answers(c, net') = {}
    BY <1>2, <2>3 DEF Answers, Request
  <2>5. state'[c] = "asking" /\ virtual_ip'[c] = NoAddr /\ NoAddr \notin Addrs
    BY <1>1, <1>5, NoneAreNew DEF Ask, TypeOK, Addrs
  <2>6. Answers(c, net)' = Answers(c, net')
    BY DEF Answers
  <2> QED
    BY <2>2, <2>4, <2>5, <2>6 DEF AnsweredOnceOnly
<1> QED
  BY <1>4, <1>5

LEMMA OnceStep ==
    ASSUME TypeInv, RoutedInv, OnceInv, [Next]_vars
    PROVE OnceInv'
<1> SUFFICES ASSUME restarts' = 0, repeats' = 0, NEW c \in Clients, starts'[c] <= 1
             PROVE AnsweredOnceOnly(c)'
  BY DEF OnceInv
<1>0. TypeOK /\ restarts \in Nat /\ repeats \in Nat /\ starts[c] \in Nat
  BY BoundsAreNat DEF TypeInv, TypeOK
<1>1. ASSUME restarts = 0, repeats = 0 PROVE server = "up" /\ (starts[c] <= 1 => AnsweredOnceOnly(c))
  BY <1>1 DEF OnceInv, RoutedInv
<1>2. CASE Stop
  BY <1>0, <1>2 DEF Stop
<1>3. CASE Boot
  BY <1>1, <1>3 DEF Boot
<1>4. ASSUME NEW d \in Clients, Ask(d)
      PROVE AnsweredOnceOnly(c)'
  <2>1. starts[c] <= 1 => AnsweredOnceOnly(c)
    BY <1>1, <1>4 DEF Ask
  <2> QED
    BY <1>4, <2>1, AskOnce
<1>5. ASSUME NEW d \in Clients, Quit(d)
      PROVE AnsweredOnceOnly(c)'
  <2>1. AnsweredOnceOnly(c)
    BY <1>1, <1>5 DEF Quit
  <2>2. state'[c] \in {state[c], "off"}
    BY <1>0, <1>5 DEF Quit, TypeOK
  <2> QED
    BY <1>5, <2>1, <2>2, FewerOnce, SameOnce DEF Quit
<1>6. ASSUME NEW a \in Dests, ServerSend(a)
      PROVE AnsweredOnceOnly(c)'
  <2>1. AnsweredOnceOnly(c)
    BY <1>1, <1>6 DEF ServerSend, clientVars
  <2>2. Asks(c, net') \subseteq Asks(c, net) /\ Answers(c, net') \subseteq Answers(c, net)
    BY <1>6 DEF ServerSend, Asks, Answers, ToClient
  <2> QED
    BY <1>6, <2>1, <2>2, SameOnce DEF ServerSend, clientVars
<1>7. ASSUME NEW d \in Clients, NEW a \in Dests, ClientSend(d, a)
      PROVE AnsweredOnceOnly(c)'
  <2>1. AnsweredOnceOnly(c)
    BY <1>1, <1>7 DEF ClientSend
  <2>2. Asks(c, net') \subseteq Asks(c, net) /\ Answers(c, net') \subseteq Answers(c, net)
    BY <1>7 DEF ClientSend, Asks, Answers, ToServer
  <2> QED
    BY <1>7, <2>1, <2>2, SameOnce DEF ClientSend
<1>8. ASSUME NEW m \in net, Receive(m)
      PROVE AnsweredOnceOnly(c)'
  <2>1. repeats = 0 /\ restarts = 0 /\ starts'[c] = starts[c]
    <3>1. repeats' = repeats \/ repeats' = repeats + 1
      BY <1>8 DEF Receive, ServeRequest, ServeOwn, Forward, DropUnknown, Configure, TakePacket,
         TakeReply, Refuse, Vanish, Arrive
    <3>2. UNCHANGED <<restarts, starts>>
      BY <1>8 DEF Receive, ServeRequest, ServeOwn, Forward, DropUnknown, Configure, TakePacket,
         TakeReply, Refuse, Vanish, clientVars
    <3> QED
      BY <1>0, <3>1, <3>2
  <2>2. AnsweredOnceOnly(c) /\ server = "up"
    BY <1>1, <2>1
  <2>3. CASE ServeRequest(m)
    BY <2>2, <2>3, RequestOnce
  <2>4. CASE Configure(m)
    BY <2>2, <2>4, ConfigureOnce
  <2>5. CASE TakeReply(m)
    BY <2>2, <2>5, TakeReplyOnce
  <2>6. CASE ServeOwn(m) \/ DropUnknown(m) \/ Vanish(m) \/ TakePacket(m)
    <3>1. net' \subseteq net
      BY <1>0, <2>6, ArriveTyped DEF ServeOwn, DropUnknown, Vanish, TakePacket
    <3>2. UNCHANGED <<state, virtual_ip, starts>>
      BY <2>6 DEF ServeOwn, DropUnknown, Vanish, TakePacket, clientVars
    <3> QED
      BY <2>2, <3>1, <3>2, FewerOnce, SameOnce
  <2>7. CASE Forward(m)
    <3>1. m \in Datagram
      BY <1>0 DEF TypeOK
    <3>2. m.addr \in Dests /\ client_addr[m.addr] \in Clients
      BY <1>0, <2>7, <3>1, Shapes DEF Forward, Known, TypeOK, Tables
    <3>3. {ToClient(client_addr[m.addr], m.addr)} \subseteq Datagram
      BY <3>2, Made
    <3>4. \A d \in net' : d \in net \/ d = ToClient(client_addr[m.addr], m.addr)
      BY <1>0, <2>7, <3>3, ArriveTyped DEF Forward
    <3>5. Asks(c, net') \subseteq Asks(c, net) /\ Answers(c, net') \subseteq Answers(c, net)
      BY <3>4 DEF Asks, Answers, ToClient
    <3> QED
      BY <2>2, <2>7, <3>5, SameOnce DEF Forward, clientVars
  <2>8. CASE Refuse(m)
    BY <2>2, <2>8 DEF Refuse
  <2> QED
    BY <1>8, <2>3, <2>4, <2>5, <2>6, <2>7, <2>8 DEF Receive
<1>9. ASSUME NEW m \in net, Lose(m)
      PROVE AnsweredOnceOnly(c)'
  <2>1. AnsweredOnceOnly(c)
    BY <1>1, <1>9 DEF Lose, clientVars
  <2> QED
    BY <1>9, <2>1, FewerOnce, SameOnce DEF Lose, clientVars
<1>10. CASE UNCHANGED vars
  <2>1. AnsweredOnceOnly(c)
    BY <1>1, <1>10 DEF vars, clientVars
  <2> QED
    BY <1>10, <2>1, FewerOnce, SameOnce DEF vars, clientVars
<1> QED
  BY <1>2, <1>3, <1>4, <1>5, <1>6, <1>7, <1>8, <1>9, <1>10 DEF Next

----------------------------------------------------------------------------
(* Theorems.                                                               *)

IInv == TypeInv /\ RoutedInv /\ OnceInv

(* The inductive invariant.                                                *)
THEOREM IInvHolds == FairSpec => []IInv
<1>1. Init => IInv
  BY InitType, InitRouted, InitOnce DEF IInv
<1>2. IInv /\ [Next]_vars => IInv'
  BY TypeStep, RoutedStep, OnceStep DEF IInv
<1> QED
  BY <1>1, <1>2, PTL DEF FairSpec, Spec

(* Every variable keeps its type.                                          *)
THEOREM TypeCorrect == FairSpec => []TypeOK
<1>1. IInv => TypeOK
  BY DEF IInv, TypeInv
<1> QED
  BY <1>1, IInvHolds, PTL

(* What a client uses for its address was given to it.                     *)
THEOREM RoutesHold == FairSpec => []HeldIsRouted
<1>1. IInv => HeldIsRouted
  <2>1. IInv => \A m \in net : m.kind = "reply" => m.to \in Clients
    BY Shapes DEF IInv, TypeInv, TypeOK
  <2> QED
    BY <2>1 DEF IInv, RoutedInv, PacketsAreRouted, HeldIsRouted
<1> QED
  BY <1>1, IInvHolds, PTL

(* Nobody's device gets a packet for somebody else.                        *)
THEOREM AddresseesGet == FairSpec => []OnlyAddresseeGets
<1>1. IInv => OnlyAddresseeGets
  BY DEF IInv, RoutedInv, OnlyAddresseeGets
<1> QED
  BY <1>1, IInvHolds, PTL

(* Two clients use one address, or one uses the server's.                  *)
Conflict == \E c \in Clients : virtual_ip[c] \in Addrs /\
               (virtual_ip[c] = MYADDR \/ \E d \in Clients \ {c} : virtual_ip[d] = virtual_ip[c])

(* A conflict shows that the server was stopped or has given out MYADDR.   *)
THEOREM ConflictsHaveReasons == FairSpec => [](Conflict => restarts > 0 \/ client_num > MYADDR)
<1>1. IInv => (Conflict => restarts > 0 \/ client_num > MYADDR)
  <2> SUFFICES ASSUME IInv, NEW c \in Clients, virtual_ip[c] \in Addrs,
                      virtual_ip[c] = MYADDR \/ \E d \in Clients \ {c} : virtual_ip[d] = virtual_ip[c],
                      restarts = 0
               PROVE client_num > MYADDR
    <3>1. IInv => restarts \in Nat
      BY BoundsAreNat DEF IInv, TypeInv, TypeOK
    <3> QED
      BY <3>1 DEF Conflict
  <2>1. \A d \in Clients : virtual_ip[d] \in Addrs => client_addr[virtual_ip[d]] = d
    BY DEF IInv, RoutedInv, Gave
  <2>2. virtual_ip[c] = MYADDR /\ client_addr[MYADDR] # NoClient /\ MYADDR \in Addrs
    BY <2>1, NoneAreNew
  <2>3. MYADDR \in Nat /\ client_num \in Nat
    BY BoundsAreNat DEF IInv, TypeInv, TypeOK
  <2> QED
    BY <2>2, <2>3 DEF IInv, RoutedInv, Unassigned
<1> QED
  BY <1>1, IInvHolds, PTL

(* A client started once does not fail of itself.                          *)
THEOREM FailuresHaveReasons == FairSpec => []FailsForAReason
<1>1. IInv => FailsForAReason
  <2> SUFFICES ASSUME IInv, restarts = 0, repeats = 0, NEW c \in Clients, state[c] = "failed"
               PROVE starts[c] > 1
    BY DEF FailsForAReason
  <2>1. starts[c] \in Nat
    BY BoundsAreNat DEF IInv, TypeInv, TypeOK
  <2>2. ~(starts[c] <= 1)
    BY DEF IInv, OnceInv, AnsweredOnceOnly
  <2> QED
    BY <2>1, <2>2
<1> QED
  BY <1>1, IInvHolds, PTL
============================================================================
