---------------------------- MODULE RobustUdp ----------------------------
(***************************************************************************)
(* The file transfer of lab6: client.cpp sends files in packets over UDP,  *)
(* server.cpp stores them and answers with acknowledgements that say which *)
(* packets of a file it has.  The link between them loses, duplicates,     *)
(* reorders and corrupts.                                                  *)
(*                                                                         *)
(* Data: a packet's payload is the piece of the file it holds; a checksum  *)
(* is whether it would match.  The order in which a round of datagrams     *)
(* leaves a process does not matter on a link that reorders.  The link is  *)
(* a set: a datagram sent again while its first copy is on the way joins   *)
(* it, and receiving one may leave the other there.                        *)
(***************************************************************************)
EXTENDS Naturals, FiniteSets

CONSTANTS
    NumFiles,       \* files to transfer (1000, hard-coded on both sides)
    Total,          \* total_packets of each file
    MaxPackets,     \* MAX_PACKETS: size of Ack::stored_packet
    WinSize,        \* INITIAL_WIN_SIZE: files asked for in one round
    InitSend,       \* CLI_INIT_SEND: files sent before the first answer
    FINISH,         \* the file number that ends the transfer
    NoSuchFile,     \* a file number the client has no file for
    NoFile, NoPiece,
    Corruptible,    \* what of a datagram the link corrupts unnoticed by UDP
    MaxCorruptions, \* bound: corruptions of each kind
    MaxLosses       \* bound: datagrams lost

Files == 0..(NumFiles - 1)
Packets(f) == 0..(Total[f] - 1)

ASSUME SizesAreNat ==
    /\ NumFiles \in Nat \ {0}
    /\ Total \in [Files -> Nat \ {0}]
    /\ MaxPackets \in Nat \ {0} /\ WinSize \in Nat \ {0}
    /\ InitSend \in 0..NumFiles
    /\ MaxCorruptions \in Nat /\ MaxLosses \in Nat

ASSUME NumbersDiffer ==
    /\ FINISH \notin Files
    /\ NoSuchFile \notin Files \cup {FINISH}

(* Kinds of corruption: of bytes the packet's checksum covers, of the      *)
(* length, which it does not cover, and of an acknowledgement, which has   *)
(* none.                                                                   *)
Kinds == {"covered", "length", "ack"}

ASSUME KindsOnly == Corruptible \subseteq Kinds

VARIABLES
    expanded, stored_packet, datas, file_saved,  \* the server's tables
    server,  \* where it is: "outer" or "inner" recvfrom, or "finish"
    disk,    \* the files it wrote
    client,  \* "init", "wait", "done" (read FINISH) or "quit" (no such file)
    sent,    \* files init_send has sent
    junk,    \* the packets init_send's uninitialised Ack says are stored
    net,     \* datagrams on the way
    hurt,    \* number of corruptions of each kind
    losses   \* number of datagrams lost

serverVars == <<expanded, stored_packet, datas, file_saved, server, disk>>
clientVars == <<client, sent, junk>>
faultVars == <<hurt, losses>>
vars == <<serverVars, clientVars, net, faultVars>>

Piece(f, i) == [file |-> f, num |-> i, whole |-> TRUE]
Original == [f \in Files |-> [i \in Packets(f) |-> Piece(f, i)]]

Pieces == [file : Files, num : UNION {Packets(f) : f \in Files}, whole : BOOLEAN]
Datagram ==
    (UNION {[type : {"packet"}, file : {f}, num : Packets(f), data : Pieces] : f \in Files})
    \cup {[type |-> "garbled"]}
    \cup [type : {"ack"}, file : Files \cup {FINISH, NoSuchFile}, stored : SUBSET (0..(MaxPackets - 1))]

TypeOK ==
    /\ expanded \in [Files -> BOOLEAN]
    /\ file_saved \in [Files -> BOOLEAN]
    /\ \A f \in Files :
          /\ stored_packet[f] \subseteq Packets(f)
          /\ datas[f] \in [Packets(f) -> Pieces \cup {NoPiece}]
          /\ disk[f] \in [Packets(f) -> Pieces \cup {NoPiece}] \cup {NoFile}
    /\ server \in {"outer", "inner", "finish"}
    /\ client \in {"init", "wait", "done", "quit"}
    /\ sent \in 0..InitSend
    /\ junk \subseteq UNION {Packets(f) : f \in Files}
    /\ net \subseteq Datagram
    /\ hurt \in [Kinds -> 0..MaxCorruptions]
    /\ losses \in 0..MaxLosses

NoPieces(f) == [i \in Packets(f) |-> NoPiece]

Init ==
    /\ expanded = [f \in Files |-> FALSE]
    /\ stored_packet = [f \in Files |-> {}]
    /\ datas = [f \in Files |-> NoPieces(f)]
    /\ file_saved = [f \in Files |-> FALSE]
    /\ server = "outer"
    /\ disk = [f \in Files |-> NoFile]
    /\ client = "init"
    /\ sent = 0
    /\ junk \in SUBSET UNION {Packets(f) : f \in Files}
    /\ net = {}
    /\ hurt = [k \in Kinds |-> 0]
    /\ losses = 0

----------------------------------------------------------------------------
(* Client.                                                                 *)

\* Mutant of PacketsOf: one packet more than the file has.
PacketsOfOneMore(f, skip) ==
    {[type |-> "packet", file |-> f, num |-> i, data |-> Piece(f, i)] : i \in (0..Total[f]) \ skip}

\* Mutant of PacketsOf: reads on where it left off instead of seeking.
PacketsOfUnsought(f, skip) ==
    {[type |-> "packet", file |-> f, num |-> i,
      data |-> Piece(f, Cardinality({j \in Packets(f) \ skip : j < i}))] : i \in Packets(f) \ skip}

(* Every packet of f but those in skip; fseek finds each one's piece.      *)
PacketsOf(f, skip) ==
    {[type |-> "packet", file |-> f, num |-> i, data |-> Piece(f, i)] : i \in Packets(f) \ skip}

(* Reads past the end of Ack::stored_packet find anything.                 *)
PastTheEnd(f) == SUBSET {i \in Packets(f) : i >= MaxPackets}

send_file(f, skip, rest) ==
    \E more \in PastTheEnd(f) : net' = rest \cup PacketsOf(f, skip \cup more)

init_send ==
    /\ client = "init"
    /\ sent < InitSend
    /\ send_file(sent, junk, net)
    /\ sent' = sent + 1
    /\ UNCHANGED <<serverVars, client, junk, faultVars>>

EndInit ==
    /\ client = "init"
    /\ sent = InitSend
    /\ client' = "wait"
    /\ UNCHANGED <<serverVars, sent, junk, net, faultVars>>

(* A datagram that is received may still be on its way once more: the link *)
(* repeated it, or it was sent again.                                      *)
Taken(m) == {net, net \ {m}}

(* getAck; when it times out the client only waits again.                  *)
ReceiveAck(m) ==
    /\ client = "wait"
    /\ m \in net
    /\ m.type = "ack"
    /\ m.file \in Files
    /\ \E rest \in Taken(m) : send_file(m.file, m.stored, rest)
    /\ UNCHANGED <<serverVars, clientVars, faultVars>>

ReceiveFinish(m) ==
    /\ client = "wait"
    /\ m \in net
    /\ m.type = "ack"
    /\ m.file = FINISH
    /\ client' = "done"
    /\ net' \in Taken(m)
    /\ UNCHANGED <<serverVars, sent, junk, faultVars>>

(* fopen fails and send_file ends the process.                             *)
ReceiveWrongFile(m) ==
    /\ client = "wait"
    /\ m \in net
    /\ m.type = "ack"
    /\ m.file = NoSuchFile
    /\ client' = "quit"
    /\ net' \in Taken(m)
    /\ UNCHANGED <<serverVars, sent, junk, faultVars>>

----------------------------------------------------------------------------
(* Server.                                                                 *)

(* The window starts at the first file that is not saved.                  *)
Window(saved) ==
    LET missing == {f \in Files : ~saved[f]}
    IN {f \in missing : \A g \in missing : f < g + WinSize}

Ack(f, stored) == [type |-> "ack", file |-> f, stored |-> stored \cap 0..(MaxPackets - 1)]

\* Mutant of AckRound: the last file is not looked at.
AckRoundEarly(rest) ==
    IF \A f \in Files \ {NumFiles - 1} : file_saved'[f]
      THEN server' = "finish" /\ net' = rest
      ELSE /\ server' = "outer"
           /\ net' = rest \cup {Ack(f, stored_packet'[f]) : f \in Window(file_saved')}

(* What follows the inner loop: one acknowledgement for every file of the  *)
(* window that is not saved, or the end.                                   *)
AckRound(rest) ==
    IF \A f \in Files : file_saved'[f]
      THEN server' = "finish" /\ net' = rest
      ELSE /\ server' = "outer"
           /\ net' = rest \cup {Ack(f, stored_packet'[f]) : f \in Window(file_saved')}

Listening(m) == server \in {"outer", "inner"} /\ m \in net

\* Mutant of ReceiveGarbled: the datagram is dropped without an answer.
GarbledDropped(m) ==
    /\ Listening(m)
    /\ m.type = "garbled"
    /\ net' \in Taken(m)
    /\ UNCHANGED <<serverVars, clientVars, faultVars>>

(* The checksum does not match.                                            *)
ReceiveGarbled(m) ==
    /\ Listening(m)
    /\ m.type = "garbled"
    /\ UNCHANGED <<expanded, stored_packet, datas, file_saved, disk>>
    /\ \E rest \in Taken(m) : AckRound(rest)
    /\ UNCHANGED <<clientVars, faultVars>>

(* stored_packet of the file was cleared when it was saved.                *)
ReceiveStale(m) ==
    /\ Listening(m)
    /\ m.type = "packet"
    /\ file_saved[m.file]
    /\ UNCHANGED <<expanded, stored_packet, datas, file_saved, disk>>
    /\ \E rest \in Taken(m) : AckRound(rest)
    /\ UNCHANGED <<clientVars, faultVars>>

\* Mutant of StoredWith: the table of the file is made anew for every packet.
StoredAnew(m) == {m.num}

(* The first copy of a packet is kept.                                     *)
StoredWith(m) == stored_packet[m.file] \cup {m.num}
DatasWith(m) ==
    IF m.num \in stored_packet[m.file] THEN datas[m.file]
                                       ELSE [datas[m.file] EXCEPT ![m.num] = m.data]

(* A packet that does not complete its file: wait for another.             *)
ReceivePart(m) ==
    /\ Listening(m)
    /\ m.type = "packet"
    /\ ~file_saved[m.file]
    /\ StoredWith(m) # Packets(m.file)
    /\ expanded' = [expanded EXCEPT ![m.file] = TRUE]
    /\ stored_packet' = [stored_packet EXCEPT ![m.file] = StoredWith(m)]
    /\ datas' = [datas EXCEPT ![m.file] = DatasWith(m)]
    /\ server' = "inner"
    /\ net' \in Taken(m)
    /\ UNCHANGED <<file_saved, disk, clientVars, faultVars>>

\* Mutant of ReceiveLast: does not ask whether the file is saved.
LastAgain(m) ==
    /\ Listening(m)
    /\ m.type = "packet"
    /\ StoredWith(m) = Packets(m.file)
    /\ expanded' = [expanded EXCEPT ![m.file] = TRUE]
    /\ disk' = [disk EXCEPT ![m.file] = DatasWith(m)]
    /\ stored_packet' = [stored_packet EXCEPT ![m.file] = {}]
    /\ datas' = [datas EXCEPT ![m.file] = NoPieces(m.file)]
    /\ file_saved' = [file_saved EXCEPT ![m.file] = TRUE]
    /\ \E rest \in Taken(m) : AckRound(rest)
    /\ UNCHANGED <<clientVars, faultVars>>

\* Mutant of ReceiveLast: the packet with the last number completes the file.
LastByNumber(m) ==
    /\ Listening(m)
    /\ m.type = "packet"
    /\ ~file_saved[m.file]
    /\ m.num + 1 = Total[m.file]
    /\ expanded' = [expanded EXCEPT ![m.file] = TRUE]
    /\ disk' = [disk EXCEPT ![m.file] = DatasWith(m)]
    /\ stored_packet' = [stored_packet EXCEPT ![m.file] = {}]
    /\ datas' = [datas EXCEPT ![m.file] = NoPieces(m.file)]
    /\ file_saved' = [file_saved EXCEPT ![m.file] = TRUE]
    /\ \E rest \in Taken(m) : AckRound(rest)
    /\ UNCHANGED <<clientVars, faultVars>>

(* The last missing packet: store_file, and the tables are cleared.        *)
ReceiveLast(m) ==
    /\ Listening(m)
    /\ m.type = "packet"
    /\ ~file_saved[m.file]
    /\ StoredWith(m) = Packets(m.file)
    /\ expanded' = [expanded EXCEPT ![m.file] = TRUE]
    /\ disk' = [disk EXCEPT ![m.file] = DatasWith(m)]
    /\ stored_packet' = [stored_packet EXCEPT ![m.file] = {}]
    /\ datas' = [datas EXCEPT ![m.file] = NoPieces(m.file)]
    /\ file_saved' = [file_saved EXCEPT ![m.file] = TRUE]
    /\ \E rest \in Taken(m) : AckRound(rest)
    /\ UNCHANGED <<clientVars, faultVars>>

(* Nothing came for SRV_TIMEOUT after a packet.  When nothing comes after a*)
(* round, the outer recvfrom, the server only waits again.                 *)
Timeout ==
    /\ server = "inner"
    /\ UNCHANGED <<expanded, stored_packet, datas, file_saved, disk>>
    /\ AckRound(net)
    /\ UNCHANGED <<clientVars, faultVars>>

(* Forever.                                                                *)
SendFinish ==
    /\ server = "finish"
    /\ net' = net \cup {Ack(FINISH, {})}
    /\ UNCHANGED <<serverVars, clientVars, faultVars>>

----------------------------------------------------------------------------
(* The link.                                                               *)

Cut(piece) == [file |-> piece.file, num |-> piece.num, whole |-> FALSE]

Damage(m) ==
    IF m.type = "packet"
      THEN [covered |-> {[type |-> "garbled"]},
            length |-> {[type |-> "packet", file |-> m.file, num |-> m.num, data |-> Cut(m.data)]},
            ack |-> {}]
      ELSE [covered |-> {},
            length |-> {},
            ack |-> {[type |-> "ack", file |-> g, stored |-> m.stored] :
                        g \in Files \cup {FINISH, NoSuchFile}}
                    \cup {[type |-> "ack", file |-> m.file, stored |-> s] :
                        s \in SUBSET (0..(MaxPackets - 1))}]

Corrupt(m) ==
    /\ m \in net
    /\ m.type # "garbled"
    /\ \E k \in Corruptible :
          /\ hurt[k] < MaxCorruptions
          /\ \E d \in Damage(m)[k] : net' = (net \ {m}) \cup {d}
          /\ hurt' = [hurt EXCEPT ![k] = @ + 1]
    /\ UNCHANGED <<serverVars, clientVars, losses>>

(* With all its copies.                                                    *)
Lose(m) ==
    /\ m \in net
    /\ losses < MaxLosses
    /\ net' = net \ {m}
    /\ losses' = losses + 1
    /\ UNCHANGED <<serverVars, clientVars, hurt>>

----------------------------------------------------------------------------
Receive(m) ==
    \/ ReceiveAck(m) \/ ReceiveFinish(m) \/ ReceiveWrongFile(m)
    \/ ReceiveGarbled(m) \/ ReceiveStale(m) \/ ReceivePart(m) \/ ReceiveLast(m)

Next ==
    \/ init_send \/ EndInit \/ Timeout \/ SendFinish
    \/ \E m \in net : Receive(m) \/ Corrupt(m) \/ Lose(m)

Spec == Init /\ [][Next]_vars

(* The processes run and the link delivers what it neither loses nor       *)
(* corrupts.                                                               *)
FairSpec ==
    /\ Spec
    /\ WF_vars(init_send) /\ WF_vars(EndInit) /\ WF_vars(Timeout) /\ WF_vars(SendFinish)
    /\ \A m \in Datagram : WF_vars(Receive(m))

----------------------------------------------------------------------------
(* Properties.                                                             *)

(* A file the server counts as saved is on its disk, complete, every piece *)
(* at its place, whatever was lost, repeated, garbled or came late; unless *)
(* a length was corrupted, which the checksum does not cover.              *)
SavedFilesAreIntact ==
    hurt["length"] = 0 =>
        \A f \in Files : IF file_saved[f] THEN disk[f] = Original[f] ELSE disk[f] = NoFile

(* An acknowledgement never claims more than the server has: the client    *)
(* skips for good what it is told is stored.                               *)
AcksAreTrue ==
    hurt["ack"] = 0 =>
        \A m \in net : m.type = "ack" /\ m.file \in Files /\ ~file_saved[m.file] =>
            m.stored \subseteq stored_packet[m.file]

(* The client ends only when every file is saved, and never for want of a  *)
(* file, unless an acknowledgement was corrupted: they have no checksum.   *)
EndedMeansSaved ==
    hurt["ack"] = 0 =>
        /\ client = "done" => \A f \in Files : file_saved[f]
        /\ client # "quit"

(* A file is written once: a late or repeated packet never reopens it.     *)
SavedOnce == [][\A f \in Files : disk[f] # NoFile => disk'[f] = disk[f]]_vars

Promise == INSTANCE FileTransfer WITH ended <- (client = "done")

(* Without corruption that the code does not look for, the pair implements *)
(* the promise.                                                            *)
ImplementsTransfer == Promise!Spec

(* On a link that loses nothing, whatever it garbles, repeats and reorders,*)
(* the transfer ends, if the first burst held any packet at all.           *)
LosslessEnds ==
    (\E f \in Files : f < InitSend /\ Packets(f) \ junk # {}) => <>(client = "done")

(* The transfer ends, on a link that loses, too.                           *)
TransferEnds == <>(client = "done")
============================================================================
