-------------------------- MODULE RobustUdpProofs --------------------------
(***************************************************************************)
(* Proofs about RobustUdp, for every number of files, packets, losses and  *)
(* corruptions.                                                            *)
(***************************************************************************)
EXTENDS RobustUdp, TLAPS

USE DEF Files, Packets

(* The tables are indexed by the files.                                    *)
Tables ==
    /\ stored_packet = [f \in Files |-> stored_packet[f]]
    /\ datas = [f \in Files |-> datas[f]]
    /\ disk = [f \in Files |-> disk[f]]

TypeInv == TypeOK /\ Tables

(* What is on the way and what is stored comes from the file.              *)
PiecesAreTrue ==
    hurt["length"] = 0 =>
        /\ \A m \in net : m.type = "packet" => m.data = Piece(m.file, m.num)
        /\ \A f \in Files : \A i \in stored_packet[f] : datas[f][i] = Piece(f, i)

UnsavedIsNotOnDisk == \A f \in Files : ~file_saved[f] => disk[f] = NoFile

ContentInv == PiecesAreTrue /\ UnsavedIsNotOnDisk /\ SavedFilesAreIntact

(* The server ends only when all is saved, and says so only then.          *)
FinishIsTrue ==
    /\ server = "finish" => \A f \in Files : file_saved[f]
    /\ hurt["ack"] = 0 =>
          \A m \in net : m.type = "ack" =>
              /\ m.file # NoSuchFile
              /\ m.file = FINISH => \A f \in Files : file_saved[f]

AckInv == FinishIsTrue /\ AcksAreTrue /\ EndedMeansSaved

IInv == TypeInv /\ ContentInv /\ AckInv

----------------------------------------------------------------------------
(* Datagrams.                                                              *)

(* The three shapes a datagram has.                                        *)
LEMMA Shapes ==
    ASSUME NEW m \in Datagram
    PROVE \/ /\ m.type = "packet" /\ m.file \in Files /\ m.num \in Packets(m.file)
             /\ m.data \in Pieces
             /\ m = [type |-> "packet", file |-> m.file, num |-> m.num, data |-> m.data]
          \/ m = [type |-> "garbled"]
          \/ /\ m.type = "ack" /\ m.file \in Files \cup {FINISH, NoSuchFile}
             /\ m.stored \in SUBSET (0..(MaxPackets - 1))
             /\ m = [type |-> "ack", file |-> m.file, stored |-> m.stored]
  BY DEF Datagram

LEMMA PacketIsDatagram ==
    ASSUME NEW f \in Files, NEW i \in Packets(f), NEW d \in Pieces
    PROVE [type |-> "packet", file |-> f, num |-> i, data |-> d] \in Datagram
  BY DEF Datagram

LEMMA AckIsDatagram ==
    ASSUME NEW f \in Files \cup {FINISH, NoSuchFile}, NEW s \in SUBSET (0..(MaxPackets - 1))
    PROVE [type |-> "ack", file |-> f, stored |-> s] \in Datagram
  BY DEF Datagram

LEMMA PieceIsOne ==
    ASSUME NEW f \in Files, NEW i \in Packets(f)
    PROVE Piece(f, i) \in Pieces
  BY DEF Piece, Pieces

(* The client sends the pieces of the file at their places.                *)
LEMMA PacketsAreTrue ==
    ASSUME NEW f \in Files, NEW skip, NEW m \in PacketsOf(f, skip)
    PROVE m \in Datagram /\ m.type = "packet" /\ m.data = Piece(m.file, m.num)
<1>1. PICK i \in Packets(f) :
          m = [type |-> "packet", file |-> f, num |-> i, data |-> Piece(f, i)]
  BY DEF PacketsOf
<1>2. m \in Datagram
  BY <1>1, PieceIsOne, PacketIsDatagram
<1> QED
  BY <1>1, <1>2

(* What a round of acknowledgements adds, and when it ends the server.     *)
LEMMA RoundAdds ==
    ASSUME NEW rest, AckRound(rest)
    PROVE /\ server' \in {"outer", "finish"}
          /\ server' = "finish" => \A f \in Files : file_saved'[f]
          /\ \A d \in net' : \/ d \in rest
                             \/ \E f \in Files : d = Ack(f, stored_packet'[f])
<1>1. Window(file_saved') \subseteq Files
  BY DEF Window
<1> QED
  BY <1>1 DEF AckRound

(* The same of the step of a server that received m.                       *)
LEMMA RoundAfter ==
    ASSUME NEW m, \E rest \in Taken(m) : AckRound(rest)
    PROVE /\ server' \in {"outer", "finish"}
          /\ server' = "finish" => \A f \in Files : file_saved'[f]
          /\ \A d \in net' : \/ d \in net
                             \/ \E f \in Files : d = Ack(f, stored_packet'[f])
<1>1. PICK rest \in Taken(m) : AckRound(rest)
  OBVIOUS
<1>2. rest \subseteq net
  BY DEF Taken
<1> QED
  BY <1>1, <1>2, RoundAdds

(* The client's step: it sends packets of a file.                          *)
LEMMA SendAdds ==
    ASSUME NEW f \in Files, NEW skip, NEW rest, send_file(f, skip, rest), rest \subseteq net
    PROVE \A d \in net' :
              \/ d \in net
              \/ d \in Datagram /\ d.type = "packet" /\ d.data = Piece(d.file, d.num)
<1>1. PICK more : net' = rest \cup PacketsOf(f, skip \cup more)
  BY DEF send_file
<1> QED
  BY <1>1, PacketsAreTrue

----------------------------------------------------------------------------
(* Types.                                                                  *)

LEMMA AckTyped ==
    ASSUME NEW f \in Files \cup {FINISH}, NEW s
    PROVE Ack(f, s) \in Datagram
  BY AckIsDatagram DEF Ack

LEMMA DatasTyped ==
    ASSUME TypeInv, NEW m \in Datagram, m.type = "packet"
    PROVE /\ m.file \in Files /\ m.num \in Packets(m.file) /\ m.data \in Pieces
          /\ StoredWith(m) \subseteq Packets(m.file)
          /\ DatasWith(m) \in [Packets(m.file) -> Pieces \cup {NoPiece}]
          /\ \A i \in Packets(m.file) :
                DatasWith(m)[i] = IF i = m.num /\ i \notin stored_packet[m.file]
                                    THEN m.data ELSE datas[m.file][i]
<1>1. m.file \in Files /\ m.num \in Packets(m.file) /\ m.data \in Pieces
  BY Shapes
<1>2. datas[m.file] \in [Packets(m.file) -> Pieces \cup {NoPiece}]
      /\ stored_packet[m.file] \subseteq Packets(m.file)
  BY <1>1 DEF TypeInv, TypeOK
<1>3. StoredWith(m) \subseteq Packets(m.file)
  BY <1>1, <1>2 DEF StoredWith
<1> HIDE DEF Files, Packets
<1> QED
  BY <1>1, <1>2, <1>3 DEF DatasWith

(* Damage leaves a datagram a datagram.                                    *)
LEMMA DamageTyped ==
    ASSUME NEW m \in Datagram, m.type # "garbled", NEW k \in Kinds, NEW d \in Damage(m)[k]
    PROVE /\ d \in Datagram
          /\ d.type = "packet" => k = "length"
          /\ d.type = "ack" => k = "ack"
<1>1. CASE m.type = "packet"
  <2>1. m.file \in Files /\ m.num \in Packets(m.file) /\ m.data \in Pieces
    BY <1>1, Shapes
  <2>2. CASE k = "covered"
    BY <1>1, <2>2 DEF Damage, Datagram
  <2>3. CASE k = "length"
    <3>1. d = [type |-> "packet", file |-> m.file, num |-> m.num, data |-> Cut(m.data)]
      BY <1>1, <2>3 DEF Damage
    <3>2. Cut(m.data) \in Pieces
      BY <2>1 DEF Cut, Pieces
    <3> QED
      BY <2>1, <2>3, <3>1, <3>2, PacketIsDatagram
  <2>4. CASE k = "ack"
    BY <1>1, <2>4 DEF Damage
  <2> QED
    BY <2>2, <2>3, <2>4 DEF Kinds
<1>2. CASE m.type = "ack"
  <2>1. m.file \in Files \cup {FINISH, NoSuchFile} /\ m.stored \in SUBSET (0..(MaxPackets - 1))
    BY <1>2, Shapes
  <2>2. k = "ack"
    BY <1>2 DEF Damage, Kinds
  <2>3. \E g \in Files \cup {FINISH, NoSuchFile}, s \in SUBSET (0..(MaxPackets - 1)) :
            d = [type |-> "ack", file |-> g, stored |-> s]
    BY <1>2, <2>1, <2>2 DEF Damage
  <2> QED
    BY <2>2, <2>3, AckIsDatagram
<1> QED
  BY <1>1, <1>2, Shapes

LEMMA InitType == Init => TypeInv
<1> HIDE DEF Files, Packets
<1> SUFFICES ASSUME Init PROVE TypeInv
  OBVIOUS
<1>1. Tables
  BY DEF Init, Tables
<1>2. \A k \in Kinds : hurt[k] \in 0..MaxCorruptions
  BY SizesAreNat DEF Init
<1>3. sent \in 0..InitSend /\ losses \in 0..MaxLosses
  BY SizesAreNat DEF Init
<1>4. \A f \in Files : datas[f] \in [Packets(f) -> Pieces \cup {NoPiece}]
  BY DEF Init, NoPieces
<1>5. hurt \in [Kinds -> 0..MaxCorruptions]
  BY <1>2 DEF Init
<1> QED
  BY <1>1, <1>3, <1>4, <1>5 DEF Init, TypeInv, TypeOK

(* The table of one file changes to something of its type.                 *)
LEMMA TablesTyped ==
    ASSUME TypeInv, NEW f \in Files, NEW s, NEW d,
           s \subseteq Packets(f), d \in [Packets(f) -> Pieces \cup {NoPiece}],
           stored_packet' = [stored_packet EXCEPT ![f] = s],
           datas' = [datas EXCEPT ![f] = d]
    PROVE /\ stored_packet' = [g \in Files |-> IF g = f THEN s ELSE stored_packet[g]]
          /\ datas' = [g \in Files |-> IF g = f THEN d ELSE datas[g]]
          /\ \A g \in Files : /\ stored_packet'[g] \subseteq Packets(g)
                              /\ datas'[g] \in [Packets(g) -> Pieces \cup {NoPiece}]
<1> HIDE DEF Files, Packets
<1>1. stored_packet' = [g \in Files |-> IF g = f THEN s ELSE stored_packet[g]]
  BY DEF TypeInv, Tables
<1>2. datas' = [g \in Files |-> IF g = f THEN d ELSE datas[g]]
  BY DEF TypeInv, Tables
<1> QED
  BY <1>1, <1>2 DEF TypeInv, TypeOK

LEMMA TypeStep ==
    ASSUME TypeInv, [Next]_vars
    PROVE TypeInv'
<1> HIDE DEF Files, Packets
<1> USE DEF TypeInv, Tables
<1>1. CASE init_send
  <2>1. sent \in Files
    BY <1>1, SizesAreNat DEF init_send, TypeOK, Files
  <2>2. net' \subseteq Datagram
    <3>1. send_file(sent, junk, net) /\ net \subseteq net
      BY <1>1 DEF init_send
    <3>2. \A d \in net' : d \in net \/ d \in Datagram
      BY <2>1, <3>1, SendAdds
    <3>3. net \subseteq Datagram
      BY DEF TypeOK
    <3> QED
      BY <3>2, <3>3
  <2>3. sent' \in 0..InitSend
    BY <1>1, SizesAreNat DEF init_send, TypeOK
  <2> QED
    BY <1>1, <2>2, <2>3 DEF init_send, TypeOK, serverVars, faultVars
<1>2. CASE EndInit
  BY <1>2 DEF EndInit, TypeOK, serverVars, faultVars
<1>3. CASE Timeout
  <2>1. \A d \in net' : d \in net \/ \E f \in Files : d = Ack(f, stored_packet'[f])
    BY <1>3, RoundAdds DEF Timeout
  <2>2. net' \subseteq Datagram
    BY <2>1, AckTyped DEF TypeOK
  <2>3. server' \in {"outer", "finish"}
    BY <1>3, RoundAdds DEF Timeout
  <2> QED
    BY <1>3, <2>2, <2>3 DEF Timeout, TypeOK, clientVars, faultVars
<1>4. CASE SendFinish
  <2>1. net' \subseteq Datagram
    <3>1. Ack(FINISH, {}) \in Datagram
      BY AckTyped
    <3>2. net \subseteq Datagram
      BY DEF TypeOK
    <3> QED
      BY <1>4, <3>1, <3>2 DEF SendFinish
  <2> QED
    BY <1>4, <2>1 DEF SendFinish, TypeOK, serverVars, clientVars, faultVars
<1>5. ASSUME NEW m \in net, ReceiveAck(m)
      PROVE TypeInv'
  <2>1. net' \subseteq Datagram
    <3>1. PICK rest \in Taken(m) : send_file(m.file, m.stored, rest)
      BY <1>5 DEF ReceiveAck
    <3>2. rest \subseteq net
      BY <3>1 DEF Taken
    <3> QED
      BY <1>5, <3>1, <3>2, SendAdds DEF ReceiveAck, TypeOK
  <2> QED
    BY <1>5, <2>1 DEF ReceiveAck, TypeOK, serverVars, clientVars, faultVars
<1>6. ASSUME NEW m \in net, ReceiveFinish(m) \/ ReceiveWrongFile(m)
      PROVE TypeInv'
  <2>1. net' \subseteq Datagram
    BY <1>6 DEF ReceiveFinish, ReceiveWrongFile, Taken, TypeOK
  <2> QED
    BY <1>6, <2>1 DEF ReceiveFinish, ReceiveWrongFile, TypeOK, serverVars, faultVars
<1>7. ASSUME NEW m \in net, ReceiveGarbled(m) \/ ReceiveStale(m)
      PROVE TypeInv'
  <2>0. \E rest \in Taken(m) : AckRound(rest)
    BY <1>7 DEF ReceiveGarbled, ReceiveStale
  <2>1. net' \subseteq Datagram
    BY <2>0, RoundAfter, AckTyped DEF TypeOK
  <2>2. server' \in {"outer", "finish"}
    BY <2>0, RoundAfter
  <2> QED
    BY <1>7, <2>1, <2>2 DEF ReceiveGarbled, ReceiveStale, TypeOK, clientVars, faultVars
<1>8. ASSUME NEW m \in net, ReceivePart(m)
      PROVE TypeInv'
  <2>1. m \in Datagram /\ m.type = "packet"
    BY <1>8 DEF ReceivePart, TypeOK
  <2>2. /\ stored_packet' = [stored_packet EXCEPT ![m.file] = StoredWith(m)]
        /\ datas' = [datas EXCEPT ![m.file] = DatasWith(m)]
    BY <1>8 DEF ReceivePart
  <2>3. /\ Tables'
        /\ \A g \in Files : /\ stored_packet'[g] \subseteq Packets(g)
                            /\ datas'[g] \in [Packets(g) -> Pieces \cup {NoPiece}]
    BY <1>8, <2>1, <2>2, DatasTyped, TablesTyped DEF ReceivePart
  <2>4. expanded' \in [Files -> BOOLEAN]
    BY <1>8 DEF ReceivePart, TypeOK
  <2>5. net' \subseteq Datagram
    BY <1>8 DEF ReceivePart, Taken, TypeOK
  <2> QED
    BY <1>8, <2>3, <2>4, <2>5 DEF ReceivePart, TypeOK, clientVars, faultVars
<1>9. ASSUME NEW m \in net, ReceiveLast(m)
      PROVE TypeInv'
  <2>1. m \in Datagram /\ m.type = "packet"
    BY <1>9 DEF ReceiveLast, TypeOK
  <2>2. m.file \in Files /\ DatasWith(m) \in [Packets(m.file) -> Pieces \cup {NoPiece}]
    BY <2>1, DatasTyped
  <2>3. NoPieces(m.file) \in [Packets(m.file) -> Pieces \cup {NoPiece}]
    BY DEF NoPieces
  <2>4. /\ stored_packet' = [stored_packet EXCEPT ![m.file] = {}]
        /\ datas' = [datas EXCEPT ![m.file] = NoPieces(m.file)]
    BY <1>9 DEF ReceiveLast
  <2>5. /\ stored_packet' = [f \in Files |-> stored_packet'[f]]
        /\ datas' = [f \in Files |-> datas'[f]]
        /\ \A g \in Files : /\ stored_packet'[g] \subseteq Packets(g)
                            /\ datas'[g] \in [Packets(g) -> Pieces \cup {NoPiece}]
    <3>1. stored_packet' = [g \in Files |-> IF g = m.file THEN {} ELSE stored_packet[g]]
      BY <2>4
    <3>2. datas' = [g \in Files |-> IF g = m.file THEN NoPieces(m.file) ELSE datas[g]]
      BY <2>4
    <3> QED
      BY <2>2, <2>3, <3>1, <3>2 DEF TypeOK
  <2>6. disk' = [g \in Files |-> IF g = m.file THEN DatasWith(m) ELSE disk[g]]
    BY <1>9 DEF ReceiveLast
  <2>7. expanded' \in [Files -> BOOLEAN] /\ file_saved' \in [Files -> BOOLEAN]
    BY <1>9 DEF ReceiveLast, TypeOK
  <2>8. \E rest \in Taken(m) : AckRound(rest)
    BY <1>9 DEF ReceiveLast
  <2>9. net' \subseteq Datagram /\ server' \in {"outer", "finish"}
    BY <2>8, RoundAfter, AckTyped DEF TypeOK
  <2> QED
    BY <1>9, <2>2, <2>5, <2>6, <2>7, <2>9 DEF ReceiveLast, TypeOK, clientVars, faultVars
<1>10. ASSUME NEW m \in net, Corrupt(m)
       PROVE TypeInv'
  <2>1. PICK k \in Corruptible :
            /\ hurt[k] < MaxCorruptions
            /\ \E d \in Damage(m)[k] : net' = (net \ {m}) \cup {d}
            /\ hurt' = [hurt EXCEPT ![k] = @ + 1]
    BY <1>10 DEF Corrupt
  <2>2. net' \subseteq Datagram
    BY <1>10, <2>1, KindsOnly, DamageTyped DEF Corrupt, TypeOK
  <2>3. hurt' \in [Kinds -> 0..MaxCorruptions]
    BY <2>1, KindsOnly, SizesAreNat DEF TypeOK
  <2> QED
    BY <1>10, <2>2, <2>3 DEF Corrupt, TypeOK, serverVars, clientVars
<1>11. ASSUME NEW m \in net, Lose(m)
       PROVE TypeInv'
  <2>1. losses' \in 0..MaxLosses
    BY <1>11, SizesAreNat DEF Lose, TypeOK
  <2>2. net' \subseteq Datagram
    BY <1>11 DEF Lose, TypeOK
  <2> QED
    BY <1>11, <2>1, <2>2 DEF Lose, TypeOK, serverVars, clientVars
<1>12. CASE UNCHANGED vars
  BY <1>12 DEF vars, TypeOK, serverVars, clientVars, faultVars
<1> QED
  BY <1>1, <1>2, <1>3, <1>4, <1>5, <1>6, <1>7, <1>8, <1>9, <1>10, <1>11, <1>12
     DEF Next, Receive

----------------------------------------------------------------------------
(* What is stored and saved.                                               *)

(* A corruption that leaves a count at zero was of another kind.           *)
LEMMA CorruptAdds ==
    ASSUME TypeOK, NEW m \in net, Corrupt(m)
    PROVE /\ hurt'["length"] = 0 => /\ hurt["length"] = 0
                                    /\ \A d \in net' : d \in net \/ d.type # "packet"
          /\ hurt'["ack"] = 0 => /\ hurt["ack"] = 0
                                 /\ \A d \in net' : d \in net \/ d.type # "ack"
<1>1. PICK k \in Corruptible :
          /\ \E d \in Damage(m)[k] : net' = (net \ {m}) \cup {d}
          /\ hurt' = [hurt EXCEPT ![k] = @ + 1]
  BY DEF Corrupt
<1>2. PICK d \in Damage(m)[k] : net' = (net \ {m}) \cup {d}
  BY <1>1
<1>3. k \in Kinds /\ m \in Datagram /\ m.type # "garbled"
  BY KindsOnly DEF TypeOK, Corrupt
<1>4. (d.type = "packet" => k = "length") /\ (d.type = "ack" => k = "ack")
  BY <1>3, DamageTyped
<1>5. \A j \in Kinds : hurt'[j] = IF j = k THEN hurt[j] + 1 ELSE hurt[j]
  BY <1>1 DEF TypeOK
<1>6. \A j \in Kinds : hurt[j] \in Nat /\ (hurt'[j] = 0 => hurt[j] = 0 /\ j # k)
  BY <1>5, SizesAreNat DEF TypeOK
<1> QED
  BY <1>2, <1>4, <1>6 DEF Kinds

(* A step that leaves the tables and the disk alone.                       *)
LEMMA SameContent ==
    ASSUME ContentInv, UNCHANGED <<stored_packet, datas, file_saved, disk>>,
           hurt'["length"] = 0 =>
               /\ hurt["length"] = 0
               /\ \A d \in net' : d.type = "packet" => d \in net \/ d.data = Piece(d.file, d.num)
    PROVE ContentInv'
  BY DEF ContentInv, PiecesAreTrue, UnsavedIsNotOnDisk, SavedFilesAreIntact, Original, Piece

LEMMA InitContent == Init => ContentInv
<1> HIDE DEF Files, Packets
<1> QED
  BY DEF Init, ContentInv, PiecesAreTrue, UnsavedIsNotOnDisk, SavedFilesAreIntact, Kinds

(* What the table of m's file holds once m is stored.                      *)
LEMMA DatasAreTrue ==
    ASSUME TypeInv, PiecesAreTrue, hurt["length"] = 0, NEW m \in net, m.type = "packet"
    PROVE \A i \in StoredWith(m) : DatasWith(m)[i] = Piece(m.file, i)
<1> HIDE DEF Files, Packets
<1>1. m \in Datagram
  BY DEF TypeInv, TypeOK
<1>2. /\ m.file \in Files /\ m.num \in Packets(m.file)
      /\ StoredWith(m) \subseteq Packets(m.file)
      /\ \A i \in Packets(m.file) :
            DatasWith(m)[i] = IF i = m.num /\ i \notin stored_packet[m.file]
                                THEN m.data ELSE datas[m.file][i]
  BY <1>1, DatasTyped
<1>3. m.data = Piece(m.file, m.num)
  BY DEF PiecesAreTrue
<1>4. \A i \in stored_packet[m.file] : datas[m.file][i] = Piece(m.file, i)
  BY <1>2 DEF PiecesAreTrue
<1> QED
  BY <1>2, <1>3, <1>4 DEF StoredWith

LEMMA PartContent ==
    ASSUME TypeInv, TypeInv', ContentInv, NEW m \in net, ReceivePart(m)
    PROVE ContentInv'
<1> HIDE DEF Files, Packets
<1>1. m \in Datagram /\ m.type = "packet" /\ m.file \in Files
  BY Shapes DEF ReceivePart, TypeInv, TypeOK
<1>2. /\ \A f \in Files : stored_packet'[f] = IF f = m.file THEN StoredWith(m) ELSE stored_packet[f]
      /\ \A f \in Files : datas'[f] = IF f = m.file THEN DatasWith(m) ELSE datas[f]
  BY DEF ReceivePart, TypeInv, Tables
<1>3. net' \subseteq net /\ UNCHANGED <<file_saved, disk, hurt>>
  BY DEF ReceivePart, Taken, faultVars
<1>4. PiecesAreTrue'
  <2> SUFFICES ASSUME hurt["length"] = 0
               PROVE /\ \A d \in net' : d.type = "packet" => d.data = Piece(d.file, d.num)
                     /\ \A f \in Files : \A i \in stored_packet'[f] : datas'[f][i] = Piece(f, i)
    BY <1>3 DEF PiecesAreTrue, Piece
  <2>1. \A i \in StoredWith(m) : DatasWith(m)[i] = Piece(m.file, i)
    BY <1>1, DatasAreTrue DEF ContentInv
  <2> QED
    BY <1>2, <1>3, <2>1 DEF ContentInv, PiecesAreTrue
<1> QED
  BY <1>3, <1>4 DEF ContentInv, UnsavedIsNotOnDisk, SavedFilesAreIntact, Original, Piece

LEMMA LastContent ==
    ASSUME TypeInv, TypeInv', ContentInv, NEW m \in net, ReceiveLast(m)
    PROVE ContentInv'
<1> HIDE DEF Files, Packets
<1>1. m \in Datagram /\ m.type = "packet" /\ m.file \in Files
  BY Shapes DEF ReceiveLast, TypeInv, TypeOK
<1>2. /\ \A f \in Files : stored_packet'[f] = IF f = m.file THEN {} ELSE stored_packet[f]
      /\ \A f \in Files : datas'[f] = IF f = m.file THEN NoPieces(f) ELSE datas[f]
  BY DEF ReceiveLast, TypeInv, Tables
<1>3. /\ \A f \in Files : disk'[f] = IF f = m.file THEN DatasWith(m) ELSE disk[f]
      /\ \A f \in Files : file_saved'[f] = IF f = m.file THEN TRUE ELSE file_saved[f]
      /\ UNCHANGED hurt
  BY DEF ReceiveLast, TypeInv, TypeOK, Tables, faultVars
<1>4. PiecesAreTrue'
  <2> SUFFICES ASSUME hurt["length"] = 0
               PROVE /\ \A d \in net' : d.type = "packet" => d.data = Piece(d.file, d.num)
                     /\ \A f \in Files : \A i \in stored_packet'[f] : datas'[f][i] = Piece(f, i)
    BY <1>3 DEF PiecesAreTrue, Piece
  <2>1. \A d \in net' : d \in net \/ \E f \in Files : d = Ack(f, stored_packet'[f])
    BY RoundAfter DEF ReceiveLast
  <2>2. \A d \in net' : d.type = "packet" => d \in net
    BY <2>1 DEF Ack
  <2> QED
    BY <1>2, <2>2 DEF ContentInv, PiecesAreTrue
<1>5. UnsavedIsNotOnDisk'
  BY <1>3 DEF ContentInv, UnsavedIsNotOnDisk
<1>6. hurt["length"] = 0 => DatasWith(m) = Original[m.file]
  <2> SUFFICES ASSUME hurt["length"] = 0 PROVE DatasWith(m) = Original[m.file]
    OBVIOUS
  <2>1. \A i \in Packets(m.file) : DatasWith(m)[i] = Piece(m.file, i)
    BY <1>1, DatasAreTrue DEF ContentInv, ReceiveLast
  <2>2. DatasWith(m) \in [Packets(m.file) -> Pieces \cup {NoPiece}]
    BY <1>1, DatasTyped
  <2> QED
    BY <1>1, <2>1, <2>2 DEF Original
<1>7. SavedFilesAreIntact'
  <2> SUFFICES ASSUME hurt["length"] = 0, NEW f \in Files
               PROVE IF file_saved'[f] THEN disk'[f] = Original[f] ELSE disk'[f] = NoFile
    BY <1>3 DEF SavedFilesAreIntact, Original, Piece
  <2> QED
    BY <1>3, <1>6 DEF ContentInv, SavedFilesAreIntact
<1> QED
  BY <1>4, <1>5, <1>7 DEF ContentInv

(* The client's packets are true, and acknowledgements are not packets.    *)
LEMMA ContentStep ==
    ASSUME TypeInv, TypeInv', ContentInv, [Next]_vars
    PROVE ContentInv'
<1> HIDE DEF Files, Packets
<1>1. CASE init_send
  <2>1. send_file(sent, junk, net) /\ sent \in Files
    BY <1>1, SizesAreNat DEF init_send, TypeInv, TypeOK, Files
  <2>2. \A d \in net' : d \in net \/ d.data = Piece(d.file, d.num)
    BY <2>1, SendAdds
  <2> QED
    BY <1>1, <2>2, SameContent DEF init_send, serverVars, faultVars
<1>2. CASE EndInit
  BY <1>2, SameContent DEF EndInit, serverVars, faultVars
<1>3. CASE Timeout
  <2>1. \A d \in net' : d \in net \/ \E f \in Files : d = Ack(f, stored_packet'[f])
    BY <1>3, RoundAdds DEF Timeout
  <2>2. \A d \in net' : d.type = "packet" => d \in net
    BY <2>1 DEF Ack
  <2> QED
    BY <1>3, <2>2, SameContent DEF Timeout, faultVars
<1>4. CASE SendFinish
  <2>1. \A d \in net' : d.type = "packet" => d \in net
    BY <1>4 DEF SendFinish, Ack
  <2> QED
    BY <1>4, <2>1, SameContent DEF SendFinish, serverVars, faultVars
<1>5. ASSUME NEW m \in net, ReceiveAck(m)
      PROVE ContentInv'
  <2>1. PICK rest \in Taken(m) : send_file(m.file, m.stored, rest)
    BY <1>5 DEF ReceiveAck
  <2>2. rest \subseteq net /\ m.file \in Files
    BY <1>5, <2>1 DEF Taken, ReceiveAck
  <2>3. \A d \in net' : d \in net \/ d.data = Piece(d.file, d.num)
    BY <2>1, <2>2, SendAdds
  <2> QED
    BY <1>5, <2>3, SameContent DEF ReceiveAck, serverVars, faultVars
<1>6. ASSUME NEW m \in net, ReceiveFinish(m) \/ ReceiveWrongFile(m)
      PROVE ContentInv'
  <2>1. net' \subseteq net
    BY <1>6 DEF ReceiveFinish, ReceiveWrongFile, Taken
  <2> QED
    BY <1>6, <2>1, SameContent DEF ReceiveFinish, ReceiveWrongFile, serverVars, faultVars
<1>7. ASSUME NEW m \in net, ReceiveGarbled(m) \/ ReceiveStale(m)
      PROVE ContentInv'
  <2>1. \E rest \in Taken(m) : AckRound(rest)
    BY <1>7 DEF ReceiveGarbled, ReceiveStale
  <2>2. \A d \in net' : d \in net \/ \E f \in Files : d = Ack(f, stored_packet'[f])
    BY <2>1, RoundAfter
  <2>3. \A d \in net' : d.type = "packet" => d \in net
    BY <2>2 DEF Ack
  <2> QED
    BY <1>7, <2>3, SameContent DEF ReceiveGarbled, ReceiveStale, faultVars
<1>8. ASSUME NEW m \in net, ReceivePart(m) \/ ReceiveLast(m)
      PROVE ContentInv'
  BY <1>8, PartContent, LastContent
<1>9. ASSUME NEW m \in net, Corrupt(m)
      PROVE ContentInv'
  <2>1. hurt'["length"] = 0 => hurt["length"] = 0 /\ \A d \in net' : d \in net \/ d.type # "packet"
    BY <1>9, CorruptAdds DEF TypeInv
  <2> QED
    BY <1>9, <2>1, SameContent DEF Corrupt, serverVars
<1>10. ASSUME NEW m \in net, Lose(m)
       PROVE ContentInv'
  BY <1>10, SameContent DEF Lose, serverVars
<1>11. CASE UNCHANGED vars
  BY <1>11, SameContent DEF vars, serverVars, faultVars
<1> QED
  BY <1>1, <1>2, <1>3, <1>4, <1>5, <1>6, <1>7, <1>8, <1>9, <1>10, <1>11 DEF Next, Receive

----------------------------------------------------------------------------
(* What the acknowledgements say.                                          *)

LEMMA InitAck == Init => AckInv
  BY DEF Init, AckInv, FinishIsTrue, AcksAreTrue, EndedMeansSaved

(* Saved files stay saved, tables grow until their file is saved, and an   *)
(* acknowledgement that is sent says what the table holds.                 *)
LEMMA AcksStayTrue ==
    ASSUME AckInv,
           hurt'["ack"] = 0 =>
              /\ hurt["ack"] = 0
              /\ \A d \in net' : \/ d \in net \/ d.type # "ack"
                                 \/ \E f \in Files : d = Ack(f, stored_packet'[f])
                                 \/ d = Ack(FINISH, {}) /\ \A f \in Files : file_saved'[f],
           \A f \in Files : file_saved[f] => file_saved'[f],
           \A f \in Files : ~file_saved'[f] => stored_packet[f] \subseteq stored_packet'[f],
           server' = "finish" => \A f \in Files : file_saved'[f],
           hurt'["ack"] = 0 => (client' = "done" => \A f \in Files : file_saved'[f]),
           hurt'["ack"] = 0 => client' # "quit"
    PROVE AckInv'
<1> HIDE DEF Files
<1>1. \A f \in Files : \A s : Ack(f, s).type = "ack" /\ Ack(f, s).file = f /\ Ack(f, s).stored \subseteq s
  BY DEF Ack
<1>2. Ack(FINISH, {}).type = "ack" /\ Ack(FINISH, {}).file = FINISH
  BY DEF Ack
<1>3. FinishIsTrue'
  <2> SUFFICES ASSUME hurt'["ack"] = 0, NEW d \in net', d.type = "ack"
               PROVE /\ d.file # NoSuchFile
                     /\ d.file = FINISH => \A f \in Files : file_saved'[f]
    BY DEF FinishIsTrue
  <2>1. CASE d \in net
    BY <2>1 DEF AckInv, FinishIsTrue
  <2>2. CASE \E f \in Files : d = Ack(f, stored_packet'[f])
    BY <1>1, <2>2, NumbersDiffer
  <2>3. CASE d = Ack(FINISH, {}) /\ \A f \in Files : file_saved'[f]
    BY <1>2, <2>3, NumbersDiffer
  <2> QED
    BY <2>1, <2>2, <2>3
<1>4. AcksAreTrue'
  <2> SUFFICES ASSUME hurt'["ack"] = 0, NEW d \in net', d.type = "ack", d.file \in Files,
                      ~file_saved'[d.file]
               PROVE d.stored \subseteq stored_packet'[d.file]
    BY DEF AcksAreTrue
  <2>1. CASE d \in net
    BY <2>1 DEF AckInv, AcksAreTrue
  <2>2. CASE \E f \in Files : d = Ack(f, stored_packet'[f])
    BY <1>1, <2>2
  <2>3. CASE d = Ack(FINISH, {}) /\ \A f \in Files : file_saved'[f]
    BY <2>3
  <2> QED
    BY <2>1, <2>2, <2>3
<1>5. EndedMeansSaved'
  BY DEF EndedMeansSaved
<1> QED
  BY <1>3, <1>4, <1>5 DEF AckInv

LEMMA AckStep ==
    ASSUME TypeInv, TypeInv', AckInv, [Next]_vars
    PROVE AckInv'
<1> HIDE DEF Files, Packets
<1>a. /\ server = "finish" => \A f \in Files : file_saved[f]
      /\ hurt["ack"] = 0 => client # "quit"
      /\ hurt["ack"] = 0 => (client = "done" => \A f \in Files : file_saved[f])
  BY DEF AckInv, FinishIsTrue, EndedMeansSaved
<1>1. CASE init_send
  <2>1. send_file(sent, junk, net) /\ sent \in Files
    BY <1>1, SizesAreNat DEF init_send, TypeInv, TypeOK, Files
  <2>2. \A d \in net' : d \in net \/ d.type = "packet"
    BY <2>1, SendAdds
  <2> QED
    BY <1>1, <1>a, <2>2, AcksStayTrue DEF init_send, serverVars, faultVars
<1>2. CASE EndInit
  BY <1>2, <1>a, AcksStayTrue DEF EndInit, serverVars, faultVars
<1>3. CASE Timeout
  BY <1>3, <1>a, RoundAdds, AcksStayTrue DEF Timeout, clientVars, faultVars
<1>4. CASE SendFinish
  BY <1>4, <1>a, AcksStayTrue DEF SendFinish, serverVars, clientVars, faultVars
<1>5. ASSUME NEW m \in net, ReceiveAck(m)
      PROVE AckInv'
  <2>1. PICK rest \in Taken(m) : send_file(m.file, m.stored, rest)
    BY <1>5 DEF ReceiveAck
  <2>2. rest \subseteq net /\ m.file \in Files
    BY <1>5, <2>1 DEF Taken, ReceiveAck
  <2>3. \A d \in net' : d \in net \/ d.type = "packet"
    BY <2>1, <2>2, SendAdds
  <2> QED
    BY <1>5, <1>a, <2>3, AcksStayTrue DEF ReceiveAck, serverVars, clientVars, faultVars
<1>6. ASSUME NEW m \in net, ReceiveFinish(m)
      PROVE AckInv'
  <2>1. net' \subseteq net /\ m.type = "ack" /\ m.file = FINISH /\ client' = "done"
    BY <1>6 DEF ReceiveFinish, Taken
  <2>2. hurt["ack"] = 0 => \A f \in Files : file_saved[f]
    BY <2>1 DEF AckInv, FinishIsTrue
  <2> QED
    BY <1>6, <1>a, <2>1, <2>2, AcksStayTrue DEF ReceiveFinish, serverVars, faultVars
<1>7. ASSUME NEW m \in net, ReceiveWrongFile(m)
      PROVE AckInv'
  <2>1. net' \subseteq net /\ m.type = "ack" /\ m.file = NoSuchFile /\ client' = "quit"
    BY <1>7 DEF ReceiveWrongFile, Taken
  <2>2. hurt["ack"] # 0
    BY <2>1 DEF AckInv, FinishIsTrue
  <2> QED
    BY <1>7, <1>a, <2>1, <2>2, AcksStayTrue DEF ReceiveWrongFile, serverVars, faultVars
<1>8. ASSUME NEW m \in net, ReceiveGarbled(m) \/ ReceiveStale(m)
      PROVE AckInv'
  <2>1. \E rest \in Taken(m) : AckRound(rest)
    BY <1>8 DEF ReceiveGarbled, ReceiveStale
  <2> QED
    BY <1>8, <1>a, <2>1, RoundAfter, AcksStayTrue
       DEF ReceiveGarbled, ReceiveStale, clientVars, faultVars
<1>9. ASSUME NEW m \in net, ReceivePart(m)
      PROVE AckInv'
  <2>1. \A f \in Files : stored_packet[f] \subseteq stored_packet'[f]
    BY <1>9 DEF ReceivePart, StoredWith, TypeInv, Tables
  <2>2. net' \subseteq net /\ server' = "inner" /\ UNCHANGED <<file_saved, client, hurt>>
    BY <1>9 DEF ReceivePart, Taken, clientVars, faultVars
  <2> QED
    BY <1>a, <2>1, <2>2, AcksStayTrue
<1>10. ASSUME NEW m \in net, ReceiveLast(m)
       PROVE AckInv'
  <2>1. \E rest \in Taken(m) : AckRound(rest)
    BY <1>10 DEF ReceiveLast
  <2>2. m.file \in Files
    BY <1>10, Shapes DEF ReceiveLast, TypeInv, TypeOK
  <2>3. /\ \A f \in Files : file_saved'[f] = IF f = m.file THEN TRUE ELSE file_saved[f]
        /\ \A f \in Files : f # m.file => stored_packet'[f] = stored_packet[f]
        /\ UNCHANGED <<client, hurt>>
    BY <1>10, <2>2 DEF ReceiveLast, TypeInv, TypeOK, Tables, clientVars, faultVars
  <2> QED
    BY <1>a, <2>1, <2>2, <2>3, RoundAfter, AcksStayTrue
<1>11. ASSUME NEW m \in net, Corrupt(m)
       PROVE AckInv'
  <2>1. hurt'["ack"] = 0 => hurt["ack"] = 0 /\ \A d \in net' : d \in net \/ d.type # "ack"
    BY <1>11, CorruptAdds DEF TypeInv
  <2> QED
    BY <1>11, <1>a, <2>1, AcksStayTrue DEF Corrupt, serverVars, clientVars
<1>12. ASSUME NEW m \in net, Lose(m)
       PROVE AckInv'
  BY <1>12, <1>a, AcksStayTrue DEF Lose, serverVars, clientVars
<1>13. CASE UNCHANGED vars
  BY <1>13, <1>a, AcksStayTrue DEF vars, serverVars, clientVars, faultVars
<1> QED
  BY <1>1, <1>2, <1>3, <1>4, <1>5, <1>6, <1>7, <1>8, <1>9, <1>10, <1>11, <1>12, <1>13
     DEF Next, Receive

----------------------------------------------------------------------------
(* Theorems.                                                               *)

(* The inductive invariant.                                                *)
THEOREM IInvHolds == Spec => []IInv
<1>1. Init => IInv
  BY InitType, InitContent, InitAck DEF IInv
<1>2. IInv /\ [Next]_vars => IInv'
  BY TypeStep, ContentStep, AckStep DEF IInv
<1> QED
  BY <1>1, <1>2, PTL DEF Spec

(* Every variable keeps its type: no packet number leaves its file's table.*)
THEOREM TypeCorrect == Spec => []TypeOK
<1>1. IInv => TypeOK
  BY DEF IInv, TypeInv
<1> QED
  BY <1>1, IInvHolds, PTL

(* What the server counts as saved is on its disk as the client has it.    *)
THEOREM SavedIsIntact == Spec => []SavedFilesAreIntact
<1>1. IInv => SavedFilesAreIntact
  BY DEF IInv, ContentInv
<1> QED
  BY <1>1, IInvHolds, PTL

(* The server never acknowledges what it does not have.                    *)
THEOREM AcksTrue == Spec => []AcksAreTrue
<1>1. IInv => AcksAreTrue
  BY DEF IInv, AckInv
<1> QED
  BY <1>1, IInvHolds, PTL

(* The client ends only when the server has saved everything.              *)
THEOREM EndsSaved == Spec => []EndedMeansSaved
<1>1. IInv => EndedMeansSaved
  BY DEF IInv, AckInv
<1> QED
  BY <1>1, IInvHolds, PTL

(* A step that changes the disk stores one file, that was not saved.       *)
LEMMA DiskStep ==
    ASSUME IInv, [Next]_vars
    PROVE \/ UNCHANGED disk
          \/ \E f \in Files :
                /\ disk[f] = NoFile /\ file_saved'[f]
                /\ disk' = [disk EXCEPT ![f] = disk'[f]]
<1> HIDE DEF Files, Packets
<1>1. CASE ~ \E m \in net : ReceiveLast(m)
  BY <1>1 DEF Next, Receive, init_send, EndInit, Timeout, SendFinish, ReceiveAck, ReceiveFinish,
     ReceiveWrongFile, ReceiveGarbled, ReceiveStale, ReceivePart, Corrupt, Lose, vars, serverVars
<1>2. ASSUME NEW m \in net, ReceiveLast(m)
      PROVE \E f \in Files :
                /\ disk[f] = NoFile /\ file_saved'[f]
                /\ disk' = [disk EXCEPT ![f] = disk'[f]]
  <2>1. m.file \in Files
    BY <1>2, Shapes DEF ReceiveLast, IInv, TypeInv, TypeOK
  <2>2. disk[m.file] = NoFile /\ file_saved'[m.file]
    BY <1>2, <2>1 DEF ReceiveLast, IInv, ContentInv, UnsavedIsNotOnDisk, TypeInv, TypeOK
  <2>3. disk' = [disk EXCEPT ![m.file] = DatasWith(m)] /\ disk'[m.file] = DatasWith(m)
    BY <1>2, <2>1 DEF ReceiveLast, IInv, TypeInv, Tables
  <2> QED
    BY <2>1, <2>2, <2>3
<1> QED
  BY <1>1, <1>2

(* A file on the disk is never written again.                              *)
THEOREM WrittenOnce == Spec => SavedOnce
<1>1. IInv /\ [Next]_vars => [\A f \in Files : disk[f] # NoFile => disk'[f] = disk[f]]_vars
  <2> HIDE DEF Files, Packets
  <2> SUFFICES ASSUME IInv, [Next]_vars, NEW f \in Files, disk[f] # NoFile
               PROVE disk'[f] = disk[f]
    OBVIOUS
  <2>1. disk = [g \in Files |-> disk[g]]
    BY DEF IInv, TypeInv, Tables
  <2> QED
    BY <2>1, DiskStep
<1> QED
  BY <1>1, IInvHolds, PTL DEF Spec, SavedOnce

----------------------------------------------------------------------------
(* Refinement.                                                             *)

(* On a link that corrupts only what the checksum covers.                  *)
Unhurt == hurt["length"] = 0 /\ hurt["ack"] = 0

LEMMA UnhurtStep ==
    ASSUME Corruptible \subseteq {"covered"}, Unhurt, [Next]_vars
    PROVE Unhurt'
<1>1. CASE \E m \in net : Corrupt(m)
  BY <1>1 DEF Corrupt, Unhurt
<1>2. CASE ~ \E m \in net : Corrupt(m)
  BY <1>2 DEF Unhurt, Next, Receive, init_send, EndInit, Timeout, SendFinish, ReceiveAck,
     ReceiveFinish, ReceiveWrongFile, ReceiveGarbled, ReceiveStale, ReceivePart, ReceiveLast, Lose,
     vars, faultVars
<1> QED
  BY <1>1, <1>2

(* A step that changes what the promise sees is a step of the promise.     *)
LEMMA PromiseStep ==
    ASSUME IInv, IInv', Unhurt, Unhurt', [Next]_vars
    PROVE [Promise!Next]_<<disk, client = "done">>
<1> HIDE DEF Files, Packets
<1>1. \A f \in Files : IF file_saved'[f] THEN disk'[f] = Original[f] ELSE disk'[f] = NoFile
  <2>1. SavedFilesAreIntact'
    BY DEF IInv, ContentInv
  <2> QED
    BY <2>1 DEF SavedFilesAreIntact, Unhurt, Original, Piece
<1>2. CASE UNCHANGED <<disk, client>>
  BY <1>2
<1>3. CASE UNCHANGED disk /\ client' # client
  <2>1. (client = "done") => (client' = "done")
    BY <1>3 DEF Next, Receive, init_send, EndInit, Timeout, SendFinish, ReceiveAck, ReceiveFinish,
       ReceiveWrongFile, ReceiveGarbled, ReceiveStale, ReceivePart, ReceiveLast, Corrupt, Lose,
       vars, clientVars
  <2>2. CASE client' = "done"
    <3>1. \A f \in Files : file_saved'[f]
      BY <2>2 DEF IInv, AckInv, EndedMeansSaved, Unhurt
    <3>2. \A f \in Files : disk[f] = Original[f]
      BY <1>1, <1>3, <3>1
    <3> QED
      BY <1>3, <2>2, <3>2 DEF Promise!Next, Promise!End
  <2> QED
    BY <1>3, <2>1, <2>2
<1>4. CASE disk' # disk
  <2>1. PICK f \in Files : /\ disk[f] = NoFile /\ file_saved'[f]
                           /\ disk' = [disk EXCEPT ![f] = disk'[f]]
    BY <1>4, DiskStep
  <2>2. disk' = [disk EXCEPT ![f] = Original[f]]
    BY <1>1, <2>1
  <2>3. (client' = "done") = (client = "done")
    BY <1>4 DEF Next, Receive, init_send, EndInit, Timeout, SendFinish, ReceiveAck, ReceiveFinish,
       ReceiveWrongFile, ReceiveGarbled, ReceiveStale, ReceivePart, ReceiveLast, Corrupt, Lose,
       vars, serverVars, clientVars
  <2> QED
    BY <2>1, <2>2, <2>3 DEF Promise!Next, Promise!Save
<1> QED
  BY <1>2, <1>3, <1>4

(* When the link corrupts nothing but what the checksum covers, the pair   *)
(* of programs implements FileTransfer.                                    *)
THEOREM Implements ==
    ASSUME Corruptible \subseteq {"covered"}
    PROVE Spec => ImplementsTransfer
<1>1. Init => Unhurt /\ Promise!Init
  BY DEF Init, Unhurt, Kinds, Promise!Init
<1>2. Unhurt /\ [Next]_vars => Unhurt'
  BY UnhurtStep
<1>3. Spec => []Unhurt
  BY <1>1, <1>2, PTL DEF Spec
<1>4. IInv /\ IInv' /\ Unhurt /\ Unhurt' /\ [Next]_vars => [Promise!Next]_<<disk, client = "done">>
  BY PromiseStep
<1> QED
  BY <1>1, <1>3, <1>4, IInvHolds, PTL DEF Spec, ImplementsTransfer, Promise!Spec
============================================================================
