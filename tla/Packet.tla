------------------------------- MODULE Packet -------------------------------
(***************************************************************************)
(* Packets as they cross the air: the constructor of an ACK, the identity  *)
(* of a packet, and the two directions of its encoding, Packet::to_frame() *)
(* and Packet::from_frame(), byte by byte.                                 *)
(*                                                                         *)
(* A packet is a record with the fields its type uses.  `length' counts    *)
(* the elements of the variable part (bytes of content, ACK entries,       *)
(* edges), as Packet::length does.  to_frame() fills a buffer of 256 bytes *)
(* through an index of 8 bits: Fits says when that index never wraps and   *)
(* nothing is written past the buffer, and To_frame is what it sends then. *)
(***************************************************************************)
EXTENDS Naturals, Sequences

Byte == 0..255

\* Packet::Type, for the types that are sent.
TypeCode == [Data |-> 1, Ack |-> 3, NodeBroadcast |-> 254, EdgeDrop |-> 253, Graph |-> 251]

\* RemoteParameters: one entry of an ACK.
Word == {n \in Nat : n < 2^16}
RemoteParameters == [hop : Byte, delay : Word, errors : Byte, retries : Byte]

\* The constructor of an ACK for data packet p: it goes back to the last node visited.
AckOf(p, self, status) ==
  [type |-> "Ack", destination |-> IF p.visited = <<>> THEN p.source
                                   ELSE p.visited[Len(p.visited)],
   source |-> self, packet_id |-> p.packet_id, origin |-> p.source, status |-> status,
   parameters |-> <<>>]

\* Bitwise `or' of two bytes.
Or(a, b) ==
  LET bit(i) == IF (a \div 2^i) % 2 = 1 \/ (b \div 2^i) % 2 = 1 THEN 2^i ELSE 0
  IN bit(0) + bit(1) + bit(2) + bit(3) + bit(4) + bit(5) + bit(6) + bit(7)

\* The four bytes of an ACK entry.  `retries << 4 >> 4' is computed in an int, so the
\* upper half of retries is not cut off and mixes with errors.
Counts(e) == Or((16 * e.errors) % 256, e.retries)
EntryBytes(e) == <<e.hop, e.delay \div 256, e.delay % 256, Counts(e)>>

\* The same on arrival: again nothing is cut off, and retries gets the whole byte.
\* Mutant: the low byte of the delay overwrites the high one.
EntryOf_LowByte(b, i) ==
  [hop |-> b[i], delay |-> b[i + 2], errors |-> b[i + 3] \div 16, retries |-> b[i + 3]]
EntryOf(b, i) == [hop |-> b[i], delay |-> b[i + 1] * 256 + b[i + 2],
                  errors |-> b[i + 3] \div 16, retries |-> b[i + 3]]

\* The part of a packet whose size varies.
Variable(p) ==
  CASE p.type = "Data"  -> p.visited \o p.content
    [] p.type = "Ack"   -> [k \in 1..4 * Len(p.parameters) |->
                             EntryBytes(p.parameters[(k - 1) \div 4 + 1])[((k - 1) % 4) + 1]]
    [] p.type = "Graph" -> [k \in 1..2 * Len(p.edges) |->
                             p.edges[(k - 1) \div 2 + 1][((k - 1) % 2) + 1]]
    [] OTHER            -> <<>>

\* Packet::to_frame(), for a packet that fits: the bytes it writes, one after another.
To_frame(p) == <<TypeCode[p.type]>> \o
  (CASE p.type = "Data" ->
          <<p.destination, p.source, p.packet_id, p.port, Len(p.visited)>>
     [] p.type = "Ack" -> <<p.destination, p.source, p.packet_id, p.origin, p.status>>
     [] p.type = "NodeBroadcast" -> <<p.address>>
     [] p.type = "EdgeDrop" -> p.edge
     [] OTHER -> <<>>) \o Variable(p)

\* How many they are for a data packet.
DataSize(visited, length) == 6 + visited + length

\* The index, and with it Frame::length, has 8 bits.
Fits(size) == size < 256

\* The packets of each type that fit.
DataPackets == [type : {"Data"}, destination : Byte, source : Byte, packet_id : Byte,
                port : Byte, visited : Seq(Byte), content : Seq(Byte)]
Acks == [type : {"Ack"}, destination : Byte, source : Byte, packet_id : Byte, origin : Byte,
         status : Byte, parameters : Seq(RemoteParameters)]
NodeBroadcasts == [type : {"NodeBroadcast"}, address : Byte]
EdgeDrops == [type : {"EdgeDrop"}, edge : Byte \X Byte]
Graphs == [type : {"Graph"}, edges : Seq(Byte \X Byte)]
Packets ==
  {p \in DataPackets : Fits(DataSize(Len(p.visited), Len(p.content)))}
    \cup {p \in Acks : Fits(6 + 4 * Len(p.parameters))} \cup NodeBroadcasts \cup EdgeDrops
    \cup {p \in Graphs : Fits(1 + 2 * Len(p.edges))}

\* Packet::from_frame(), for the data of a frame that to_frame() made.
From_frame(b) ==
  CASE b[1] = TypeCode.Data ->
         [type |-> "Data", destination |-> b[2], source |-> b[3], packet_id |-> b[4],
          port |-> b[5], visited |-> SubSeq(b, 7, 6 + b[6]),
          content |-> SubSeq(b, 7 + b[6], Len(b))]
    [] b[1] = TypeCode.Ack ->
         [type |-> "Ack", destination |-> b[2], source |-> b[3], packet_id |-> b[4],
          origin |-> b[5], status |-> b[6],
          parameters |-> [i \in 1..(Len(b) - 6) \div 4 |-> EntryOf(b, 3 + 4 * i)]]
    [] b[1] = TypeCode.NodeBroadcast -> [type |-> "NodeBroadcast", address |-> b[2]]
    [] b[1] = TypeCode.EdgeDrop -> [type |-> "EdgeDrop", edge |-> <<b[2], b[3]>>]
    [] b[1] = TypeCode.Graph ->
         [type |-> "Graph", edges |-> [i \in 1..(Len(b) - 1) \div 2 |->
                                        <<b[2 * i], b[2 * i + 1]>>]]

\* What becomes of an ACK entry on its way: errors and retries are both read from the
\* byte they share.  Nothing else of a packet changes.
Arriving(e) == [e EXCEPT !.errors = Counts(e) \div 16, !.retries = Counts(e)]
Arrived(p) == IF p.type # "Ack" THEN p
              ELSE [p EXCEPT !.parameters =
                      [i \in 1..Len(p.parameters) |-> Arriving(p.parameters[i])]]

=============================================================================
