-------------------------------- MODULE Frame -------------------------------
(***************************************************************************)
(* Frames between the router and its radio: Frame::serialize() and         *)
(* Frame::unserialize(), byte by byte.                                     *)
(*                                                                         *)
(* A frame is a record of its type (a byte), its header (the bytes of the  *)
(* packed struct that precede the data pointer, in the order they have in  *)
(* memory, which is the order on the wire) and its data.                   *)
(***************************************************************************)
EXTENDS Naturals, Sequences

\* Frame::Type
ModemStatus == 138
Command == 8
CommandResponse == 136
RemoteCommand == 23
RemoteCommandResponse == 151
Transmit == 16
ExplicitTransmit == 17
Status == 139
Receive == 144
ExplicitReceive == 145
CommandQueue == 9

\* Size of each packed struct without its data pointer.
Width(type) ==
  CASE type = ModemStatus -> 1
    [] type \in {Command, CommandQueue} -> 3
    [] type = CommandResponse -> 4
    [] type \in {RemoteCommand, RemoteCommandResponse} -> 14
    [] type = Transmit -> 13
    [] type = ExplicitTransmit -> 19
    [] type = Status -> 6
    [] type = Receive -> 11
    [] type = ExplicitReceive -> 17
    [] OTHER -> 0

\* Types whose struct ends with a pointer to data.
WithData == {Command, CommandQueue, CommandResponse, RemoteCommand, RemoteCommandResponse,
             Transmit, ExplicitTransmit, Receive, ExplicitReceive}
Types == WithData \cup {ModemStatus, Status}

Frames == {f \in [type : Types, header : Seq(0..255), data : Seq(0..255)] :
             /\ Len(f.header) = Width(f.type)
             /\ f.type \notin WithData => f.data = <<>>}

\* 0xff - the sum of the bytes, in 8 bits (added up by halves, for the depth of TLC's stack).
Checksum(b) ==
  LET sum[part \in (1..Len(b)) \X (1..Len(b))] ==
        LET i == part[1]
            j == part[2]
            half == (i + j) \div 2
        IN IF i = j THEN b[i] ELSE sum[<<i, half>>] + sum[<<half + 1, j>>]
  IN 255 - (sum[<<1, Len(b)>>] % 256)

\* Start byte, length, content, checksum.
Wrapped(content) ==
  <<126, (Len(content) \div 256) % 256, Len(content) % 256>> \o content
    \o <<Checksum(content)>>

\* What the two bytes of the length can hold.
LengthLimit == 65536
Fitting(f) == Len(f.header) + Len(f.data) + 1 < LengthLimit

\* Frame::serialize()
\* Mutant: the type byte is not counted as data.
Serialize_NoType(f) == Wrapped(f.header \o f.data)
Serialize(f) == Wrapped(<<f.type>> \o f.header \o f.data)

\* The number of bytes of the frame whose first bytes are b.
FrameSize(b) == 256 * b[2] + b[3] + 4

\* Frame::unserialize() of the bytes of one frame.  The checksum is stored and compared
\* with nothing; of an unknown type only the length is kept.
Unserialize(b) ==
  LET last == FrameSize(b) - 1
      type == b[4]
      w == Width(type)
  IN [type |-> type, header |-> SubSeq(b, 5, 4 + w),
      data |-> IF type \in WithData THEN SubSeq(b, 5 + w, last) ELSE <<>>]

\* unserialize() is defined if the length covers the struct: what is left of it is
\* unsigned.
Covers(b) == FrameSize(b) - 5 >= Width(b[4])

=============================================================================
