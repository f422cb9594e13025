-------------------------------- MODULE Serial ------------------------------
(***************************************************************************)
(* The serial line: class Xbee, what Router's constructor asks the radio,  *)
(* and the radio, as src/simulator answers it.                             *)
(*                                                                         *)
(* Bytes that the radio writes queue in `up'.  Only one thread reads, and  *)
(* Xbee::receive() keeps what it read to itself until a frame is complete: *)
(* it is one action.  Frames that the router writes queue in `down'; each  *)
(* is one write() under serial_mutex, and starts with the byte the radio   *)
(* looks for.                                                              *)
(*                                                                         *)
(* Two things put the reader out of step with the radio: the constructor   *)
(* flushes the port while the radio is writing a frame (`torn'), or the    *)
(* simulator fails to correct the length of a Receive frame (Forwarded).   *)
(* The model follows the reader as far as its buffer reaches.              *)
(***************************************************************************)
EXTENDS Frame, Packet, FiniteSets

CONSTANTS
  Answers,    \* what the radio answers to the commands in Gets
  Peers,      \* MACs, 8 bytes, that frames may come from
  Remains,    \* what tcflush() may leave over of a frame
  LineBound   \* how many frames the line to the radio holds

Script == <<"FR", "NI", "ID", "SL", "SH", "PL", "MT">>
Gets == {"NI", "ID", "SL", "SH"}
Letters == [FR |-> <<70, 82>>, NI |-> <<78, 73>>, ID |-> <<73, 68>>, SL |-> <<83, 76>>,
            SH |-> <<83, 72>>, PL |-> <<80, 76>>, MT |-> <<77, 84>>]

ASSUME SerialAssumption ==
  /\ Answers \in [Gets -> Seq(0..255)] /\ \A cmd \in Gets : Len(Answers[cmd]) + 5 < LengthLimit
  /\ Peers \subseteq [1..8 -> 0..255]
  /\ Remains \subseteq Seq(0..255)
  /\ LineBound \in Nat \ {0}

\* Packets that are not too long for a router that adds itself to `visited'.
Passing == {p \in Packets :
  p.type = "Data" => Fits(DataSize(Len(p.visited) + 1, Len(p.content)))}

\* What other routers send: frame id, MAC and packet of each frame.
IsTransmissions(t) ==
  /\ t \in Seq(Byte \X Peers \X Passing)
  /\ \A i \in 1..Len(t) : To_frame(t[i][3]) \in Seq(Byte)

VARIABLES
  step,      \* where Router's constructor is in Script
  waiting,   \* get() has sent its command
  self,      \* `network' and `mac' of self
  up, down,  \* the two directions of the line
  torn,      \* the reader starts in the middle of a frame
  traffic,   \* what the other routers still have to send
  \* history variables
  sent, taken,   \* frames the radio has sent, and frames receive() has returned
  aired,         \* packets the radio has forwarded
  said, heard    \* frames the router has sent, and frames the radio has understood

serial == <<step, waiting, self, up, down, torn, traffic, sent, taken, aired, said, heard>>
router == <<step, waiting, self>>
radio == <<torn, traffic, sent, aired, heard>>

SerialInit(transmissions) ==
  /\ traffic = transmissions
  /\ step = 1 /\ waiting = FALSE
  /\ self = [network |-> <<0, 0>>, mac |-> [i \in 1..8 |-> 0]]
  /\ up \in Remains /\ down = <<>> /\ torn = (up # <<>>)
  /\ sent = <<>> /\ taken = <<>> /\ aired = <<>> /\ said = <<>> /\ heard = <<>>

-----------------------------------------------------------------------------
(* Xbee *)

\* Xbee::send(): write() blocks while the line is full.
Write(f) ==
  /\ Len(down) < LineBound
  /\ down' = Append(down, Serialize(f))
  /\ said' = Append(said, f)

\* Xbee::receive() can return.  The first three bytes give the length, whatever they are;
\* the buffer has 300 bytes.
Complete(b) == Len(b) >= 4 /\ FrameSize(b) <= 300 /\ Len(b) >= FrameSize(b) /\ Covers(b)

\* It returns f.
Take(f) ==
  /\ up' = SubSeq(up, FrameSize(up) + 1, Len(up))
  /\ taken' = Append(taken, f)

\* Xbee::command()
CommandFrame(cmd) ==
  [type |-> Command, header |-> <<1>> \o Letters[cmd],
   data |-> IF cmd = "PL" THEN <<0>> ELSE IF cmd = "MT" THEN <<1>> ELSE <<>>]

\* What get() waits for.  strcmp() looks for the end of the string in the next byte, the
\* status: only an answer without an error has it.
\* Mutant: the next frame will do.
IsAnswer_Any(cmd, f) == TRUE
IsAnswer(cmd, f) ==
  Len(f.header) >= 4 /\ SubSeq(f.header, 2, 3) = Letters[cmd] /\ f.header[4] = 0

\* n bytes from b on; beyond its end, whatever the memory holds.
Stray == 256
Memory == Byte \cup {Stray}
InMemory(b, n) == [i \in 1..n |-> IF i <= Len(b) THEN b[i] ELSE Stray]

\* What the constructor makes of an answer.
\* Mutant: the lower half of the MAC is not shifted.
Learnt_Unshifted(cmd, b) ==
  CASE cmd = "ID" -> [self EXCEPT !.network = InMemory(b, 2)]
    [] cmd \in {"SL", "SH"} -> [self EXCEPT !.mac = InMemory(b, 4)]
    [] OTHER -> self
Learnt(cmd, b) ==
  CASE cmd = "ID" -> [self EXCEPT !.network = InMemory(b, 2)]
    [] cmd = "SL" -> [self EXCEPT !.mac = <<0, 0, 0, 0>> \o InMemory(b, 4)]
    [] cmd = "SH" -> [self EXCEPT !.mac = InMemory(b, 4) \o SubSeq(@, 5, 8)]
    [] OTHER -> self

Started == step > Len(Script)

Ask ==
  /\ ~Started /\ ~waiting
  /\ Write(CommandFrame(Script[step]))
  /\ IF Script[step] \in Gets THEN waiting' = TRUE /\ step' = step
                              ELSE waiting' = FALSE /\ step' = step + 1
  /\ UNCHANGED <<self, up, taken, radio>>

\* get(): other frames are thrown away.
Get ==
  /\ waiting /\ Complete(up)
  /\ \E f \in {Unserialize(up)} :
       /\ Take(f)
       /\ IF IsAnswer(Script[step], f)
          THEN /\ self' = Learnt(Script[step], f.data)
               /\ waiting' = FALSE /\ step' = step + 1
          ELSE UNCHANGED router
  /\ UNCHANGED <<down, said, radio>>

-----------------------------------------------------------------------------
(* The radio *)

\* A byte 126 always starts a frame, and what was read before is forgotten: the bytes of b
\* from i up to the next of them.
Piece(b, i) ==
  LET last == CHOOSE j \in i..Len(b) :
        (j = Len(b) \/ b[j + 1] = 126) /\ \A k \in (i + 1)..j : b[k] # 126
  IN SubSeq(b, i, last)

\* Where the frames start that the radio finds in b.
Found(b) == {i \in 1..Len(b) :
  b[i] = 126 /\ LET p == Piece(b, i) IN Len(p) >= 4 /\ Len(p) >= FrameSize(p)}

\* Node#reply
Reply(bytes, f) == up' = up \o bytes /\ sent' = Append(sent, f)

ReplyTo(f) ==
  LET letters == SubSeq(f.header, 2, 3)
      response(data) == [type |-> CommandResponse, header |-> <<1>> \o letters \o <<0>>,
                         data |-> data]
  IN IF letters = Letters.FR THEN [type |-> ModemStatus, header |-> <<0>>, data |-> <<>>]
     ELSE IF \E cmd \in Gets : letters = Letters[cmd]
     THEN response(Answers[CHOOSE cmd \in Gets : letters = Letters[cmd]])
     ELSE response(<<>>)

\* The radio reads what the router wrote, up to the next frame in it, and answers a command.
Listen ==
  /\ down # <<>>
  /\ \E b \in {Head(down)} :
       \/ Found(b) = {} /\ down' = Tail(down) /\ UNCHANGED <<up, sent, heard>>
       \/ \E i \in Found(b) : \E f \in {Unserialize(Piece(b, i))} :
            /\ \A j \in Found(b) : i <= j
            /\ down' = (IF Found(b) = {i} THEN <<>> ELSE <<SubSeq(b, i + 1, Len(b))>>)
                       \o Tail(down)
            /\ heard' = Append(heard, f)
            /\ IF f.type = Command THEN \E r \in {ReplyTo(f)} : Reply(Serialize(r), r)
                                   ELSE UNCHANGED <<up, sent>>
  /\ UNCHANGED <<router, torn, traffic, taken, aired, said>>

\* A Receive frame as Node#reply writes it: it is built with a frame id, and the byte
\* that is then cut out is not the id but the first byte of the MAC after it.  The low
\* byte of the length is decremented, unless it is 0.
ReceiveFrame(id, mac, data) ==
  [type |-> Receive, header |-> <<id>> \o SubSeq(mac, 2, 8) \o <<255, 254, 0>>, data |-> data]
Forwarded(f) ==
  LET b == Serialize(f)
      size == Len(b) - 3
  IN IF size % 256 = 0 THEN <<126, size \div 256, 0>> \o SubSeq(b, 4, Len(b)) ELSE b

Forward ==
  /\ traffic # <<>> /\ traffic' = Tail(traffic)
  /\ \E t \in {Head(traffic)} :
       \E f \in {ReceiveFrame(t[1], t[2], To_frame(t[3]))} :
         Reply(Forwarded(f), f) /\ aired' = Append(aired, t[3])
  /\ UNCHANGED <<router, down, torn, taken, said, heard>>

-----------------------------------------------------------------------------
(* Properties *)

SerialTypeOK ==
  /\ step \in 1..(Len(Script) + 1) /\ waiting \in BOOLEAN
  /\ self.network \in [1..2 -> Memory] /\ self.mac \in [1..8 -> Memory]
  /\ up \in Seq(Byte) /\ \A i \in 1..Len(down) : down[i] \in Seq(Memory)
  /\ torn \in BOOLEAN /\ IsTransmissions(traffic)
  /\ \A i \in 1..Len(said) : \A f \in {said[i]} :
       /\ f.type \in {Command, Transmit} /\ Len(f.header) = Width(f.type)
       /\ f.header \in Seq(Memory) /\ f.data \in Seq(Byte)
       /\ Len(f.header) + Len(f.data) + 5 <= 300
  /\ \A i \in 1..Len(taken) : taken[i].type \in Byte

\* The simulator can write the length of frame f.
Correct(f) == f.type = Receive => (Len(f.header) + Len(f.data) + 2) % 256 # 0
AllCorrect ==
  /\ ~torn /\ \A i \in 1..Len(sent) : Correct(sent[i])
  /\ \A i \in 1..Len(traffic) :
       Correct(ReceiveFrame(traffic[i][1], traffic[i][2], To_frame(traffic[i][3])))

\* The frames the router takes are those the radio has sent, in their order and to the
\* last byte: without a start byte to look for, a length or a size that is off by one
\* would lose every frame from then on (xbee.cpp:142-151).  The packets in them are those
\* of the other routers, but for the entries of an ACK, whose errors and retries mix in
\* one byte (packet.cpp:104-109, 171-175).  Of a frame that was torn, or whose length is
\* wrong, nothing is said, nor of any frame after it.
PacketsArrive == \A i \in 1..Len(taken) :
  ~torn /\ (\A j \in 1..Len(sent) : j <= i => Correct(sent[j])) =>
    /\ i <= Len(sent) /\ taken[i] = sent[i]
    /\ taken[i].type = Receive =>
         LET nth == Cardinality({j \in 1..i : sent[j].type = Receive})
         IN nth <= Len(aired) /\ From_frame(taken[i].data) = Arrived(aired[nth])

\* The bytes of f hold nothing that the radio could take for another frame.
Single(f) ==
  LET b == Serialize(f)
  IN \A i \in 2..(Len(b) - 3) : b[i] = 126 => FrameSize(SubSeq(b, i, Len(b))) > Len(b) - i + 1

\* Of the frames that have reached the radio, those without that byte after their start.
Unmarked(f) == LET b == Serialize(f) IN \A i \in 2..Len(b) : b[i] # 126
Audible == {k \in 1..(Len(said) - Len(down)) : Unmarked(said[k])}

\* The radio understands the frames the router has sent, all and in order, except those
\* that have the byte 126 somewhere after their start, and the simulator loses those
\* (node.rb:50): a frame with that frame id never gets a StatusFrame.  Nothing is said when
\* the content of a message is itself a frame.
OnlyMarkedLost ==
  (\A k \in 1..Len(said) : Single(said[k])) =>
    /\ Len(heard) = Cardinality(Audible)
    /\ \A k \in Audible : heard[Cardinality({j \in Audible : j <= k})] = said[k]

\* What the constructor is to learn.
KnowsItself ==
  self = [network |-> InMemory(Answers["ID"], 2),
          mac |-> InMemory(Answers["SH"], 4) \o InMemory(Answers["SL"], 4)]

\* The constructor gets all its answers, it does not wait for one that was thrown away;
\* and it is not confused by what the other routers send while it asks, or by answers
\* that come late: it knows its own MAC and network for good (router.cpp:13-49).
StartsUp == <>[](AllCorrect => Started /\ KnowsItself)

=============================================================================
