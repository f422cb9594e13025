----------------------------- MODULE Dispatcher -----------------------------
(***************************************************************************)
(* The History and the Dispatcher of one node: the tables that follow a    *)
(* data packet from Dispatcher::deliver() to its ACK, and the threads that *)
(* work on them:                                                           *)
(*   - the Redis subscription thread, which delivers packets of local      *)
(*     applications;                                                       *)
(*   - the router's main thread, which forwards the packets of other nodes *)
(*     and handles StatusFrames and ACKs, one frame at a time;             *)
(*   - the Tick thread, which looks for timed out packets.                 *)
(*                                                                         *)
(* Every stretch of code that holds History::history_lock is one action.   *)
(* deliver() holds it in watch() only and hands the frame to the radio     *)
(* afterwards: two actions, Watch and Send.  tick() holds it over a whole  *)
(* pass, but a pass is the same as one TickVisit after another: each visit *)
(* works on its own entry and the clock decides which entries are due.     *)
(*                                                                         *)
(* A member of Packets is a Packet object that deliver() is called with    *)
(* once.  Metadata objects are named by the packet whose watch() allocated *)
(* them.  Steps whose behaviour the language leaves undefined (null or     *)
(* freed memory) set `fault', and the process takes no step afterwards.    *)
(*                                                                         *)
(* The network graph is not part of this module: whenever the code looks   *)
(* for a path, one may or may not be found, and which one does not matter. *)
(***************************************************************************)
EXTENDS Naturals, FiniteSets

CONSTANTS
  Packets,           \* Packet objects given to deliver()
  Nodes,             \* addresses
  Self,              \* address of this node
  Null,              \* nullptr, the absent entry of a table
  Source,            \* Packet::source
  Destination,       \* Packet::destination
  WireId,            \* Packet::packet_id on arrival, 0 for a local packet
  BitSetSize,        \* History::bit_set_size, 254 in the code
  RetransmissionMax  \* Metadata::retransmission_max, 5 in the code

ASSUME ConstantsAssumption ==
  /\ Null \notin Packets
  /\ Self \in Nodes
  /\ BitSetSize \in Nat \ {0}
  /\ RetransmissionMax \in Nat
  /\ Source \in [Packets -> Nodes]
  /\ Destination \in [Packets -> Nodes \ {Self}]
  /\ WireId \in [Packets -> 0..BitSetSize]
  /\ \A p \in Packets : WireId[p] = 0 <=> Source[p] = Self

FrameIds == 1..BitSetSize
PacketIds == Nodes \X Nodes \X (0..BitSetSize)
Local == {p \in Packets : Source[p] = Self}

Metadata == [packet : Packets, frame_id : FrameIds, check_timeout : BOOLEAN, counter : Nat]

\* A frame the radio has accepted, until its StatusFrame is handled.  `nth'
\* tells apart the transmissions of one packet.
Frame == [id : FrameIds, packet : Packets, nth : Nat, radio : {"busy", "ok", "error"}]

\* A copy of a packet beyond the neighbour that took it: `through' when it
\* reaches the destination, otherwise it is stuck at some relay.
Copy == [packet : Packets, nth : Nat, through : BOOLEAN]

Faults == {"none", "late_ack", "error_ack", "unknown_sender", "freed_memory",
           "missing_entry", "iterator"}

VARIABLES
  packets,        \* History::packets_history
  frames,         \* History::frames_history
  id_occupation,  \* History::id_occupation, as the set of reserved ids
  meta,           \* the Metadata objects; those not in `live' have no meaning
  live,           \* Metadata allocated and not deleted
  freed,          \* Packet objects that were deleted
  packet_id,      \* Packet::packet_id
  taken,          \* packets deliver() was called with
  outbox,         \* frame id deliver() got from watch() and has not sent yet, or 0
  air,            \* frames in the radio
  beyond,         \* copies past the first hop whose ACK may still come
  fault,          \* the first undefined step taken, or "none"
  \* history variables, which no action's guard reads
  delivered,      \* packets of which a copy reached the destination
  reported,       \* number of deliver_back() calls for a local packet
  relayed,        \* routed packets whose ACK was passed on to the previous hop
  sent,           \* number of frames sent with a packet
  exhausted       \* reserve_id() has met a full id_occupation

tables == <<packets, frames, id_occupation, meta, live, freed>>
world == <<beyond, delivered>>
vars == <<packets, frames, id_occupation, meta, live, freed, packet_id, taken,
          outbox, air, beyond, fault, delivered, reported, relayed,
          sent, exhausted>>

TypeOK ==
  /\ packets \in [PacketIds -> Packets \cup {Null}]
  /\ frames \in [FrameIds -> Packets \cup {Null}]
  /\ id_occupation \subseteq FrameIds
  /\ meta \in [Packets -> Metadata]
  /\ live \subseteq Packets
  /\ freed \subseteq Packets
  /\ packet_id \in [Packets -> 0..BitSetSize]
  /\ taken \subseteq Packets
  /\ outbox \in [Packets -> 0..BitSetSize]
  /\ air \subseteq Frame
  /\ beyond \subseteq Copy
  /\ fault \in Faults
  /\ delivered \subseteq Packets
  /\ reported \in [Packets -> Nat]
  /\ relayed \subseteq Packets
  /\ sent \in [Packets -> Nat]
  /\ exhausted \in BOOLEAN

Init ==
  /\ packets = [k \in PacketIds |-> Null]
  /\ frames = [i \in FrameIds |-> Null]
  /\ id_occupation = {}
  /\ meta = [p \in Packets |-> [packet |-> p, frame_id |-> 1, check_timeout |-> FALSE,
                                counter |-> 0]]
  /\ live = {} /\ freed = {}
  /\ packet_id = WireId
  /\ taken = {} /\ outbox = [p \in Packets |-> 0]
  /\ air = {} /\ beyond = {}
  /\ fault = "none"
  /\ delivered = {} /\ relayed = {}
  /\ reported = [p \in Packets |-> 0]
  /\ sent = [p \in Packets |-> 0]
  /\ exhausted = FALSE

-----------------------------------------------------------------------------
(* Helpers *)

\* Packet::id(): destination, source and packet_id of the data packet.
Id(p) == <<Destination[p], Source[p], packet_id[p]>>

\* History::reserve_id(): the lowest free id, or any id at all when none is free.
FreeIds == FrameIds \ id_occupation
\* Mutant: the id is not counted from 1.
Reservable_FromZero == IF FreeIds = {} THEN 0..(BitSetSize - 1)
                       ELSE {i - 1 : i \in {j \in FreeIds : \A l \in FreeIds : j <= l}}
Reservable == IF FreeIds = {} THEN FrameIds
              ELSE {i \in FreeIds : \A j \in FreeIds : i <= j}

\* The main thread is not in the middle of deliver() for a routed packet.
MainIdle == \A p \in Packets \ Local : outbox[p] = 0
\* The subscription thread is not in the middle of deliver().
RedisIdle == \A p \in Local : outbox[p] = 0
Idle(p) == IF p \in Local THEN RedisIdle ELSE MainIdle

\* driver.deliver_back(), called only when the source of the packet is self.
\* Mutant: the call is forgotten.
Report_Silent(p) == UNCHANGED reported
Report(p) == reported' = IF p \in Local THEN [reported EXCEPT ![p] = @ + 1] ELSE reported

\* try_retransmit() has retransmissions left; it sends the packet if there is a path.
\* Mutant: one retransmission too many.
RetriesLeft_OffByOne(m) == meta[m].counter <= RetransmissionMax
RetriesLeft(m) == meta[m].counter < RetransmissionMax

\* The effect of retransmit() on the tables, except for the id it reserves.
\* Mutant: check_timeout stays armed.
Retransmit_Armed(m, id) ==
  /\ frames' = [frames EXCEPT ![meta[m].frame_id] = Null, ![id] = m]
  /\ meta' = [meta EXCEPT ![m].frame_id = id, ![m].counter = @ + 1]
  /\ sent' = [sent EXCEPT ![meta[m].packet] = @ + 1]
Retransmit(m, id) ==
  /\ frames' = [frames EXCEPT ![meta[m].frame_id] = Null, ![id] = m]
  /\ meta' = [meta EXCEPT ![m] = [packet |-> @.packet, frame_id |-> id,
                                  check_timeout |-> FALSE, counter |-> @.counter + 1]]
  /\ sent' = [sent EXCEPT ![meta[m].packet] = @ + 1]

\* The frame retransmit() hands to the radio.
NewFrame(m, id) == [id |-> id, packet |-> meta[m].packet,
                    nth |-> sent[meta[m].packet] + 1, radio |-> "busy"]

\* History::erase(Packet*): the entry found under the id, its Metadata and its Packet.
Erase(k) ==
  /\ packets' = [packets EXCEPT ![k] = Null]
  /\ live' = live \ {packets[k]}
  /\ freed' = freed \cup {meta[packets[k]].packet}

-----------------------------------------------------------------------------
(* Dispatcher::deliver(), on the subscription thread for a local packet and on  *)
(* the main thread for a routed one.                                            *)

\* No path: a local packet is reported, a routed one is given up without a word.
DeliverNoRoute(p) ==
  /\ fault = "none" /\ p \notin taken /\ Idle(p)
  /\ taken' = taken \cup {p}
  /\ Report(p)
  /\ UNCHANGED <<tables, packet_id, outbox, air, world, fault, relayed, sent, exhausted>>

\* History::watch().  The lookup comes before a local packet is given its id, so
\* only a routed packet can find Metadata of an earlier copy; add() overwrites
\* whatever is stored under the id the packet ends up with.
Watch(p) ==
  /\ fault = "none" /\ p \notin taken /\ Idle(p)
  /\ \E id \in Reservable :
       LET found == packets[Id(p)]
           m == IF found = Null THEN p ELSE found
           pid == IF packet_id[p] = 0 THEN id ELSE packet_id[p]
       IN /\ packet_id' = [packet_id EXCEPT ![p] = pid]
          /\ packets' = [packets EXCEPT ![<<Destination[p], Source[p], pid>>] = m]
          /\ frames' = [frames EXCEPT ![id] = m]
          /\ meta' = [meta EXCEPT ![m] =
               [packet |-> p, frame_id |-> id,
                check_timeout |-> IF found = Null THEN FALSE ELSE @.check_timeout,
                counter |-> IF found = Null THEN 0 ELSE @.counter]]
          /\ id_occupation' = id_occupation \cup {id}
          /\ outbox' = [outbox EXCEPT ![p] = id]
  /\ live' = IF packets[Id(p)] = Null THEN live \cup {p} ELSE live
  /\ taken' = taken \cup {p}
  /\ exhausted' = (exhausted \/ FreeIds = {})
  /\ UNCHANGED <<freed, air, world, fault, reported, relayed, sent>>

\* The rest of deliver(), without the lock: to_frame() reads the packet, which
\* another thread may have deleted, and xbee.send() takes the frame.
Send(p) ==
  /\ fault = "none" /\ outbox[p] # 0
  /\ IF p \in freed
     THEN /\ fault' = "freed_memory"
          /\ UNCHANGED <<outbox, air, sent>>
     ELSE /\ outbox' = [outbox EXCEPT ![p] = 0]
          /\ air' = air \cup {[id |-> outbox[p], packet |-> p,
                               nth |-> sent[p] + 1, radio |-> "busy"]}
          /\ sent' = [sent EXCEPT ![p] = @ + 1]
          /\ UNCHANGED fault
  /\ UNCHANGED <<tables, packet_id, taken, world, reported, relayed, exhausted>>

-----------------------------------------------------------------------------
(* Dispatcher::handle_internal() for a StatusFrame. *)

\* The StatusFrame of f is the next frame of the main thread.
StatusArrives(f) == fault = "none" /\ MainIdle /\ f \in air /\ f.radio # "busy"

\* No entry for the frame id: only the id is released.
\* Mutant: the id is not released.
StatusUnknown_KeepsId(f) ==
  /\ StatusArrives(f) /\ frames[f.id] = Null
  /\ air' = air \ {f}
  /\ UNCHANGED <<tables, packet_id, taken, outbox, world, fault, reported, relayed, sent,
                 exhausted>>
StatusUnknown(f) ==
  /\ StatusArrives(f) /\ frames[f.id] = Null
  /\ air' = air \ {f}
  /\ id_occupation' = id_occupation \ {f.id}
  /\ UNCHANGED <<packets, frames, meta, live, freed, packet_id, taken, outbox, world,
                 fault, reported, relayed, sent, exhausted>>

\* The neighbour has the packet: the ACK timeout starts.
\* Mutant: the timeout is computed but not armed.
StatusSuccess_Unarmed(f) ==
  /\ StatusArrives(f) /\ f.radio = "ok"
  /\ frames[f.id] \in live
  /\ frames' = [frames EXCEPT ![f.id] = Null]
  /\ id_occupation' = id_occupation \ {f.id}
  /\ air' = air \ {f}
  /\ UNCHANGED <<packets, meta, live, freed, packet_id, taken, outbox, world,
                 fault, reported, relayed, sent, exhausted>>
StatusSuccess(f) ==
  /\ StatusArrives(f) /\ f.radio = "ok"
  /\ frames[f.id] \in live
  /\ meta' = [meta EXCEPT ![frames[f.id]].check_timeout = TRUE]
  /\ frames' = [frames EXCEPT ![f.id] = Null]
  /\ id_occupation' = id_occupation \ {f.id}
  /\ air' = air \ {f}
  /\ UNCHANGED <<packets, live, freed, packet_id, taken, outbox, world,
                 fault, reported, relayed, sent, exhausted>>

\* The neighbour did not get the packet and it may be sent again.  The new id is
\* reserved before the old one is released.
\* Mutant: the id of the answered frame is not released.
StatusRetry_KeepsId(f) ==
  LET m == frames[f.id] IN
  /\ StatusArrives(f) /\ f.radio = "error"
  /\ m \in live
  /\ RetriesLeft(m)
  /\ \E id \in Reservable :
       /\ Retransmit(m, id)
       /\ air' = (air \ {f}) \cup {NewFrame(m, id)}
       /\ id_occupation' = id_occupation \cup {id}
  /\ exhausted' = (exhausted \/ FreeIds = {})
  /\ UNCHANGED <<packets, live, freed, packet_id, taken, outbox, world,
                 fault, reported, relayed>>
StatusRetry(f) ==
  LET m == frames[f.id] IN
  /\ StatusArrives(f) /\ f.radio = "error"
  /\ m \in live
  /\ RetriesLeft(m)
  /\ \E id \in Reservable :
       /\ Retransmit(m, id)
       /\ air' = (air \ {f}) \cup {NewFrame(m, id)}
       /\ id_occupation' = (id_occupation \cup {id}) \ {f.id}
  /\ exhausted' = (exhausted \/ FreeIds = {})
  /\ UNCHANGED <<packets, live, freed, packet_id, taken, outbox, world,
                 fault, reported, relayed>>

\* No retransmission is left or no path is found: the packet leaves both tables.
StatusGiveUp(f) ==
  LET m == frames[f.id]  k == Id(meta[m].packet) IN
  /\ StatusArrives(f) /\ f.radio = "error"
  /\ m \in live
  /\ packets[k] # Null
  /\ Report(meta[m].packet)
  /\ frames' = [frames EXCEPT ![f.id] = Null]
  /\ Erase(k)
  /\ id_occupation' = id_occupation \ {f.id}
  /\ air' = air \ {f}
  /\ UNCHANGED <<meta, packet_id, taken, outbox, world, fault, relayed, sent, exhausted>>

\* The undefined steps of the handler: deleted Metadata found under the frame id, or
\* a packet to give up that was erased already.
StatusFault(f) ==
  LET m == frames[f.id] IN
  /\ StatusArrives(f) /\ m # Null
  /\ \/ m \notin live /\ fault' = "freed_memory" /\ UNCHANGED reported
     \/ /\ m \in live /\ f.radio = "error" /\ packets[Id(meta[m].packet)] = Null
        /\ fault' = "missing_entry" /\ Report(meta[m].packet)
  /\ UNCHANGED <<tables, packet_id, taken, outbox, air, world, relayed, sent, exhausted>>

-----------------------------------------------------------------------------
(* Dispatcher::handle_ack(). *)

\* The ACK that the destination sent for copy c.  On a routed packet it is passed
\* to the previous hop, if that node's MAC is known; then the packet is forgotten.
\* Mutants: the frame keeps its entry; a negative ACK counts as a positive one.
HandleAck_KeepsFrame(c) ==
  LET k == Id(c.packet)  m == packets[k] IN
  /\ fault = "none" /\ MainIdle /\ c \in beyond /\ c.through
  /\ m # Null
  /\ Erase(k)
  /\ beyond' = beyond \ {c}
  /\ UNCHANGED <<frames, id_occupation, meta, packet_id, taken, outbox, air, fault,
                 delivered, reported, relayed, sent, exhausted>>
HandleAck_AnyStatus(c) ==
  LET k == Id(c.packet)  m == packets[k] IN
  /\ fault = "none" /\ MainIdle /\ c \in beyond
  /\ m # Null
  /\ relayed' = IF meta[m].packet \in Local THEN relayed
                ELSE relayed \cup {meta[m].packet}
  /\ frames' = [frames EXCEPT ![meta[m].frame_id] = Null]
  /\ Erase(k)
  /\ beyond' = beyond \ {c}
  /\ UNCHANGED <<id_occupation, meta, packet_id, taken, outbox, air, fault,
                 delivered, reported, sent, exhausted>>
HandleAck(c) ==
  LET k == Id(c.packet)  m == packets[k] IN
  /\ fault = "none" /\ MainIdle /\ c \in beyond /\ c.through
  /\ m # Null
  /\ \/ meta[m].packet \in Local /\ UNCHANGED relayed
     \/ meta[m].packet \notin Local /\ relayed' = relayed \cup {meta[m].packet}
     \/ meta[m].packet \notin Local /\ UNCHANGED relayed
  /\ frames' = [frames EXCEPT ![meta[m].frame_id] = Null]
  /\ Erase(k)
  /\ beyond' = beyond \ {c}
  /\ UNCHANGED <<id_occupation, meta, packet_id, taken, outbox, air, fault,
                 delivered, reported, sent, exhausted>>

\* The history has no packet for this ACK any more: Metadata is dereferenced at line
\* 178 all the same.
\* Mutant: the ACK is taken for a failure of the packet.
LateAck_Reports(c) ==
  /\ fault = "none" /\ MainIdle /\ c \in beyond /\ c.through
  /\ packets[Id(c.packet)] = Null
  /\ Report(c.packet)
  /\ beyond' = beyond \ {c}
  /\ UNCHANGED <<tables, packet_id, taken, outbox, air, fault, delivered, relayed,
                 sent, exhausted>>
LateAck(c) ==
  /\ fault = "none" /\ MainIdle /\ c \in beyond /\ c.through
  /\ packets[Id(c.packet)] = Null
  /\ fault' = "late_ack"
  /\ UNCHANGED <<tables, packet_id, taken, outbox, air, world, reported, relayed,
                 sent, exhausted>>

\* The ACK comes through relays, and the last of them has left the network graph since
\* it took the packet: from_mac() gives 0, which edge() cannot make an edge of.
AckFromUnknown(c) ==
  /\ fault = "none" /\ MainIdle /\ c \in beyond /\ c.through
  /\ fault' = "unknown_sender"
  /\ UNCHANGED <<tables, packet_id, taken, outbox, air, world, reported, relayed,
                 sent, exhausted>>

\* The relay that gave up on copy c may answer with an error ACK.  It builds it from
\* the Internal packet of the StatusFrame, whose packet_id is 0, the id of no packet
\* here: no Metadata again.
ErrorAck(c) ==
  /\ fault = "none" /\ MainIdle /\ c \in beyond /\ ~ c.through
  /\ fault' = "error_ack"
  /\ UNCHANGED <<tables, packet_id, taken, outbox, air, world, reported, relayed,
                 sent, exhausted>>

-----------------------------------------------------------------------------
(* One entry of Dispatcher::tick(). *)

\* The Metadata under k waits for an ACK and its timeout has passed.
Due(k) == fault = "none" /\ packets[k] # Null /\ meta[packets[k]].check_timeout

TickRetransmit(k) ==
  LET m == packets[k] IN
  /\ Due(k)
  /\ meta[m].packet \in Local /\ RetriesLeft(m)
  /\ \E id \in Reservable :
       /\ Retransmit(m, id)
       /\ air' = air \cup {NewFrame(m, id)}
       /\ id_occupation' = id_occupation \cup {id}
  /\ exhausted' = (exhausted \/ FreeIds = {})
  /\ UNCHANGED <<packets, live, freed, packet_id, taken, outbox, world,
                 fault, reported, relayed>>

\* No retransmission is left, no path is found, or the packet is a routed one: it is
\* erased, a routed one without any notice.  The loop then advances
\* an iterator to the entry just erased: it goes on, stops early, or crashes.
\* Mutant: the packet is reported and stays in the history.
TickErase_Kept(k) ==
  LET m == packets[k] IN
  /\ Due(k)
  /\ reported[meta[m].packet] < 3
  /\ Report(meta[m].packet)
  /\ frames' = [frames EXCEPT ![meta[m].frame_id] = Null]
  /\ UNCHANGED <<packets, live, freed, id_occupation, meta, packet_id, taken, outbox,
                 air, world, fault, relayed, sent, exhausted>>
TickErase(k) ==
  LET m == packets[k] IN
  /\ Due(k)
  /\ Report(meta[m].packet)
  /\ frames' = [frames EXCEPT ![meta[m].frame_id] = Null]
  /\ Erase(Id(meta[m].packet))
  /\ fault' \in {"none", "iterator"}
  /\ UNCHANGED <<id_occupation, meta, packet_id, taken, outbox, air, world, relayed,
                 sent, exhausted>>

-----------------------------------------------------------------------------
(* The radio and the other nodes, as this node sees them. *)

\* The neighbour receives the frame; the packet reaches its destination or not.
RadioDelivers(f) ==
  /\ fault = "none" /\ f \in air /\ f.radio = "busy"
  /\ air' = (air \ {f}) \cup {[f EXCEPT !.radio = "ok"]}
  /\ \E through \in BOOLEAN :
       /\ beyond' = beyond \cup {[packet |-> f.packet, nth |-> f.nth, through |-> through]}
       /\ delivered' = IF through THEN delivered \cup {f.packet} ELSE delivered
  /\ UNCHANGED <<tables, packet_id, taken, outbox, fault, reported, relayed,
                 sent, exhausted>>

RadioFails(f) ==
  /\ fault = "none" /\ f \in air /\ f.radio = "busy"
  /\ air' = (air \ {f}) \cup {[f EXCEPT !.radio = "error"]}
  /\ UNCHANGED <<tables, packet_id, taken, outbox, world, fault, reported, relayed,
                 sent, exhausted>>

-----------------------------------------------------------------------------
HandleStatus(f) == \/ StatusUnknown(f) \/ StatusSuccess(f) \/ StatusRetry(f)
                   \/ StatusGiveUp(f) \/ StatusFault(f)
TickVisit(k) == TickRetransmit(k) \/ TickErase(k)
Radio(f) == RadioDelivers(f) \/ RadioFails(f)

Next ==
  \/ \E p \in Packets : DeliverNoRoute(p) \/ Watch(p) \/ Send(p)
  \/ \E f \in air : HandleStatus(f) \/ Radio(f)
  \/ \E c \in beyond : HandleAck(c) \/ LateAck(c) \/ AckFromUnknown(c) \/ ErrorAck(c)
  \/ \E k \in PacketIds : TickVisit(k)

Spec == Init /\ [][Next]_vars

\* Threads run, the radio answers every frame it took (with success or failure),
\* and time passes.  Applications, ACKs and topology changes owe nothing.
Fairness ==
  /\ \A p \in Packets : WF_vars(Send(p))
  /\ WF_vars(\E f \in air : Radio(f))
  /\ WF_vars(\E f \in air : HandleStatus(f))
  /\ \A k \in PacketIds : WF_vars(TickVisit(k))

FairSpec == Spec /\ Fairness

-----------------------------------------------------------------------------
(* Properties *)

\* The packet is in packets_history: an ACK or a timeout is still to settle it.
Tracked(p) == packets[Id(p)] # Null /\ meta[packets[Id(p)]].packet = p

\* The packet was accepted and has left the history.
Settled(p) == p \in taken /\ ~ Tracked(p)

\* No two packets can ever have the same Packet::id().  Packets for different
\* destinations, from different sources or routed with different ids qualify.
DistinctIds == \A p, q \in Packets : p # q =>
  \/ Destination[p] # Destination[q]
  \/ Source[p] # Source[q]
  \/ p \notin Local /\ WireId[p] # WireId[q]

\* As long as reserve_id() always found a free id, a frame id stands for one frame
\* that the radio has, or is about to get, and an id is reserved exactly while it
\* does (history.h:120-125): no reuse before the StatusFrame, and no id leaks.
FrameIdsUnique == ~ exhausted =>
  /\ \A f, g \in air : f.id = g.id => f = g
  /\ \A f \in air, p \in Packets : outbox[p] # f.id
  /\ \A p, q \in Packets : outbox[p] = outbox[q] /\ p # q => outbox[p] = 0
  /\ \A i \in FrameIds : i \in id_occupation <=> \/ \E f \in air : f.id = i
                                                 \/ \E p \in Packets : outbox[p] = i

\* The Status handler, the Tick thread and deliver() all send, but as long as ids are
\* free never while an earlier frame of the packet is unanswered: the timeout is
\* armed only between a successful StatusFrame and the next transmission.
OneFrameInFlight == ~ exhausted => \A f \in air :
  /\ \A g \in air : f.packet = g.packet => f = g
  /\ outbox[f.packet] = 0
  /\ Tracked(f.packet) => ~ meta[packets[Id(f.packet)]].check_timeout

\* While ids are free, neither table leads to deleted Metadata, and no thread uses a
\* deleted Packet or erases an entry that is not there (history.cpp:12-25,
\* dispatcher.cpp:40-43).
MemorySafe == ~ exhausted =>
  /\ \A k \in PacketIds : packets[k] # Null => packets[k] \in live
  /\ \A i \in FrameIds : frames[i] # Null => frames[i] \in live
  /\ fault \notin {"freed_memory", "missing_entry"}

\* "Packets must delivered to destination or an information about error must be
\* received" (router.h:29-30): a local packet that has left the history was
\* delivered or given back to the application.
NoSilentLoss == \A p \in Local : Settled(p) => p \in delivered \/ reported[p] > 0

\* An ACK that a relay passes on stands for a packet its destination did receive, in
\* the copy the relay holds or in an earlier one.
HonestAck == \A p \in relayed : \E q \in delivered : Id(q) = Id(p)

\* deliver_back() is called at most once for a packet, and never for one that an ACK
\* or a timeout may settle again.
ReportedOnce == \A p \in Local :
  /\ reported[p] <= 1
  /\ reported[p] = 1 /\ fault = "none" => ~ Tracked(p)

\* All the ways to retransmit share one budget of retransmission_max frames.
RetryBound == \A p \in Packets : sent[p] <= 1 + RetransmissionMax

\* A packet that has left the history does not come back: it is neither tracked nor
\* sent nor reported again.
StaysSettled ==
  [][\A p \in Packets : Settled(p) =>
       Settled(p)' /\ sent'[p] = sent[p] /\ reported'[p] = reported[p]]_vars

\* Another packet, whose Metadata still holds the released id of an earlier frame,
\* has removed the frames_history entry of a frame of p (dispatcher.cpp:67,142,195).
Robbed(p) == Tracked(p) /\
  \/ outbox[p] # 0 /\ frames[outbox[p]] # packets[Id(p)]
  \/ \E f \in air : f.packet = p /\ frames[f.id] # packets[Id(p)]

\* Every accepted packet is settled in the end, local or routed, if its frames keep
\* their entries in frames_history and the process does not crash.
Resolution == \A p \in Packets :
  <>Robbed(p) \/ (p \in taken ~> ~ Tracked(p) \/ fault # "none")

\* Once traffic stops every frame id is free again, whatever became of the packets.
IdsReturned == <>[](id_occupation = {} \/ fault # "none")

\* What the documentation says and the code does not do.

\* "ID of the packet is unique across whole network until packet ACK is delivered to
\* source" (packet.h:182-183): deliver() never gives a packet the Packet::id() of a
\* packet that is still in the history.
PacketIdUnique ==
  [][\A p, q \in Packets : Tracked(p) /\ packet_id[q] = 0 /\ packet_id'[q] # 0
       => Id(q)' # Id(p)]_vars

\* "Packets must delivered to destination or an information about error must be
\* received" (router.h:29-30): every local packet is settled in the end, or the
\* process has crashed.
EventuallySettled == \A p \in Local : p \in taken ~> ~ Tracked(p) \/ fault # "none"

\* "its Metadata lives in Dispatcher::history as long as its positive ACK is not
\* received" (history.h:24-26): every ACK of a destination finds its Metadata.
AckFindsMetadata == fault # "late_ack"

\* What an application is promised: see ReliableDelivery.
Outcome == [p \in Local |-> IF p \notin taken THEN "new"
                           ELSE IF reported[p] > 0 THEN "undelivered"
                           ELSE IF Tracked(p) THEN "pending"
                           ELSE "acked"]
Promise == INSTANCE ReliableDelivery
             WITH Messages <- Local, outcome <- Outcome,
                  received <- delivered \cap Local
ImplementsReliableDelivery == Promise!Spec

=============================================================================
