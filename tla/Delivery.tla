------------------------------ MODULE Delivery ------------------------------
(***************************************************************************)
(* One data packet on its way through a network of routers, and its ACKs   *)
(* on their way back: the Histories of all the nodes together.             *)
(*                                                                         *)
(* Module Dispatcher follows many packets through the tables of one node;  *)
(* here every node has the one packet.  A node that lost sight of a copy   *)
(* (its frame was answered with an error although it arrived, or the ACK   *)
(* was late) sends it again, so that several copies travel at once, along  *)
(* different routes, and meet again in the History of a relay, whose entry *)
(* is found under the Packet::id() they share.                             *)
(*                                                                         *)
(* The main thread of a router handles one frame at a time and the Tick    *)
(* thread takes history_lock: a handler is one action.  (What happens when *)
(* Tick comes between watch() and xbee.send() is in Dispatcher.)  The      *)
(* target handles a copy in two actions, since the ACK goes out before the *)
(* message does.                                                           *)
(*                                                                         *)
(* A path is any neighbour that was not visited, or none: what a node      *)
(* knows of the network is not part of this module, only what path() makes *)
(* of `visited' (see Routing).  Frame ids never run short for one packet,  *)
(* so a frame is named by its node and its number.  A step whose effect    *)
(* the language leaves undefined ends the process of the node.             *)
(***************************************************************************)
EXTENDS Naturals, Sequences, FiniteSets, Packet

CONSTANTS
  Nodes,              \* addresses
  Neighbours,         \* Neighbours[n]: the nodes n may choose as the next hop
  Source, Target,     \* Packet::source and Packet::destination
  RetransmissionMax,  \* Metadata::retransmission_max, 5 in the code
  MessageLengths,     \* sizes of the messages an application may publish
  MaxCopies           \* bound on the copies the air carries; later frames are lost

ASSUME DeliveryAssumption ==
  /\ Source \in Nodes /\ Target \in Nodes /\ Source # Target
  /\ IsFiniteSet(Nodes)
  /\ Neighbours \in [Nodes -> SUBSET Nodes]
  /\ \A n \in Nodes : n \notin Neighbours[n]
  /\ RetransmissionMax \in Nat /\ MessageLengths \subseteq Nat /\ MaxCopies \in Nat

VARIABLES
  length,     \* Packet::length
  at,         \* the History entry of each node
  frames,     \* frames in the radios whose StatusFrame is not handled yet
  copies,     \* copies of the packet that have arrived at a radio
  acks,       \* number of ACKs on the way from a node to another one
  errors,     \* nodes that an error ACK is on the way to
  delivering, \* the target has acknowledged a copy and is about to publish it
  crashed,    \* nodes whose process has ended
  \* history variables, which no action's guard reads but for the bound on copies
  received,   \* number of copies each node was given
  sent,       \* number of frames each node has sent with the packet
  delivered,  \* number of times the packet was published at the target
  reported,   \* number of times it was given back at the source
  acked,      \* an ACK has settled the packet at the source
  crossed,    \* the hops that a copy has crossed
  carried     \* number of copies the air has carried

vars == <<length, at, frames, copies, acks, errors, delivering, crashed, received, sent,
          delivered, reported, acked, crossed, carried>>
counts == <<delivered, reported, acked>>
air == <<crossed, carried>>

\* Metadata and `visited' of its packet.  `newest' is the number of the frame in
\* Metadata::frame_id.
Entry == [tracked : BOOLEAN, visited : Seq(Nodes), counter : Nat, armed : BOOLEAN,
          newest : Nat]
Blank == [tracked |-> FALSE, visited |-> <<>>, counter |-> 0, armed |-> FALSE,
          newest |-> 0]

\* `entry': frames_history leads from the frame id to the Metadata, to deleted
\* Metadata, or nowhere.
Frame == [node : Nodes, nth : Nat, hop : Nodes, visited : Seq(Nodes),
          radio : {"busy", "ok", "error"}, entry : {"live", "dangling", "none"}]

\* A copy at the radio of node `to', as Packet::from_frame() reads it.
Copy == [to : Nodes, from : Nodes, nth : Nat, visited : Seq(Nodes)]

TypeOK ==
  /\ length \in Byte
  /\ at \in [Nodes -> Entry]
  /\ frames \subseteq Frame
  /\ copies \subseteq Copy
  /\ acks \in [Nodes \X Nodes -> Nat]
  /\ errors \subseteq Nodes
  /\ delivering \in BOOLEAN
  /\ crashed \subseteq Nodes
  /\ received \in [Nodes -> Nat] /\ sent \in [Nodes -> Nat]
  /\ delivered \in Nat /\ reported \in Nat /\ acked \in BOOLEAN
  /\ crossed \subseteq Nodes \X Nodes /\ carried \in Nat

Init ==
  /\ length = 0
  /\ at = [n \in Nodes |-> Blank]
  /\ frames = {} /\ copies = {} /\ acks = [h \in Nodes \X Nodes |-> 0]
  /\ errors = {} /\ delivering = FALSE /\ crashed = {}
  /\ received = [n \in Nodes |-> 0] /\ sent = [n \in Nodes |-> 0]
  /\ delivered = 0 /\ reported = 0 /\ acked = FALSE /\ crossed = {} /\ carried = 0

-----------------------------------------------------------------------------
(* Helpers *)

\* Network::path() from n: the first hop is never a visited node.
\* Mutant: visited nodes are not avoided.
Hops_Revisit(n, visited) == Neighbours[n]
Hops(n, visited) == {h \in Neighbours[n] : \A i \in 1..Len(visited) : visited[i] # h}

\* try_retransmit() has retransmissions left.
\* Mutant: one retransmission too many.
RetriesLeft_OffByOne(n) == at[n].counter <= RetransmissionMax
RetriesLeft(n) == at[n].counter < RetransmissionMax

\* Dispatcher::deliver() with a path through hop: watch() takes over the entry of an
\* earlier copy, with its counter and its timeout, or fills a blank one, and the frame
\* goes to the radio.
\* reserve_id() gives an id no frame of this node has.
WatchAndSend(n, hop, visited) ==
  /\ at' = [at EXCEPT ![n] = [tracked |-> TRUE, visited |-> visited, counter |-> @.counter,
                              armed |-> @.armed, newest |-> sent[n] + 1]]
  /\ frames' = frames \cup
       {[node |-> n, nth |-> sent[n] + 1, hop |-> hop, visited |-> visited,
         radio |-> "busy", entry |-> "live"]}
  /\ sent' = [sent EXCEPT ![n] = @ + 1]

\* Dispatcher::retransmit() with a path through hop, when the frames in `rest' are the
\* ones still unanswered: the entry of Metadata::frame_id is erased, whichever frame
\* failed.
Retransmit(n, hop, rest) ==
  /\ at' = [at EXCEPT ![n] = [tracked |-> TRUE, visited |-> @.visited,
                              counter |-> @.counter + 1, armed |-> FALSE,
                              newest |-> sent[n] + 1]]
  /\ frames' =
       {IF f.node = n /\ f.nth = at[n].newest THEN [f EXCEPT !.entry = "none"] ELSE f :
         f \in rest} \cup
       {[node |-> n, nth |-> sent[n] + 1, hop |-> hop, visited |-> at[n].visited,
         radio |-> "busy", entry |-> "live"]}
  /\ sent' = [sent EXCEPT ![n] = @ + 1]

\* The entry of frame number nth is erased, the Metadata and the packet are deleted:
\* the entries of the other frames of n lead to deleted memory.
Forget(n, nth, rest) ==
  /\ at' = [at EXCEPT ![n] = Blank]
  /\ frames' = {IF f.node # n \/ f.entry = "none" THEN f
                ELSE [f EXCEPT !.entry = IF f.nth = nth THEN "none" ELSE "dangling"] :
                 f \in rest}

\* driver.deliver_back(), called only where the packet comes from.
Report(n) == reported' = IF n = Source THEN reported + 1 ELSE reported

\* The process of n ends.
Ends(n) == /\ crashed' = crashed \cup {n}
           /\ UNCHANGED <<at, frames, acks, received, sent, counts, air>>

-----------------------------------------------------------------------------
(* The packet enters the network: the handler of driver.self() on the          *)
(* subscription thread of the source makes a packet of a message.               *)

\* The length of the message is cut to 8 bits.
Start(n) ==
  /\ Source \notin crashed /\ received[Source] = 0
  /\ length' = n % 256
  /\ received' = [received EXCEPT ![Source] = 1]
  /\ \/ \E hop \in Hops(Source, <<>>) :
          /\ WatchAndSend(Source, hop, <<>>)
          /\ UNCHANGED reported
     \/ Report(Source) /\ UNCHANGED <<at, frames, sent>>
  /\ UNCHANGED <<copies, acks, errors, delivering, crashed, delivered, acked, air>>

\* A longer message is copied in full into a block of the shorter length.
StartOverrun(n) ==
  /\ Source \notin crashed /\ received[Source] = 0 /\ n > 255
  /\ Ends(Source)
  /\ UNCHANGED <<length, copies, errors, delivering>>

(* Router::process() for a data packet. *)

\* A copy reaches a node that is not its destination, which may be its source: the
\* node joins `visited' and the copy goes on.  Without a path the copy is given up,
\* and only its source says so.
\* Mutants: the node joins twice; the relay acknowledges the packet itself.
Relay_Twice(c) ==
  /\ c \in copies /\ c.to \notin crashed /\ c.to # Target
  /\ copies' = copies \ {c}
  /\ received' = [received EXCEPT ![c.to] = @ + 1]
  /\ \/ \E hop \in Hops(c.to, c.visited \o <<c.to, c.to>>) :
          /\ WatchAndSend(c.to, hop, c.visited \o <<c.to, c.to>>)
          /\ UNCHANGED reported
     \/ Report(c.to) /\ UNCHANGED <<at, frames, sent>>
  /\ UNCHANGED <<length, acks, errors, delivering, crashed, delivered, acked, air>>
Relay_Acks(c) ==
  /\ c \in copies /\ c.to \notin crashed /\ c.to # Target
  /\ copies' = copies \ {c}
  /\ received' = [received EXCEPT ![c.to] = @ + 1]
  /\ acks' = [acks EXCEPT ![<<c.to, c.from>>] = @ + 1]
  /\ \/ \E hop \in Hops(c.to, Append(c.visited, c.to)) :
          /\ WatchAndSend(c.to, hop, Append(c.visited, c.to))
          /\ UNCHANGED reported
     \/ Report(c.to) /\ UNCHANGED <<at, frames, sent>>
  /\ UNCHANGED <<length, errors, delivering, crashed, delivered, acked, air>>
Relay(c) ==
  /\ c \in copies /\ c.to \notin crashed /\ c.to # Target
  /\ copies' = copies \ {c}
  /\ received' = [received EXCEPT ![c.to] = @ + 1]
  /\ \/ \E hop \in Hops(c.to, Append(c.visited, c.to)) :
          /\ WatchAndSend(c.to, hop, Append(c.visited, c.to))
          /\ UNCHANGED reported
     \/ Report(c.to) /\ UNCHANGED <<at, frames, sent>>
  /\ UNCHANGED <<length, acks, errors, delivering, crashed, delivered, acked, air>>

\* handle_data() on the target: the ACK goes to the node the copy visited last.  (An
\* ACK for a node whose MAC is not known is as good as one the air loses.)
TargetAcks(c) ==
  LET previous == IF c.visited = <<>> THEN Source ELSE c.visited[Len(c.visited)] IN
  /\ c \in copies /\ c.to = Target
  /\ Target \notin crashed /\ ~ delivering
  /\ copies' = copies \ {c}
  /\ received' = [received EXCEPT ![Target] = @ + 1]
  /\ acks' = [acks EXCEPT ![<<Target, previous>>] = @ + 1]
  /\ delivering' = TRUE
  /\ UNCHANGED <<length, at, frames, errors, crashed, sent, counts, air>>

\* Only then the packet is published to the application.
TargetDelivers ==
  /\ delivering /\ Target \notin crashed
  /\ delivering' = FALSE
  /\ delivered' = delivered + 1
  /\ UNCHANGED <<length, at, frames, copies, acks, errors, crashed, received, sent,
                 reported, acked, air>>

-----------------------------------------------------------------------------
(* Dispatcher::handle_internal() for a StatusFrame. *)

StatusArrives(f) == f \in frames /\ f.radio # "busy" /\ f.node \notin crashed

\* The entry was erased: nothing happens.
StatusUnknown(f) ==
  /\ StatusArrives(f) /\ f.entry = "none"
  /\ frames' = frames \ {f}
  /\ UNCHANGED <<length, at, copies, acks, errors, delivering, crashed, received, sent,
                 counts, air>>

\* The neighbour has the packet: the ACK timeout starts, also when a newer frame is
\* still in the radio.
\* Mutant: it is computed and not started.
StatusSuccess_Unarmed(f) ==
  /\ StatusArrives(f) /\ f.entry = "live" /\ f.radio = "ok"
  /\ frames' = frames \ {f}
  /\ UNCHANGED <<length, at, copies, acks, errors, delivering, crashed, received, sent,
                 counts, air>>
StatusSuccess(f) ==
  /\ StatusArrives(f) /\ f.entry = "live" /\ f.radio = "ok"
  /\ at' = [at EXCEPT ![f.node].armed = TRUE]
  /\ frames' = frames \ {f}
  /\ UNCHANGED <<length, copies, acks, errors, delivering, crashed, received, sent,
                 counts, air>>

StatusRetry(f) ==
  /\ StatusArrives(f) /\ f.entry = "live" /\ f.radio = "error"
  /\ RetriesLeft(f.node)
  /\ \E hop \in Hops(f.node, at[f.node].visited) : Retransmit(f.node, hop, frames \ {f})
  /\ UNCHANGED <<length, copies, acks, errors, delivering, crashed, received, counts,
                 air>>

\* No retransmission is left or there is no path.  The error ACK is built from the
\* Internal packet of the StatusFrame, whose source is not initialised and whose
\* packet_id is 0: it may not be sent at all, or be sent to any neighbour.
StatusGiveUp(f) ==
  LET n == f.node IN
  /\ StatusArrives(f) /\ f.entry = "live" /\ f.radio = "error"
  /\ Report(n)
  /\ Forget(n, f.nth, frames \ {f})
  /\ \E hit \in {{}} \cup {{h} : h \in Neighbours[n]} : errors' = errors \cup hit
  /\ UNCHANGED <<length, copies, acks, delivering, crashed, received, sent, delivered,
                 acked, air>>

\* The Metadata was deleted by the ACK or the failure of another copy.
StatusDangling(f) ==
  /\ StatusArrives(f) /\ f.entry = "dangling"
  /\ Ends(f.node)
  /\ UNCHANGED <<length, copies, errors, delivering>>

-----------------------------------------------------------------------------
(* Dispatcher::handle_ack(), for an ACK from m to n, and Dispatcher::tick(). *)

AckArrives(m, n) == acks[<<m, n>>] > 0 /\ n \notin crashed

\* On a relay the ACK goes on to the node before it on the route of the copy it has in
\* its entry, which need not be the copy that was acknowledged.
\* Mutant: to the last node of `visited', which is the relay itself.
PassedTo_Back(n) == at[n].visited[Len(at[n].visited)]
PassedTo(n) == IF Len(at[n].visited) = 1 THEN Source
               ELSE at[n].visited[Len(at[n].visited) - 1]

AckPassedOn(m, n) ==
  /\ AckArrives(m, n) /\ n # Source /\ at[n].tracked
  /\ acks' = [acks EXCEPT ![<<m, n>>] = @ - 1, ![<<n, PassedTo(n)>>] = @ + 1]
  /\ Forget(n, at[n].newest, frames)
  /\ UNCHANGED <<length, copies, errors, delivering, crashed, received, sent, counts,
                 air>>

AckSettles(m) ==
  /\ AckArrives(m, Source) /\ at[Source].tracked
  /\ acks' = [acks EXCEPT ![<<m, Source>>] = @ - 1]
  /\ Forget(Source, at[Source].newest, frames)
  /\ acked' = TRUE
  /\ UNCHANGED <<length, copies, errors, delivering, crashed, received, sent,
                 delivered, reported, air>>

\* The entry is gone, or the last relay has left the network graph of n, so that an
\* edge from node 0 is looked up for the parameters the ACK brings.
AckFault(m, n) ==
  /\ AckArrives(m, n)
  /\ ~ at[n].tracked \/ m # Target
  /\ Ends(n)
  /\ UNCHANGED <<length, copies, errors, delivering>>

\* The ACK timeout has passed: the source sends the packet again, if it may and if
\* there is a path, and gives it back otherwise; a relay forgets it.
\* Mutant: the packet is given back and kept.
TickErase_Kept(n) ==
  /\ at[n].armed /\ n \notin crashed
  /\ reported < 3
  /\ Report(n)
  /\ UNCHANGED <<length, at, frames, copies, acks, errors, delivering, crashed,
                 received, sent, delivered,
                 acked, air>>
TickErase(n) ==
  /\ at[n].armed /\ n \notin crashed
  /\ Report(n)
  /\ Forget(n, at[n].newest, frames)
  /\ UNCHANGED <<length, copies, acks, errors, delivering, crashed, received, sent,
                 delivered, acked, air>>

TickRetransmit ==
  /\ at[Source].armed /\ Source \notin crashed
  /\ RetriesLeft(Source)
  /\ \E hop \in Hops(Source, at[Source].visited) : Retransmit(Source, hop, frames)
  /\ UNCHANGED <<length, copies, acks, errors, delivering, crashed, received, counts,
                 air>>

-----------------------------------------------------------------------------
(* The radios, the air and the end of a process. *)

RadioDelivers(f) ==
  /\ f \in frames /\ f.radio = "busy" /\ f.node \notin crashed
  /\ Fits(DataSize(Len(f.visited), length))
  /\ frames' = (frames \ {f}) \cup {[f EXCEPT !.radio = "ok"]}
  /\ carried < MaxCopies
  /\ copies' = copies \cup
       {[to |-> f.hop, from |-> f.node, nth |-> f.nth, visited |-> f.visited]}
  /\ crossed' = crossed \cup {<<f.node, f.hop>>}
  /\ carried' = carried + 1
  /\ UNCHANGED <<length, at, acks, errors, delivering, crashed, received, sent, counts>>

\* to_frame() overruns its buffer and sends the first bytes only: the process ends, or
\* the neighbour reads a packet that makes no sense and ends or goes on.
Overrun(f) ==
  /\ f \in frames /\ f.radio = "busy" /\ f.node \notin crashed
  /\ ~ Fits(DataSize(Len(f.visited), length))
  /\ \E hit \in {{}, {f.node}, {f.hop}} : crashed' = crashed \cup hit
  /\ frames' = (frames \ {f}) \cup {[f EXCEPT !.radio = "ok"]}
  /\ UNCHANGED <<length, at, copies, acks, errors, delivering, received, sent, counts,
                 air>>

RadioFails(f) ==
  /\ f \in frames /\ f.radio = "busy" /\ f.node \notin crashed
  /\ frames' = (frames \ {f}) \cup {[f EXCEPT !.radio = "error"]}
  /\ UNCHANGED <<length, at, copies, acks, errors, delivering, crashed, received, sent,
                 counts, air>>

\* An error ACK finds no Metadata, which is dereferenced all the same.
ErrorAckArrives(n) ==
  /\ n \in errors /\ n \notin crashed
  /\ errors' = errors \ {n}
  /\ Ends(n)
  /\ UNCHANGED <<length, copies, delivering>>

AckLost(m, n) ==
  /\ acks[<<m, n>>] > 0
  /\ acks' = [acks EXCEPT ![<<m, n>>] = @ - 1]
  /\ UNCHANGED <<length, at, frames, copies, errors, delivering, crashed, received,
                 sent, counts, air>>

-----------------------------------------------------------------------------
HandleStatus(f) == \/ StatusUnknown(f) \/ StatusSuccess(f) \/ StatusRetry(f)
                   \/ StatusGiveUp(f) \/ StatusDangling(f)
Radio(f) == RadioDelivers(f) \/ RadioFails(f) \/ Overrun(f)
Tick(n) == TickErase(n) \/ (n = Source /\ TickRetransmit)

Next ==
  \/ \E n \in MessageLengths : Start(n) \/ StartOverrun(n)
  \/ \E c \in copies : Relay(c) \/ TargetAcks(c)
  \/ TargetDelivers
  \/ \E f \in frames : HandleStatus(f) \/ Radio(f)
  \/ \E m, n \in Nodes : AckPassedOn(m, n) \/ AckFault(m, n) \/ AckLost(m, n)
  \/ \E m \in Nodes : AckSettles(m)
  \/ \E n \in Nodes : Tick(n) \/ ErrorAckArrives(n)

Spec == Init /\ [][Next]_vars

\* The radios answer their frames, the main threads handle the answers and the Tick
\* threads look at every entry: while any of this is left to do, some of it is done.
\* (Since it comes to an end, no order has to be assumed.)  Nothing is promised of the
\* air, of a copy that has arrived, or of ACKs.
Work == (\E f \in frames : Radio(f) \/ HandleStatus(f)) \/ (\E n \in Nodes : Tick(n))

Fairness == WF_vars(Work)

FairSpec == Spec /\ Fairness
-----------------------------------------------------------------------------
(* Properties *)

\* However many copies there are, none is ever sent to a node it has visited and none
\* is forwarded more often than there are nodes; the packet may come back to its source,
\* which is not in `visited' at first, but only once (network.cpp:203, router.cpp:152).
NoRevisit == \A f \in frames :
  /\ \A i \in 1..Len(f.visited) : f.visited[i] # f.hop /\ f.visited[i] # Target
  /\ \A i, j \in 1..Len(f.visited) : f.visited[i] = f.visited[j] => i = j
  /\ f.node # Source => f.visited # <<>> /\ f.visited[Len(f.visited)] = f.node

\* A message that leaves room for every node but the target in `visited' never meets
\* the limit of 255 bytes, on no route and after no number of retransmissions
\* (packet.cpp:143-161).
RouteFits ==
  Fits(DataSize(Cardinality(Nodes) - 1, length)) =>
    \A f \in frames : Fits(DataSize(Len(f.visited), length))

\* An ACK settles the packet at its source only if the target has published it, or is
\* about to: the ACK goes out first (router.cpp:128,135), so the message is lost all
\* the same if the process of the target ends between the two.
HonestSuccess == acked => delivered > 0 \/ delivering

\* Whichever copy's `visited' a relay goes by, an ACK only goes back over hops that
\* some copy has carried (packet.cpp:12, dispatcher.cpp:183-185).
AckRetraces == \A m, n \in Nodes : acks[<<m, n>>] > 0 => <<n, m>> \in crossed

\* Each copy that reaches a node costs at most 1 + retransmission_max frames, also when
\* its Metadata is handed from copy to copy or made anew (history.cpp:55-58).
FrameBudget == \A n \in Nodes : sent[n] <= (1 + RetransmissionMax) * received[n]

\* The application hears of one outcome, success or one notice of failure, unless the
\* packet came back to its source and was taken for a packet to forward.
OneOutcome == reported > 1 \/ (acked /\ reported > 0) => received[Source] > 1

\* No History keeps the packet for ever, whatever copies, lost ACKs and ended processes
\* the network sees.
EntriesGo == \A n \in Nodes : at[n].tracked ~> ~ at[n].tracked \/ n \in crashed

=============================================================================
