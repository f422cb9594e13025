------------------------------- MODULE Gateway ------------------------------
(***************************************************************************)
(* A router that starts, and its applications: what happens to data for    *)
(* this node between the radio and an application, and to the answer on    *)
(* its way back.                                                           *)
(*                                                                         *)
(*   radio -- serial line -- main thread -- Redis -- echo                  *)
(*     radio -- serial line -- subscription thread -- Redis -- echo        *)
(*                                                                         *)
(* Composed of the serial line (Serial) and Redis (Bus).  The History of   *)
(* Dispatcher is not repeated here: frames are not sent again, and what    *)
(* other kinds of packets do to the graph is left out.  Paths are given    *)
(* (Hop).                                                                  *)
(***************************************************************************)
EXTENDS Serial, Bus

CONSTANTS
  Address,      \* of this node
  Macs,         \* MACs of the neighbours that the router knows
  Hop,          \* first hop of the path to each node that can be reached
  FrameIds,     \* ids history may reserve
  Scenarios     \* what may come from outside: `traffic' of other routers, `published' by
                \* another application, each once, and the number of `beacons'

\* Messages that fit into a packet.
Contents == {m \in Seq(0..255) : Fits(DataSize(0, Len(m)))}

ASSUME GatewayAssumption ==
  /\ Address \in 1..254
  /\ \E ns \in SUBSET (1..254) : Macs \in [ns -> [1..8 -> 0..255]]
  /\ \E ns \in SUBSET (1..254) : Hop \in [ns -> DOMAIN Macs]
  /\ FrameIds \subseteq 1..254
  /\ \A s \in Scenarios :
       /\ IsTransmissions(s.traffic) /\ s.beacons \in Nat
       /\ s.published \subseteq Channels \X Contents

VARIABLES
  delivering,  \* the data packet the main thread is about to publish, if any
  unpublished, \* what another application is still to publish
  beacons,     \* heartbeats that are still to come
  \* history variables
  requests,    \* messages the main thread has published, and whether both the router and
               \* the application on that port were listening
  answers      \* messages of echo that its router has sent

vars == <<serial, bus, delivering, unpublished, beacons, requests, answers>>
local == <<delivering, unpublished, beacons, requests, answers>>

Init ==
  /\ \E s \in Scenarios :
       SerialInit(s.traffic) /\ unpublished = s.published /\ beacons = s.beacons
  /\ BusInit
  /\ delivering = <<>>
  /\ requests = <<>> /\ answers = <<>>

\* Frame::BROADCAST in memory
Broadcast == <<0, 0, 0, 0, 0, 0, 255, 255>>

\* Packet::to_frame() with the fields of the frame.
TransmitFrame(id, mac, packet) ==
  [type |-> Transmit, header |-> <<id>> \o mac \o self.network \o <<0, 0>>,
   data |-> To_frame(packet)]

\* Dispatcher::send(): nothing is written to a node whose MAC is unknown.
SendTo(node, packet) ==
  IF node \in DOMAIN Macs THEN Write(TransmitFrame(0, Macs[node], packet))
  ELSE UNCHANGED <<down, said>>

\* Dispatcher::deliver(): nothing is written if there is no path.
DeliverTo(node, id, packet) ==
  IF node \in DOMAIN Hop THEN Write(TransmitFrame(id, Macs[Hop[node]], packet))
  ELSE UNCHANGED <<down, said>>

Running == thread[Router] # "none"

-----------------------------------------------------------------------------
(* The router *)

\* The constructor goes on to driver.self(), and the main thread to its loop.
StartRouter == Started /\ Run(Router) /\ UNCHANGED <<serial, local>>

\* Dispatcher::scan() and Router::process() for a data packet: for this node it is
\* acknowledged first, for all it is not, for another one it goes on.
HandleData(p) ==
  \/ /\ p.destination = Address /\ delivering' = <<p>>
     /\ LET ack == AckOf(p, Address, 0) IN SendTo(ack.destination, ack)
  \/ p.destination = 0 /\ delivering' = <<p>> /\ UNCHANGED <<down, said>>
  \/ /\ p.destination \notin {0, Address} /\ delivering' = delivering
     /\ \E id \in FrameIds :
          DeliverTo(p.destination, id, [p EXCEPT !.visited = Append(@, Address)])

\* Router::receive() and process(), the latter up to driver.deliver().
Process ==
  /\ Running /\ delivering = <<>> /\ Complete(up)
  /\ \E f \in {Unserialize(up)} :
       /\ Take(f)
       /\ IF f.type = Receive /\ From_frame(f.data).type = "Data"
          THEN HandleData(From_frame(f.data))
          ELSE UNCHANGED <<down, said, delivering>>
  /\ UNCHANGED <<router, radio, bus, unpublished, beacons, requests, answers>>

\* driver.deliver() to the applications of this node.
Deliver ==
  /\ delivering # <<>> /\ delivering' = <<>>
  /\ LET p == delivering[1] IN
     /\ Publish([port |-> p.port, destination |-> SELF, source |-> p.source], p.content)
     /\ requests' = Append(requests,
          [message |-> p.content,
           heard |-> \A s \in Subscribers : listening[s] /\ (s # Router => Listens[s] = p.port)])
  /\ UNCHANGED <<serial, thread, should_run, queued, listening, handling, stopping, late,
                 unpublished, beacons, answers>>

\* What the subscription thread does with a message of an application.
Outgoing(h) == h.channel.destination # SELF

Send ==
  /\ HandlerReturns(Router)
  /\ LET h == handling[Router]
         packet(id) == [type |-> "Data", destination |-> h.channel.destination,
                        source |-> Address, packet_id |-> id, port |-> h.channel.port,
                        visited |-> <<>>, content |-> h.message]
     IN IF Outgoing(h)
        THEN /\ \E id \in FrameIds :
                  DeliverTo(h.channel.destination, id, packet(id))
             /\ answers' = Append(answers, h.message)
        ELSE UNCHANGED <<down, said, answers>>
  /\ UNCHANGED <<router, radio, up, taken, inbox, delivering, unpublished, beacons, requests>>

\* nodeBroadcaster
Beacon ==
  /\ Running /\ beacons > 0 /\ beacons' = beacons - 1
  /\ Write(TransmitFrame(0, Broadcast, [type |-> "NodeBroadcast", address |-> Address]))
  /\ UNCHANGED <<router, radio, up, taken, bus, delivering, unpublished, requests, answers>>

-----------------------------------------------------------------------------
(* Applications *)

StartApp(a) == Run(a) /\ UNCHANGED <<serial, local>>

\* The callback of echo: what comes from another node goes back there.
\* Mutant: only what comes from this node.
Echoes_Own(h) == h.channel.source = SELF
Echoes(h) == h.channel.source # SELF

Echo(a) ==
  /\ HandlerReturns(a)
  /\ LET h == handling[a] IN
     IF Echoes(h)
     THEN Publish([port |-> Listens[a], destination |-> h.channel.source, source |-> SELF],
                  h.message)
     ELSE UNCHANGED inbox
  /\ UNCHANGED <<serial, local>>

StopApp(a) == Stop(a) /\ UNCHANGED <<serial, local>>

\* Another application publishes: console, for one.
PublishOwn ==
  /\ \E p \in unpublished :
       Publish(p[1], p[2]) /\ unpublished' = unpublished \ {p}
  /\ UNCHANGED <<serial, thread, should_run, queued, listening, handling, stopping, late,
                 delivering, beacons, requests, answers>>

-----------------------------------------------------------------------------

Line == (Ask \/ Get \/ Listen \/ Forward) /\ UNCHANGED <<bus, local>>
Redis == (\E s \in Subscribers : Loop(s)) /\ UNCHANGED <<serial, local>>

Next == Line \/ Redis \/ StartRouter \/ Process \/ Deliver \/ Send \/ Beacon \/ PublishOwn
        \/ \E a \in Apps : StartApp(a) \/ Echo(a) \/ StopApp(a)

Spec == Init /\ [][Next]_vars

System == Redis \/ (\E a \in Apps : Echo(a)) \/ StartRouter \/ Deliver \/ Send \/ Process
          \/ Line

\* Threads go on, the radio answers and delivers, Redis serves its clients, and echo
\* returns from its callback.  As every behaviour of the model is finite, no part of this
\* can be starved by another.
FairSpec == Spec /\ WF_vars(System)

-----------------------------------------------------------------------------
(* Properties *)

TypeOK ==
  /\ SerialTypeOK /\ BusTypeOK
  /\ Len(delivering) <= 1 /\ \A i \in 1..Len(delivering) : delivering[i] \in DataPackets
  /\ unpublished \subseteq Channels \X Contents /\ beacons \in Nat

Asked == [i \in 1..Len(requests) |-> requests[i].message]
OwnMessages == {p[2] : p \in UNION {s.published : s \in Scenarios}}
Echoed == {i \in 1..Len(answers) : answers[i] \notin OwnMessages}

\* If no two requests are the same, echo's answers leave the node in the order in which
\* the requests came in, none twice, and none that was not asked for: although they pass
\* three threads and two connections, and echo hears its own port (echo.cpp:16-19).
AnswersInOrder ==
  (\A i, j \in 1..Len(Asked) : Asked[i] = Asked[j] => i = j)
    /\ (\A i \in 1..Len(Asked) : Asked[i] \notin OwnMessages) =>
  \E place \in [Echoed -> 1..Len(Asked)] :
    \A i \in Echoed :
      /\ Asked[place[i]] = answers[i]
      /\ \A j \in Echoed : j < i => place[j] < place[i]

\* A request that is published while both echo and the router listen is answered, unless
\* echo stops.  Before that the request or the answer may be lost: the main thread does
\* not wait until its subscription is made (router.cpp:48, subscription.cpp:42-47).
Answered == <>[](\A i \in 1..Len(requests) :
  requests[i].heard /\ (\A a \in Apps : ~stopping[a]) =>
    \E j \in 1..Len(answers) : answers[j] = requests[i].message)

=============================================================================
