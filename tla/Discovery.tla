----------------------------- MODULE Discovery -----------------------------
(***************************************************************************)
(* Tasks 1 and 2 of the routers (router.h:36-57): discover the topology    *)
(* and keep it up to date.  Each node that is up runs                      *)
(*   - Router::process(), which handles one topology packet at a time;     *)
(*   - nodeBroadcaster, which says every 15 s that the node is there;      *)
(*   - heartbeatDetector, which every 3 s collects the neighbours that     *)
(*     have not been heard for 20 s (Detect) and then drops one after      *)
(*     another (DropBroken), while the main thread goes on;                *)
(*   - the Dispatcher, which adds an edge it has a StatusFrame for and     *)
(*     broadcasts the EdgeDrop of a bad one.                               *)
(* A handler is one action, its broadcasts included.  A broadcast goes to  *)
(* the nodes that are up and in reach, and waits in the queue of each.  On *)
(* the air packets keep their order; in the simulator, which starts a      *)
(* thread per copy, they need not (`Ordered').                             *)
(*                                                                         *)
(* Time is what it is good for: a Node goes stale (Lapse) only if nothing  *)
(* can be heard of it, and a node says that it is there only when its last *)
(* NodeBroadcast has landed.                                               *)
(***************************************************************************)
EXTENDS Network, SequencesExt

CONSTANTS
  Nodes,       \* addresses of the routers
  Reach,       \* pairs <<a, b>>, a < b, of nodes whose radios can reach each other
  MaxCrashes,  \* how often routers stop,
  MaxOutages,  \* how often a pair of radios loses contact,
  MaxSends,    \* and how many data frames are sent, all nodes together
  MaxHops,     \* hops of the longest path a data frame is sent along
  MaxQueue,    \* packets on their way to a node
  Ordered,     \* TRUE if packets reach a node in the order they were sent
  Established  \* TRUE to begin after discovery, FALSE to begin with no router running

ASSUME TopologyAssumption ==
  /\ Nodes \subseteq 1..254
  /\ Reach \subseteq {e \in Nodes \X Nodes : e[1] < e[2]}
  /\ MaxCrashes \in Nat /\ MaxOutages \in Nat /\ MaxSends \in Nat /\ MaxHops \in Nat
  /\ MaxQueue \in Nat
  /\ Ordered \in BOOLEAN /\ Established \in BOOLEAN

VARIABLES
  up,       \* nodes whose router runs
  contact,  \* the pairs of Reach that have contact now
  net,      \* Router::network of each node
  broken,   \* what heartbeatDetector has collected and not dropped yet
  sending,  \* <<n, path>> if n waits for the StatusFrame of a data frame
  air,      \* broadcasts that are on their way to each node, in the order they were sent
  spent,    \* how much of each bound is used up
  doubted   \* edges that have lost contact, or an end of them, at some time

vars == <<up, contact, net, broken, sending, air, spent, doubted>>

Pair(a, b) == IF a < b THEN <<a, b>> ELSE <<b, a>>
Hears(n, b) == Pair(n, b) \in contact /\ n \in up /\ b \in up
Listeners(n) == {m \in up \ {n} : Pair(n, m) \in contact}

Silent == \A n \in Nodes : air[n] = <<>>

NodeBroadcast(n) == [type |-> "NodeBroadcast", address |-> n]
Graph(edges) == [type |-> "Graph", edges |-> edges]
EdgeDrop(a, b) == [type |-> "EdgeDrop", edge |-> <<a, b>>]

Packets == {NodeBroadcast(n) : n \in Nodes}
             \union {Graph(edges) : edges \in SUBSET {e \in Nodes \X Nodes : e[1] < e[2]}}
             \union {EdgeDrop(a, b) : a, b \in Nodes}

\* A Path of n, whose first hop is a neighbour, and the edges it takes.
Paths == UNION {[1..k -> Nodes] : k \in 1..MaxHops}
Hops(n, path) == {<<IF i = 1 THEN n ELSE path[i - 1], path[i]>> : i \in DOMAIN path}

\* The radios have room for what a step of n broadcasts, at most two packets.
Room(n) == \A m \in Listeners(n) : Len(air[m]) + 2 <= MaxQueue

\* Dispatcher::broadcast() of `packets', one after another, by n.
Broadcast(n, packets, queues) ==
  [m \in Nodes |-> IF m \in Listeners(n) THEN queues[m] \o packets ELSE queues[m]]

\* The network of n when discovery is complete: the whole graph, and the MACs of its neighbours.
Complete(n) ==
  LET both == UNION {Both(e[1], e[2]) : e \in Reach}
  IN [Merge(NewNetwork(n), Reach) EXCEPT !.macs = {b \in Nodes : <<n, b>> \in both}]

Init ==
  /\ up = IF Established THEN Nodes ELSE {}
  /\ net = [n \in Nodes |-> IF Established THEN Complete(n) ELSE NewNetwork(n)]
  /\ contact = Reach
  /\ broken = [n \in Nodes |-> {}]
  /\ sending = {}
  /\ air = [n \in Nodes |-> <<>>]
  /\ spent = [crashes |-> 0, outages |-> 0, sends |-> 0]
  /\ doubted = {}

(***************************************************************************)
(* The world: routers start and stop, radios lose contact and regain it,   *)
(* and time passes without a sign of a node.                               *)
(***************************************************************************)
Boot(n) ==
  /\ n \notin up
  /\ Room(n)
  /\ up' = up \union {n}
  /\ air' = Broadcast(n, <<NodeBroadcast(n)>>, air)
  /\ UNCHANGED <<contact, net, broken, sending, spent, doubted>>

\* The process of n ends, with all it knew and all that was coming in.
Halt(n) ==
  /\ up' = up \ {n}
  /\ net' = [net EXCEPT ![n] = NewNetwork(n)]
  /\ broken' = [broken EXCEPT ![n] = {}]
  /\ sending' = {s \in sending : s[1] # n}
  /\ air' = [air EXCEPT ![n] = <<>>]
  /\ doubted' = doubted \union {e \in Reach : n \in {e[1], e[2]}}
  /\ UNCHANGED contact

Crash(n) ==
  /\ n \in up
  /\ spent.crashes < MaxCrashes
  /\ spent' = [spent EXCEPT !.crashes = @ + 1]
  /\ Halt(n)

LoseContact(e) ==
  /\ e \in contact
  /\ spent.outages < MaxOutages
  /\ contact' = contact \ {e}
  /\ spent' = [spent EXCEPT !.outages = @ + 1]
  /\ doubted' = doubted \union {e}
  /\ UNCHANGED <<up, net, broken, sending, air>>

RegainContact(e) ==
  /\ e \in Reach \ contact
  /\ contact' = contact \union {e}
  /\ UNCHANGED <<up, net, broken, sending, air, spent, doubted>>

Lapse(n, b) ==
  /\ n \in up
  /\ b \in net[n].fresh /\ Pair(n, b) \in Reach
  /\ ~Hears(n, b)
  /\ net' = [net EXCEPT ![n].fresh = @ \ {b}]
  /\ UNCHANGED <<up, contact, broken, sending, air, spent, doubted>>

(***************************************************************************)
(* The threads of a node.                                                  *)
(***************************************************************************)
Heartbeat(n) ==
  /\ n \in up
  /\ Silent
  /\ Listeners(n) # {}
  /\ air' = Broadcast(n, <<NodeBroadcast(n)>>, air)
  /\ UNCHANGED <<up, contact, net, broken, sending, spent, doubted>>

Detect(n) ==
  LET stale == {b \in Nodes : <<n, b>> \in net[n].neighbours /\ b \notin net[n].fresh}
  IN /\ n \in up
     /\ broken[n] = {}
     /\ stale # {}
     /\ broken' = [broken EXCEPT ![n] = stale]
     /\ UNCHANGED <<up, contact, net, sending, air, spent, doubted>>

\* DropBroken that tells nobody.
DropBroken_Tacit(n, b) ==
  /\ b \in broken[n]
  /\ Room(n)
  /\ broken' = [broken EXCEPT ![n] = @ \ {b}]
  /\ net' = [net EXCEPT ![n] = Drop(@, n, b)]
  /\ UNCHANGED <<up, contact, sending, air, spent, doubted>>

\* The edge may have gone meanwhile, or its other end may have been heard again.
DropBroken(n, b) ==
  /\ b \in broken[n]
  /\ Room(n)
  /\ broken' = [broken EXCEPT ![n] = @ \ {b}]
  /\ net' = [net EXCEPT ![n] = Drop(@, n, b)]
  /\ air' = Broadcast(n, <<EdgeDrop(n, b)>>, air)
  /\ UNCHANGED <<up, contact, sending, spent, doubted>>

\* deliver() hands the radio a frame for the first hop of a path through the graph.
SendData(n, path) ==
  /\ n \in up
  /\ Hops(n, path) \subseteq net[n].neighbours
  /\ path[1] \in net[n].macs
  /\ \A i, j \in DOMAIN path : path[i] # n /\ (path[i] = path[j] => i = j)
  /\ <<n, path>> \notin sending
  /\ spent.sends < MaxSends
  /\ sending' = sending \union {<<n, path>>}
  /\ spent' = [spent EXCEPT !.sends = @ + 1]
  /\ UNCHANGED <<up, contact, net, broken, air, doubted>>

(***************************************************************************)
(* Its StatusFrame.  update() adds the first edge if it has gone in the    *)
(* meantime; after a success timeout() does so with each edge of the path. *)
(* After the last retransmission of a packet a bad edge is announced to    *)
(* the others, but not dropped here.                                       *)
(***************************************************************************)
HandleStatus(n, path) ==
  /\ <<n, path>> \in sending
  /\ Room(n)
  /\ sending' = sending \ {<<n, path>>}
  /\ \/ /\ net' = [net EXCEPT ![n] = Merge(@, Hops(n, path))]
        /\ air' = air
     \/ /\ ~Hears(n, path[1])
        /\ net' = [net EXCEPT ![n] = AddEdge(@, n, path[1])]
        /\ air' \in {air, Broadcast(n, <<EdgeDrop(n, path[1])>>, air)}
  /\ UNCHANGED <<up, contact, broken, spent, doubted>>

(***************************************************************************)
(* Router::process()                                                       *)
(***************************************************************************)
\* HandleNodeBroadcast that answers with a NodeBroadcast only.
HandleNodeBroadcast_Brief(n, p, rest) ==
  LET b == p.address
      known == AddEdge([AddNode(net[n], b) EXCEPT !.macs = @ \union {b}], b, n)
  IN /\ p.type = "NodeBroadcast"
     /\ net' = [net EXCEPT ![n] = [known EXCEPT !.fresh = @ \union {b}]]
     /\ air' = IF b \in net[n].macs THEN rest ELSE Broadcast(n, <<NodeBroadcast(n)>>, rest)
     /\ UNCHANGED <<up, contact, broken, sending, spent, doubted>>

\* A node is introduced to one it has no MAC of; from then on only last_tick changes.
HandleNodeBroadcast(n, p, rest) ==
  LET b == p.address
      noted == AddNode(net[n], b)
      known == AddEdge([noted EXCEPT !.macs = @ \union {b}], b, n)
  IN /\ p.type = "NodeBroadcast"
     /\ IF b \in noted.macs
        THEN /\ net' = [net EXCEPT ![n] = [noted EXCEPT !.fresh = @ \union {b}]]
             /\ air' = rest
        ELSE /\ net' = [net EXCEPT ![n] = [known EXCEPT !.fresh = @ \union {b}]]
             /\ air' = Broadcast(n, <<NodeBroadcast(n), Graph(Edges(known))>>, rest)
     /\ UNCHANGED <<up, contact, broken, sending, spent, doubted>>

\* HandleGraph that keeps what it learns to itself.
HandleGraph_Tacit(n, p, rest) ==
  /\ p.type = "Graph"
  /\ net' = [net EXCEPT ![n] = Merge(@, p.edges)]
  /\ air' = rest
  /\ UNCHANGED <<up, contact, broken, sending, spent, doubted>>

HandleGraph(n, p, rest) ==
  LET merged == Merge(net[n], p.edges)
  IN /\ p.type = "Graph"
     /\ net' = [net EXCEPT ![n] = merged]
     /\ air' = IF AddsNothing(net[n], p.edges) THEN rest
               ELSE Broadcast(n, <<Graph(Edges(merged))>>, rest)
     /\ UNCHANGED <<up, contact, broken, sending, spent, doubted>>

\* drop(a, b) || drop(b, a): the second is tried only if the first removed nothing.
HandleEdgeDrop(n, p, rest) ==
  LET a == p.edge[1]
      b == p.edge[2]
  IN /\ p.type = "EdgeDrop"
     /\ CanDrop(net[n], a, b)
     /\ IF Drops(net[n], a, b)
        THEN /\ net' = [net EXCEPT ![n] = Drop(@, a, b)]
             /\ air' = Broadcast(n, <<p>>, rest)
        ELSE /\ net' = [net EXCEPT ![n] = Drop(Drop(@, a, b), b, a)]
             /\ air' = rest
     /\ UNCHANGED <<up, contact, broken, sending, spent, doubted>>

\* An EdgeDrop for a node without a row: drop() dereferences an end iterator.
HandleUnknownEdge(n, p) ==
  /\ p.type = "EdgeDrop"
  /\ ~CanDrop(net[n], p.edge[1], p.edge[2])
  /\ Halt(n)
  /\ UNCHANGED spent

Process(n) ==
  /\ n \in up
  /\ Room(n)
  /\ \E i \in IF Ordered THEN {1} \intersect DOMAIN air[n] ELSE DOMAIN air[n] :
       LET p == air[n][i]
           rest == [air EXCEPT ![n] = RemoveAt(@, i)]
       IN \/ HandleNodeBroadcast(n, p, rest)
          \/ HandleGraph(n, p, rest)
          \/ HandleEdgeDrop(n, p, rest)
          \/ HandleUnknownEdge(n, p)

Next ==
  \/ \E n \in Nodes :
       \/ Boot(n) \/ Crash(n) \/ Heartbeat(n) \/ Detect(n) \/ Process(n)
       \/ \E b \in Nodes : Lapse(n, b) \/ DropBroken(n, b)
       \/ \E path \in Paths : SendData(n, path) \/ HandleStatus(n, path)
  \/ \E e \in Reach : LoseContact(e) \/ RegainContact(e)

Spec == Init /\ [][Next]_vars

\* The threads run, copies land, and what is not heard goes stale.
FairSpec ==
  /\ Spec
  /\ \A n \in Nodes :
       /\ WF_vars(Heartbeat(n)) /\ WF_vars(Process(n))
       /\ WF_vars(Detect(n)) /\ WF_vars(\E b \in Nodes : DropBroken(n, b))
       /\ WF_vars(\E path \in Paths : HandleStatus(n, path))
       /\ \A b \in Nodes : WF_vars(Lapse(n, b))

----------------------------------------------------------------------------
\* The variables keep to their types.
TypeOK ==
  /\ up \subseteq Nodes
  /\ contact \subseteq Reach
  /\ net \in [Nodes -> Networks(Nodes)]
  /\ broken \in [Nodes -> SUBSET Nodes]
  /\ sending \subseteq Nodes \X Paths
  /\ air \in [Nodes -> Seq(Packets)]
  /\ spent \in [crashes : 0..MaxCrashes, outages : 0..MaxOutages, sends : 0..MaxSends]
  /\ doubted \subseteq Reach

\* Whatever is added, merged and dropped, in whatever order, path() never meets an
\* edge without its counterpart, an edge to a node that was erased (network.cpp:200
\* would read the MAC of a null pointer) or an address beyond its vectors.
GraphSound == \A n \in Nodes : Sound(net[n])

\* Graph packets never invent an edge: each that any node knows connects two radios in
\* reach whose routers run, or it has been out of contact.
RealEdges ==
  \A n \in Nodes : \A e \in Edges(net[n]) :
    e \in Reach /\ ({e[1], e[2]} \subseteq up \/ e \in doubted)

\* Once nothing is on its way and all neighbours have been heard, they agree on the
\* whole graph, in whatever order the routers started (test/features/topology_discovery).
Agreement ==
  (doubted = {} /\ Silent /\ \A n \in up : Listeners(n) \subseteq net[n].macs)
    => \A n \in up : \A m \in Listeners(n) :
         Edges(net[n]) = Edges(net[m]) /\ Pair(n, m) \in Edges(net[n])

\* A node never drops an edge that has always been good: not by mixing up edges, nor
\* because the edge's Node went with another edge.
NoFalseDrop ==
  [][\A n \in up \intersect up' : Edges(net[n]) \ Edges(net'[n]) \subseteq doubted]_vars

\* A pair of radios that stays out of contact is dropped for good, by both and by every other
\* router (router.h:49-52: "This operation allows to remove faulty edges in whole Network").
BrokenEdgesGo ==
  \A e \in Reach : <>[](e \notin contact) => <>[](\A n \in Nodes : e \notin Edges(net[n]))

\* When all routers run and contact is never lost again, every router ends up with the
\* whole topology, and keeps it.
TopologyDiscovered ==
  <>[](up = Nodes /\ contact = Reach) => <>[](\A n \in Nodes : Edges(net[n]) = Reach)
=============================================================================
