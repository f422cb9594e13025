-------------------------- MODULE DiscoveryProofs --------------------------
(***************************************************************************)
(* Theorems about Discovery for every set of routers, every topology of    *)
(* their radios and every bound.                                           *)
(***************************************************************************)
EXTENDS Discovery, NetworkProofs, SequenceTheorems

\* A data frame is on its way along edges only, none of which leads back to its own node:
\* its StatusFrame may add all of them to a graph that has lost them.
PathsSound == \A s \in sending : \A e \in Hops(s[1], s[2]) : e[1] # e[2]

NetsSound == net \in [Nodes -> Networks(Nodes)] /\ GraphSound

\* The types of the other variables.
Rest == /\ up \subseteq Nodes
        /\ contact \subseteq Reach
        /\ broken \in [Nodes -> SUBSET Nodes]
        /\ sending \subseteq Nodes \X Paths
        /\ spent \in [crashes : 0..MaxCrashes, outages : 0..MaxOutages, sends : 0..MaxSends]
        /\ doubted \subseteq Reach

AirType == air \in [Nodes -> Seq(Packets)]

\* GraphSound is inductive together with the types and the edges that are still to come.
GraphInv == Rest /\ AirType /\ NetsSound /\ PathsSound

LEMMA InvImplies == GraphInv => TypeOK /\ GraphSound
BY DEF GraphInv, TypeOK, Rest, AirType, NetsSound

-----------------------------------------------------------------------------
(* Packets and queues.                                                     *)

LEMMA BroadcastType ==
  ASSUME NEW n \in Nodes, NEW packets \in Seq(Packets),
         NEW queues \in [Nodes -> Seq(Packets)]
  PROVE  Broadcast(n, packets, queues) \in [Nodes -> Seq(Packets)]
<1>1. \A m \in Nodes : queues[m] \o packets \in Seq(Packets)
  BY ConcatProperties
<1> QED BY <1>1 DEF Broadcast

LEMMA RestType ==
  ASSUME AirType, NEW n \in Nodes, NEW i \in DOMAIN air[n]
  PROVE  /\ air[n][i] \in Packets
         /\ [air EXCEPT ![n] = RemoveAt(@, i)] \in [Nodes -> Seq(Packets)]
<1> DEFINE q == air[n]
<1>1. /\ q \in Seq(Packets) /\ i \in 1..Len(q) /\ Len(q) \in Nat
      /\ \A j \in 1..Len(q) : q[j] \in Packets
  BY LenProperties DEF AirType
<1> HIDE DEF q
<1>2. SubSeq(q, 1, i - 1) \in Seq(Packets)
  <2>1. 1 \in Int /\ i - 1 \in Int /\ \A j \in 1..(i - 1) : q[j] \in Packets
    BY <1>1
  <2> QED BY <2>1, SubSeqProperties
<1>3. SubSeq(q, i + 1, Len(q)) \in Seq(Packets)
  <2>1. i + 1 \in Int /\ Len(q) \in Int /\ \A j \in (i + 1)..Len(q) : q[j] \in Packets
    BY <1>1
  <2> QED BY <2>1, SubSeqProperties
<1>4. RemoveAt(q, i) \in Seq(Packets)
  BY <1>2, <1>3, ConcatProperties DEF RemoveAt
<1> QED BY <1>1, <1>4 DEF AirType, q

LEMMA PacketTypes ==
  /\ \A n \in Nodes : NodeBroadcast(n) \in Packets
  /\ \A a, b \in Nodes : EdgeDrop(a, b) \in Packets
  /\ \A v : SoundNetwork(v, Nodes) => Graph(Edges(v)) \in Packets
<1>1. \A v : SoundNetwork(v, Nodes)
               => Edges(v) \in SUBSET {e \in Nodes \X Nodes : e[1] < e[2]}
  BY DEF SoundNetwork, Networks, Edges
<1> QED BY <1>1 DEF Packets

LEMMA OrderedPairs ==
  ASSUME NEW edges \in SUBSET {e \in Nodes \X Nodes : e[1] < e[2]}
  PROVE  edges \in SUBSET (Nodes \X Nodes) /\ \A e \in edges : e[1] # e[2]
<1>1. \A a, b \in Int : a < b => a # b
  OBVIOUS
<1>2. \A a, b \in Nodes : a < b => a # b
  BY <1>1, TopologyAssumption
<1>3. \A e \in edges : e \in Nodes \X Nodes /\ e[1] < e[2]
  OBVIOUS
<1>4. \A e \in edges : e[1] \in Nodes /\ e[2] \in Nodes
  BY <1>3
<1> QED BY <1>2, <1>3, <1>4

LEMMA PacketFields ==
  ASSUME NEW p \in Packets
  PROVE  /\ p.type = "NodeBroadcast" => p.address \in Nodes
         /\ p.type = "Graph" => /\ p.edges \in SUBSET (Nodes \X Nodes)
                                /\ \A e \in p.edges : e[1] # e[2]
         /\ p.type = "EdgeDrop" => p.edge[1] \in Nodes /\ p.edge[2] \in Nodes
<1>1. CASE \E n \in Nodes : p = NodeBroadcast(n)
  BY <1>1 DEF NodeBroadcast
<1>2. CASE \E edges \in SUBSET {e \in Nodes \X Nodes : e[1] < e[2]} : p = Graph(edges)
  <2>1. PICK edges \in SUBSET {e \in Nodes \X Nodes : e[1] < e[2]} : p = Graph(edges)
    BY <1>2
  <2>2. edges \in SUBSET (Nodes \X Nodes) /\ \A e \in edges : e[1] # e[2]
    BY OrderedPairs
  <2> QED BY <2>1, <2>2 DEF Graph
<1>3. CASE \E a, b \in Nodes : p = EdgeDrop(a, b)
  BY <1>3 DEF EdgeDrop
<1> QED BY <1>1, <1>2, <1>3 DEF Packets

LEMMA PathTypes ==
  ASSUME NEW n \in Nodes, NEW path \in Paths
  PROVE  path[1] \in Nodes /\ Hops(n, path) \in SUBSET (Nodes \X Nodes)
<1>1. PICK k \in 1..MaxHops : path \in [1..k -> Nodes]
  BY DEF Paths
<1>2. k \in Nat /\ k >= 1
  BY <1>1, TopologyAssumption
<1>3. \A i \in 1..k : i # 1 => i - 1 \in 1..k
  BY <1>2
<1> QED BY <1>1, <1>2, <1>3 DEF Hops

LEMMA SetNetwork ==
  ASSUME NetsSound, NEW n \in Nodes, NEW v, SoundNetwork(v, Nodes)
  PROVE  /\ [net EXCEPT ![n] = v] \in [Nodes -> Networks(Nodes)]
         /\ \A m \in Nodes : Sound([net EXCEPT ![n] = v][m])
BY DEF NetsSound, GraphSound, SoundNetwork

LEMMA NetworkOf ==
  ASSUME NetsSound, NEW n \in Nodes PROVE SoundNetwork(net[n], Nodes)
BY DEF NetsSound, GraphSound, SoundNetwork

LEMMA AddressesSmall == Nodes \in SUBSET (1..254)
BY TopologyAssumption

-----------------------------------------------------------------------------
(* Init and the steps.                                                     *)

LEMMA GraphInit == ASSUME Init PROVE GraphInv
<1> Nodes \in SUBSET (1..254)
  BY AddressesSmall
<1>1. Reach \in SUBSET (Nodes \X Nodes) /\ \A e \in Reach : e[1] # e[2]
  BY TopologyAssumption, OrderedPairs
<1>2. ASSUME NEW n \in Nodes PROVE SoundNetwork(NewNetwork(n), Nodes)
  BY NewNetworkSound
<1>3. ASSUME NEW n \in Nodes PROVE SoundNetwork(Complete(n), Nodes)
  <2>1. SoundNetwork(Merge(NewNetwork(n), Reach), Nodes)
    BY <1>1, <1>2, MergeSound
  <2> DEFINE macs == {b \in Nodes : <<n, b>> \in UNION {Both(e[1], e[2]) : e \in Reach}}
             merged == Merge(NewNetwork(n), Reach)
  <2>2. macs \in SUBSET Nodes
    OBVIOUS
  <2>3. Complete(n) = [merged EXCEPT !.macs = macs]
    BY DEF Complete
  <2> HIDE DEF macs, merged
  <2>4. SoundNetwork(merged, Nodes)
    BY <2>1 DEF merged
  <2>5. SoundNetwork([merged EXCEPT !.macs = macs], Nodes)
    BY <2>2, <2>4, NotesSound
  <2> QED BY <2>3, <2>5
<1>4. NetsSound
  <2>1. net = [n \in Nodes |-> IF Established THEN Complete(n) ELSE NewNetwork(n)]
    BY DEF Init
  <2> QED BY <1>2, <1>3, <2>1 DEF NetsSound, GraphSound, SoundNetwork
<1>5. AirType
  BY EmptySeq DEF Init, AirType
<1>6. Rest
  BY TopologyAssumption DEF Init, Rest
<1>7. PathsSound
  BY DEF Init, PathsSound
<1> QED BY <1>4, <1>5, <1>6, <1>7 DEF GraphInv

\* Boot and Heartbeat: a NodeBroadcast of n goes out.
LEMMA InvSpeak ==
  ASSUME GraphInv, NEW n \in Nodes, Boot(n) \/ Heartbeat(n) PROVE GraphInv'
<1>1. AirType'
  <2>1. <<NodeBroadcast(n)>> \in Seq(Packets)
    BY PacketTypes
  <2>2. Broadcast(n, <<NodeBroadcast(n)>>, air) \in [Nodes -> Seq(Packets)]
    BY <2>1, BroadcastType DEF GraphInv, AirType
  <2> QED BY <2>2 DEF Boot, Heartbeat, AirType
<1>2. Rest' /\ UNCHANGED <<net, sending>>
  BY DEF GraphInv, Rest, Boot, Heartbeat
<1> QED BY <1>1, <1>2 DEF GraphInv, NetsSound, GraphSound, PathsSound

LEMMA InvHalt ==
  ASSUME GraphInv, NEW n \in Nodes, Halt(n),
         spent' \in [crashes : 0..MaxCrashes, outages : 0..MaxOutages, sends : 0..MaxSends]
  PROVE  GraphInv'
<1> Nodes \in SUBSET (1..254)
  BY AddressesSmall
<1>1. NetsSound'
  <2>1. SoundNetwork(NewNetwork(n), Nodes)
    BY NewNetworkSound
  <2>2. net' = [net EXCEPT ![n] = NewNetwork(n)]
    BY DEF Halt
  <2> QED BY <2>1, <2>2, SetNetwork DEF GraphInv, NetsSound, GraphSound
<1>2. AirType'
  BY EmptySeq DEF GraphInv, AirType, Halt
<1>3. Rest'
  BY DEF GraphInv, Rest, Halt
<1>4. PathsSound'
  BY DEF GraphInv, PathsSound, Halt
<1> QED BY <1>1, <1>2, <1>3, <1>4 DEF GraphInv

LEMMA InvCrash ==
  ASSUME GraphInv, NEW n \in Nodes, Crash(n) PROVE GraphInv'
<1>1. spent' \in [crashes : 0..MaxCrashes, outages : 0..MaxOutages, sends : 0..MaxSends]
  BY TopologyAssumption DEF GraphInv, Rest, Crash
<1> QED BY <1>1, InvHalt DEF Crash

LEMMA InvContact ==
  ASSUME GraphInv, NEW e \in Reach, LoseContact(e) \/ RegainContact(e) PROVE GraphInv'
<1>1. spent' \in [crashes : 0..MaxCrashes, outages : 0..MaxOutages, sends : 0..MaxSends]
  BY TopologyAssumption DEF GraphInv, Rest, LoseContact, RegainContact
<1>2. Rest' /\ UNCHANGED <<air, net, sending>>
  BY <1>1 DEF GraphInv, Rest, LoseContact, RegainContact
<1> QED BY <1>2 DEF GraphInv, AirType, NetsSound, GraphSound, PathsSound

LEMMA InvLapse ==
  ASSUME GraphInv, NEW n \in Nodes, NEW b \in Nodes, Lapse(n, b) PROVE GraphInv'
<1> DEFINE v == [net[n] EXCEPT !.fresh = @ \ {b}]
<1>1. SoundNetwork(v, Nodes)
  <2>1. SoundNetwork(net[n], Nodes)
    BY NetworkOf DEF GraphInv
  <2>2. net[n].fresh \ {b} \in SUBSET Nodes
    BY <2>1 DEF SoundNetwork, Networks
  <2> QED BY <2>1, <2>2, NotesSound, AddressesSmall
<1>2. net' = [net EXCEPT ![n] = v]
  BY DEF Lapse
<1> HIDE DEF v
<1>3. NetsSound'
  BY <1>1, <1>2, SetNetwork DEF GraphInv, NetsSound, GraphSound
<1> QED BY <1>3 DEF GraphInv, Rest, AirType, PathsSound, Lapse

LEMMA InvDetect ==
  ASSUME GraphInv, NEW n \in Nodes, Detect(n) PROVE GraphInv'
BY DEF GraphInv, Rest, AirType, NetsSound, GraphSound, PathsSound, Detect

LEMMA InvDropBroken ==
  ASSUME GraphInv, NEW n \in Nodes, NEW b \in Nodes, DropBroken(n, b) PROVE GraphInv'
<1>1. SoundNetwork(Drop(net[n], n, b), Nodes)
  BY NetworkOf, DropSound, AddressesSmall DEF GraphInv
<1>2. net' = [net EXCEPT ![n] = Drop(net[n], n, b)]
  BY DEF DropBroken
<1>3. NetsSound'
  BY <1>1, <1>2, SetNetwork DEF GraphInv, NetsSound, GraphSound
<1>4. AirType'
  <2>1. <<EdgeDrop(n, b)>> \in Seq(Packets)
    BY PacketTypes
  <2> QED BY <2>1, BroadcastType DEF GraphInv, AirType, DropBroken
<1> QED BY <1>3, <1>4 DEF GraphInv, Rest, PathsSound, DropBroken

LEMMA InvSendData ==
  ASSUME GraphInv, NEW n \in Nodes, NEW path \in Paths, SendData(n, path) PROVE GraphInv'
<1>1. \A e \in Hops(n, path) : e[1] # e[2]
  <2>1. Sound(net[n]) /\ Hops(n, path) \subseteq net[n].neighbours
    BY DEF GraphInv, NetsSound, GraphSound, SendData
  <2> QED BY <2>1 DEF Sound
<1>2. PathsSound'
  BY <1>1 DEF GraphInv, PathsSound, SendData
<1>3. Rest'
  <2>1. spent' \in [crashes : 0..MaxCrashes, outages : 0..MaxOutages, sends : 0..MaxSends]
    BY TopologyAssumption DEF GraphInv, Rest, SendData
  <2> QED BY <2>1 DEF GraphInv, Rest, SendData
<1> QED BY <1>2, <1>3 DEF GraphInv, AirType, NetsSound, GraphSound, SendData

LEMMA InvHandleStatus ==
  ASSUME GraphInv, NEW n \in Nodes, NEW path \in Paths, HandleStatus(n, path) PROVE GraphInv'
<1> Nodes \in SUBSET (1..254)
  BY AddressesSmall
<1>1. path[1] \in Nodes /\ Hops(n, path) \in SUBSET (Nodes \X Nodes)
  BY PathTypes
<1>2. \A e \in Hops(n, path) : e[1] # e[2]
  BY DEF GraphInv, PathsSound, HandleStatus
<1>3. SoundNetwork(net[n], Nodes)
  BY NetworkOf DEF GraphInv
<1>4. SoundNetwork(Merge(net[n], Hops(n, path)), Nodes)
  BY <1>1, <1>2, <1>3, MergeSound
<1>5. SoundNetwork(AddEdge(net[n], n, path[1]), Nodes)
  BY <1>1, <1>3, AddEdgeSound
<1>6. \/ net' = [net EXCEPT ![n] = Merge(net[n], Hops(n, path))]
      \/ net' = [net EXCEPT ![n] = AddEdge(net[n], n, path[1])]
  BY DEF HandleStatus
<1>7. NetsSound'
  BY <1>4, <1>5, <1>6, SetNetwork DEF GraphInv, NetsSound, GraphSound
<1>8. AirType'
  <2>1. PICK b \in Nodes : b = path[1]
    BY <1>1
  <2>2. <<EdgeDrop(n, b)>> \in Seq(Packets)
    BY PacketTypes
  <2>3. Broadcast(n, <<EdgeDrop(n, b)>>, air) \in [Nodes -> Seq(Packets)]
    BY <2>2, BroadcastType DEF GraphInv, AirType
  <2> QED BY <2>1, <2>3 DEF GraphInv, AirType, HandleStatus
<1> QED BY <1>7, <1>8 DEF GraphInv, Rest, PathsSound, HandleStatus

-----------------------------------------------------------------------------
(* Process: what comes in from the air.                                    *)

LEMMA InvHandleNodeBroadcast ==
  ASSUME GraphInv, NEW n \in Nodes, NEW p \in Packets, NEW rest \in [Nodes -> Seq(Packets)],
         HandleNodeBroadcast(n, p, rest)
  PROVE  GraphInv'
<1> Nodes \in SUBSET (1..254)
  BY AddressesSmall
<1> DEFINE b == p.address
           noted == AddNode(net[n], b)
           heard == [noted EXCEPT !.macs = @ \union {b}]
           known == AddEdge(heard, b, n)
           Fresh(v) == [v EXCEPT !.fresh = @ \union {b}]
           intro == <<NodeBroadcast(n), Graph(Edges(known))>>
<1>1. b \in Nodes
  BY PacketFields DEF HandleNodeBroadcast
<1>2. /\ \/ net' = [net EXCEPT ![n] = Fresh(noted)]
         \/ net' = [net EXCEPT ![n] = Fresh(known)]
      /\ air' = rest \/ air' = Broadcast(n, intro, rest)
      /\ UNCHANGED <<up, contact, broken, sending, spent, doubted>>
  BY DEF HandleNodeBroadcast
<1> HIDE DEF b
<1>3. SoundNetwork(noted, Nodes)
  BY <1>1, NetworkOf, AddNodeSound DEF GraphInv
<1> HIDE DEF noted
<1>4. SoundNetwork(heard, Nodes)
  <2>1. noted.macs \union {b} \in SUBSET Nodes
    BY <1>1, <1>3 DEF SoundNetwork, Networks
  <2> QED BY <1>3, <2>1, NotesSound
<1> HIDE DEF heard
<1>5. SoundNetwork(known, Nodes)
  BY <1>1, <1>4, AddEdgeSound
<1> HIDE DEF known
<1>6. ASSUME NEW v, SoundNetwork(v, Nodes) PROVE SoundNetwork(Fresh(v), Nodes)
  <2>1. v.fresh \union {b} \in SUBSET Nodes
    BY <1>1, <1>6 DEF SoundNetwork, Networks
  <2> QED BY <1>6, <2>1, NotesSound
<1>7. SoundNetwork(Fresh(noted), Nodes) /\ SoundNetwork(Fresh(known), Nodes)
  BY <1>3, <1>5, <1>6
<1>8. Broadcast(n, intro, rest) \in [Nodes -> Seq(Packets)]
  <2>1. intro \in Seq(Packets)
    BY <1>5, PacketTypes
  <2> HIDE DEF intro
  <2> QED BY <2>1, BroadcastType
<1> HIDE DEF Fresh, intro
<1>9. NetsSound'
  BY <1>2, <1>7, SetNetwork DEF GraphInv, NetsSound, GraphSound
<1> QED BY <1>2, <1>8, <1>9 DEF GraphInv, Rest, AirType, PathsSound

LEMMA InvHandleGraph ==
  ASSUME GraphInv, NEW n \in Nodes, NEW p \in Packets, NEW rest \in [Nodes -> Seq(Packets)],
         HandleGraph(n, p, rest)
  PROVE  GraphInv'
<1> DEFINE merged == Merge(net[n], p.edges)
<1>1. /\ net' = [net EXCEPT ![n] = merged]
      /\ air' = rest \/ air' = Broadcast(n, <<Graph(Edges(merged))>>, rest)
      /\ UNCHANGED <<up, contact, broken, sending, spent, doubted>>
  BY DEF HandleGraph
<1>2. SoundNetwork(merged, Nodes)
  <2>1. p.edges \in SUBSET (Nodes \X Nodes) /\ \A e \in p.edges : e[1] # e[2]
    BY PacketFields DEF HandleGraph
  <2>2. SoundNetwork(net[n], Nodes)
    BY NetworkOf DEF GraphInv
  <2> QED BY <2>1, <2>2, MergeSound, AddressesSmall
<1> HIDE DEF merged
<1>3. Broadcast(n, <<Graph(Edges(merged))>>, rest) \in [Nodes -> Seq(Packets)]
  <2>1. <<Graph(Edges(merged))>> \in Seq(Packets)
    BY <1>2, PacketTypes
  <2> QED BY <2>1, BroadcastType
<1>4. NetsSound'
  BY <1>1, <1>2, SetNetwork DEF GraphInv, NetsSound, GraphSound
<1> QED BY <1>1, <1>3, <1>4 DEF GraphInv, Rest, AirType, PathsSound

LEMMA InvHandleEdgeDrop ==
  ASSUME GraphInv, NEW n \in Nodes, NEW p \in Packets, NEW rest \in [Nodes -> Seq(Packets)],
         HandleEdgeDrop(n, p, rest)
  PROVE  GraphInv'
<1> Nodes \in SUBSET (1..254)
  BY AddressesSmall
<1> DEFINE a == p.edge[1]
           b == p.edge[2]
           once == Drop(net[n], a, b)
           twice == Drop(once, b, a)
<1>1. /\ net' = [net EXCEPT ![n] = once] \/ net' = [net EXCEPT ![n] = twice]
      /\ air' = rest \/ air' = Broadcast(n, <<p>>, rest)
      /\ UNCHANGED <<up, contact, broken, sending, spent, doubted>>
  BY DEF HandleEdgeDrop
<1>2. a \in Nodes /\ b \in Nodes
  BY PacketFields DEF HandleEdgeDrop
<1> HIDE DEF a, b
<1>3. SoundNetwork(once, Nodes)
  BY <1>2, NetworkOf, DropSound DEF GraphInv
<1> HIDE DEF once
<1>4. SoundNetwork(twice, Nodes)
  BY <1>2, <1>3, DropSound
<1> HIDE DEF twice
<1>5. NetsSound'
  BY <1>1, <1>3, <1>4, SetNetwork DEF GraphInv, NetsSound, GraphSound
<1>6. Broadcast(n, <<p>>, rest) \in [Nodes -> Seq(Packets)]
  <2>1. <<p>> \in Seq(Packets)
    OBVIOUS
  <2> QED BY <2>1, BroadcastType
<1> QED BY <1>1, <1>5, <1>6 DEF GraphInv, Rest, AirType, PathsSound

LEMMA InvProcess ==
  ASSUME GraphInv, NEW n \in Nodes, Process(n) PROVE GraphInv'
<1>1. PICK i \in DOMAIN air[n] :
        \/ HandleNodeBroadcast(n, air[n][i], [air EXCEPT ![n] = RemoveAt(@, i)])
        \/ HandleGraph(n, air[n][i], [air EXCEPT ![n] = RemoveAt(@, i)])
        \/ HandleEdgeDrop(n, air[n][i], [air EXCEPT ![n] = RemoveAt(@, i)])
        \/ HandleUnknownEdge(n, air[n][i])
  BY DEF Process
<1> DEFINE p == air[n][i]
           rest == [air EXCEPT ![n] = RemoveAt(@, i)]
<1>2. p \in Packets /\ rest \in [Nodes -> Seq(Packets)]
  BY RestType DEF GraphInv
<1>3. \/ HandleNodeBroadcast(n, p, rest) \/ HandleGraph(n, p, rest)
      \/ HandleEdgeDrop(n, p, rest) \/ HandleUnknownEdge(n, p)
  BY <1>1
<1> HIDE DEF p, rest
<1>4. CASE HandleNodeBroadcast(n, p, rest)
  BY <1>2, <1>4, InvHandleNodeBroadcast
<1>5. CASE HandleGraph(n, p, rest)
  BY <1>2, <1>5, InvHandleGraph
<1>6. CASE HandleEdgeDrop(n, p, rest)
  BY <1>2, <1>6, InvHandleEdgeDrop
<1>7. CASE HandleUnknownEdge(n, p)
  <2>1. Halt(n) /\ spent' = spent
    BY <1>7 DEF HandleUnknownEdge
  <2>2. spent' \in [crashes : 0..MaxCrashes, outages : 0..MaxOutages, sends : 0..MaxSends]
    BY <2>1 DEF GraphInv, Rest
  <2> QED BY <2>1, <2>2, InvHalt
<1> QED BY <1>3, <1>4, <1>5, <1>6, <1>7

-----------------------------------------------------------------------------
LEMMA GraphStep == GraphInv /\ [Next]_vars => GraphInv'
<1> SUFFICES ASSUME GraphInv, [Next]_vars PROVE GraphInv'
  OBVIOUS
<1>1. CASE UNCHANGED vars
  BY <1>1 DEF vars, GraphInv, Rest, AirType, NetsSound, GraphSound, PathsSound
<1>2. ASSUME NEW n \in Nodes,
             Boot(n) \/ Crash(n) \/ Heartbeat(n) \/ Detect(n) \/ Process(n)
      PROVE  GraphInv'
  BY <1>2, InvSpeak, InvCrash, InvDetect, InvProcess
<1>3. ASSUME NEW n \in Nodes, NEW b \in Nodes, Lapse(n, b) \/ DropBroken(n, b)
      PROVE  GraphInv'
  BY <1>3, InvLapse, InvDropBroken
<1>4. ASSUME NEW n \in Nodes, NEW path \in Paths, SendData(n, path) \/ HandleStatus(n, path)
      PROVE  GraphInv'
  BY <1>4, InvSendData, InvHandleStatus
<1>5. ASSUME NEW e \in Reach, LoseContact(e) \/ RegainContact(e)
      PROVE  GraphInv'
  BY <1>5, InvContact
<1> QED BY <1>1, <1>2, <1>3, <1>4, <1>5 DEF Next

\* The variables of Discovery keep to their types: among others, max_address never leaves
\* the range of an address, however often drop() lowers it (network.cpp:260).
THEOREM Discovery_TypeCorrect == Spec => []TypeOK
<1>1. Init => GraphInv
  BY GraphInit
<1>2. GraphInv /\ [Next]_vars => GraphInv'
  BY GraphStep
<1>3. GraphInv => TypeOK
  BY InvImplies
<1> QED BY <1>1, <1>2, <1>3, PTL DEF Spec

\* Whatever routers add, merge and drop, in whatever order and whoever stops meanwhile, the
\* graph of each one stays fit for path() (network.cpp:178-200).
THEOREM Graph_Sound == Spec => []GraphSound
<1>1. Init => GraphInv
  BY GraphInit
<1>2. GraphInv /\ [Next]_vars => GraphInv'
  BY GraphStep
<1>3. GraphInv => GraphSound
  BY InvImplies
<1> QED BY <1>1, <1>2, <1>3, PTL DEF Spec

-----------------------------------------------------------------------------
(***************************************************************************)
(* What routers know is true, seen from those that are up (U) and the      *)
(* edges that have been out of contact (D): both change only in ways that  *)
(* keep what is true.                                                      *)
(***************************************************************************)
\* Router b has been started: it runs, or every radio it can reach has lost it.
Born(b, U, D) == b \in U \/ \A e \in Reach : b \in {e[1], e[2]} => e \in D

Real(a, b, U, D) == Pair(a, b) \in Reach /\ Born(a, U, D) /\ Born(b, U, D)

\* The graph v of n: real edges, between routers that have been started, and a Node that
\* has gone stale is one that n has been out of contact with.
NetTrue(n, v, U, D) ==
  /\ \A e \in v.neighbours : Real(e[1], e[2], U, D)
  /\ \A b \in v.macs : Real(n, b, U, D)
  /\ \A b \in v.nodes \union v.fresh : b = n \/ Born(b, U, D)
  /\ \A b \in v.nodes \ v.fresh : Pair(n, b) \in Reach => Pair(n, b) \in D

\* A packet p on its way to m says nothing but the truth, and an EdgeDrop is never about an
\* edge that has always been good.
PacketTrue(m, p, U, D) ==
  /\ p.type = "NodeBroadcast" => Real(m, p.address, U, D)
  /\ p.type = "Graph" => \A e \in p.edges : Real(e[1], e[2], U, D)
  /\ p.type = "EdgeDrop" => Pair(p.edge[1], p.edge[2]) \in D

\* What was born and what was doubted stays so.
Later(U, D, V, E) == D \subseteq E /\ \A b : Born(b, U, D) => Born(b, V, E)

LEMMA PairProperties ==
  /\ \A a, b \in Nodes : Pair(a, b) = Pair(b, a) /\ Pair(a, b) \in Both(a, b)
  /\ \A e \in Reach : e[1] \in Nodes /\ e[2] \in Nodes /\ e = Pair(e[1], e[2]) /\ e[1] < e[2]
  /\ \A a, b \in Nodes : Pair(a, b) \in Reach => a # b
  /\ \A a, b, x \in Nodes : x \in {Pair(a, b)[1], Pair(a, b)[2]} <=> x \in {a, b}
<1>1. \A a, b \in Nodes : (a < b \/ b < a \/ a = b) /\ ~(a < b /\ b < a) /\ (a = b => ~(a < b))
  <2>1. \A a, b \in Int : (a < b \/ b < a \/ a = b) /\ ~(a < b /\ b < a) /\ (a = b => ~(a < b))
    OBVIOUS
  <2>2. Nodes \subseteq Int
    BY TopologyAssumption
  <2> QED BY <2>1, <2>2
<1>2. \A a, b \in Nodes : Pair(a, b) = Pair(b, a) /\ Pair(a, b) \in Both(a, b)
  BY <1>1 DEF Pair, Both
<1>3. \A e \in Reach : e \in Nodes \X Nodes /\ e[1] < e[2]
  BY TopologyAssumption
<1>4. \A e \in Reach : e[1] \in Nodes /\ e[2] \in Nodes /\ e = Pair(e[1], e[2]) /\ e[1] < e[2]
  BY <1>3 DEF Pair
<1>5. \A a, b \in Nodes : Pair(a, b) \in Reach => a # b
  BY <1>1, <1>4 DEF Pair
<1>6. \A a, b, x \in Nodes : x \in {Pair(a, b)[1], Pair(a, b)[2]} <=> x \in {a, b}
  BY DEF Pair
<1> QED BY <1>2, <1>4, <1>5, <1>6

LEMMA RealIsSymmetric ==
  ASSUME NEW a \in Nodes, NEW b \in Nodes, NEW U, NEW D, Real(a, b, U, D)
  PROVE  Real(b, a, U, D)
BY PairProperties DEF Real

\* Of an edge that is real, an end that does not run makes it doubted.
LEMMA RealAndDown ==
  ASSUME NEW a \in Nodes, NEW b \in Nodes, NEW U, NEW D, Real(a, b, U, D),
         a \notin U \/ b \notin U
  PROVE  Pair(a, b) \in D
BY PairProperties DEF Real, Born

LEMMA LaterTrue ==
  ASSUME NEW U, NEW D, NEW V, NEW E, Later(U, D, V, E)
  PROVE  /\ \A a, b : Real(a, b, U, D) => Real(a, b, V, E)
         /\ \A n, v : NetTrue(n, v, U, D) => NetTrue(n, v, V, E)
         /\ \A m, p : PacketTrue(m, p, U, D) => PacketTrue(m, p, V, E)
<1>1. \A a, b : Real(a, b, U, D) => Real(a, b, V, E)
  BY DEF Later, Real
<1>2. D \subseteq E /\ \A b : Born(b, U, D) => Born(b, V, E)
  BY DEF Later
<1>3. ASSUME NEW n, NEW v, NetTrue(n, v, U, D) PROVE NetTrue(n, v, V, E)
  BY <1>1, <1>2, <1>3 DEF NetTrue
<1>4. ASSUME NEW m, NEW p, PacketTrue(m, p, U, D) PROVE PacketTrue(m, p, V, E)
  BY <1>1, <1>2, <1>4 DEF PacketTrue
<1> QED BY <1>1, <1>3, <1>4

\* A graph w that has no news but true ones, compared with v.
LEMMA NewsTrue ==
  ASSUME NEW n, NEW U, NEW D, NEW v, NEW w, NetTrue(n, v, U, D),
         \A e \in w.neighbours \ v.neighbours : Real(e[1], e[2], U, D),
         \A b \in w.macs \ v.macs : Real(n, b, U, D),
         \A b \in (w.nodes \union w.fresh) \ (v.nodes \union v.fresh) : b = n \/ Born(b, U, D),
         \A b \in (w.nodes \ w.fresh) \ (v.nodes \ v.fresh) :
            Pair(n, b) \in Reach => Pair(n, b) \in D
  PROVE  NetTrue(n, w, U, D)
BY DEF NetTrue

LEMMA AddNodeTrue ==
  ASSUME NEW n, NEW U, NEW D, NEW v \in Networks(Nodes), NetTrue(n, v, U, D),
         NEW b, b = n \/ Born(b, U, D)
  PROVE  /\ NetTrue(n, AddNode(v, b), U, D)
         /\ AddNode(v, b).neighbours = v.neighbours
         /\ AddNode(v, b).macs = v.macs
<1>1. CASE b \in v.nodes
  BY <1>1 DEF AddNode
<1>2. CASE b \notin v.nodes
  <2> DEFINE w == AddNode(v, b)
             top == Bigger(b, v.max_address)
  <2>1. w = [v EXCEPT !.nodes = v.nodes \union {b}, !.fresh = v.fresh \union {b},
                      !.max_address = top]
    BY <1>2 DEF AddNode
  <2> HIDE DEF w, top
  <2>2. /\ w.nodes = v.nodes \union {b} /\ w.fresh = v.fresh \union {b}
        /\ w.neighbours = v.neighbours /\ w.macs = v.macs
    BY <2>1 DEF Networks
  <2>3. NetTrue(n, w, U, D)
    BY <2>2, NewsTrue
  <2> QED BY <2>2, <2>3 DEF w
<1> QED BY <1>1, <1>2

LEMMA AddEdgeTrue ==
  ASSUME NEW n, NEW U, NEW D, NEW v, SoundNetwork(v, Nodes), NetTrue(n, v, U, D),
         NEW a \in Nodes, NEW b \in Nodes, Real(a, b, U, D)
  PROVE  /\ NetTrue(n, AddEdge(v, a, b), U, D)
         /\ AddEdge(v, a, b).macs = v.macs
         /\ v.neighbours \subseteq AddEdge(v, a, b).neighbours
         /\ AddEdge(v, a, b).neighbours \subseteq v.neighbours \union Both(a, b)
         /\ <<a, b>> \in AddEdge(v, a, b).neighbours
<1> Nodes \in SUBSET (1..254)
  BY AddressesSmall
<1> DEFINE once == AddNode(v, a)
           known == AddNode(once, b)
           pairs == IF <<a, b>> \in known.neighbours THEN known.neighbours
                    ELSE known.neighbours \union Both(a, b)
           w == [known EXCEPT !.rows = known.rows \union {a, b}, !.neighbours = pairs]
<1>1. a # b
  BY PairProperties DEF Real
<1>2. AddEdge(v, a, b) = w
  BY <1>1 DEF AddEdge
<1>3. /\ once \in Networks(Nodes) /\ SoundNetwork(once, Nodes) /\ NetTrue(n, once, U, D)
      /\ once.neighbours = v.neighbours /\ once.macs = v.macs
  BY AddNodeTrue, AddNodeSound DEF SoundNetwork, Real
<1> HIDE DEF once
<1>4. /\ known \in Networks(Nodes) /\ NetTrue(n, known, U, D)
      /\ known.neighbours = once.neighbours /\ known.macs = once.macs
  BY <1>3, AddNodeTrue, AddNodeSound DEF SoundNetwork, Real
<1> HIDE DEF known
<1>5. /\ pairs \subseteq known.neighbours \union Both(a, b)
      /\ known.neighbours \subseteq pairs /\ <<a, b>> \in pairs
  BY DEF Both
<1> HIDE DEF pairs
<1>6. /\ w.nodes = known.nodes /\ w.fresh = known.fresh /\ w.macs = known.macs
      /\ w.neighbours = pairs
  BY <1>4 DEF Networks
<1> HIDE DEF w
<1>7. \A e \in Both(a, b) : Real(e[1], e[2], U, D)
  BY RealIsSymmetric DEF Both
<1>8. NetTrue(n, w, U, D)
  BY <1>4, <1>5, <1>6, <1>7, NewsTrue
<1> QED BY <1>2, <1>3, <1>4, <1>5, <1>6, <1>8

LEMMA MergeTrue ==
  ASSUME NEW n, NEW U, NEW D, NEW v \in Networks(Nodes), NetTrue(n, v, U, D),
         NEW edges \in SUBSET (Nodes \X Nodes), \A e \in edges : Real(e[1], e[2], U, D)
  PROVE  /\ NetTrue(n, Merge(v, edges), U, D)
         /\ Merge(v, edges).macs = v.macs
         /\ v.neighbours \union edges \subseteq Merge(v, edges).neighbours
         /\ edges \subseteq v.neighbours => Merge(v, edges).neighbours = v.neighbours
<1> DEFINE new == Ends(edges) \ v.nodes
           added == UNION {Both(e[1], e[2]) : e \in edges \ v.neighbours}
           top == Highest(new \union {v.max_address})
           w == Merge(v, edges)
<1>1. w = [v EXCEPT !.nodes = v.nodes \union new, !.fresh = v.fresh \union new,
                    !.rows = v.rows \union Ends(edges), !.neighbours = v.neighbours \union added,
                    !.max_address = top]
  BY DEF Merge
<1>2. \A x \in new : Born(x, U, D)
  BY DEF Ends, Real
<1>3. \A e \in added : Real(e[1], e[2], U, D)
  BY RealIsSymmetric DEF Both
<1>4. edges \subseteq v.neighbours \union added /\ (edges \subseteq v.neighbours => added = {})
  BY DEF Both
<1> HIDE DEF new, added, top, w
<1>5. /\ w.nodes = v.nodes \union new /\ w.fresh = v.fresh \union new
      /\ w.macs = v.macs /\ w.neighbours = v.neighbours \union added
  BY <1>1 DEF Networks
<1>6. NetTrue(n, w, U, D)
  BY <1>2, <1>3, <1>5, NewsTrue
<1> QED BY <1>4, <1>5, <1>6 DEF w

LEMMA DropTrue ==
  ASSUME NEW n, NEW U, NEW D, NEW v \in Networks(Nodes), NetTrue(n, v, U, D), NEW a, NEW b
  PROVE  /\ NetTrue(n, Drop(v, a, b), U, D)
         /\ Drop(v, a, b).neighbours = v.neighbours \ Both(a, b)
         /\ Drop(v, a, b).macs \subseteq v.macs
<1> DEFINE cut == [v EXCEPT !.neighbours = @ \ Both(a, b)]
           erased == {x \in {a, b} : Lonely(cut, x)}
           top == IF a \in erased /\ a = cut.max_address
                  THEN cut.max_address - 1 ELSE cut.max_address
           w == Drop(v, a, b)
<1>1. w = [cut EXCEPT !.nodes = cut.nodes \ erased, !.macs = cut.macs \ erased,
                      !.fresh = cut.fresh \ erased, !.max_address = top]
  BY DEF Drop
<1>2. /\ cut.nodes = v.nodes /\ cut.macs = v.macs /\ cut.fresh = v.fresh
      /\ cut.neighbours = v.neighbours \ Both(a, b) /\ cut \in Networks(Nodes)
  BY DEF Networks
<1> HIDE DEF cut, erased, top, w
<1>3. /\ w.nodes = v.nodes \ erased /\ w.macs = v.macs \ erased /\ w.fresh = v.fresh \ erased
      /\ w.neighbours = v.neighbours \ Both(a, b)
  BY <1>1, <1>2 DEF Networks
<1>4. NetTrue(n, w, U, D)
  BY <1>3, NewsTrue
<1> QED BY <1>3, <1>4 DEF w

LEMMA NewNetworkTrue ==
  ASSUME NEW n \in Nodes, NEW U, NEW D
  PROVE  /\ NetTrue(n, NewNetwork(n), U, D)
         /\ NewNetwork(n).neighbours = {} /\ NewNetwork(n).macs = {}
<1> DEFINE empty == [nodes |-> {}, macs |-> {}, fresh |-> {}, rows |-> {}, neighbours |-> {},
                     max_address |-> 0]
<1>1. NetTrue(n, empty, U, D) /\ empty \in Networks(Nodes)
  BY DEF NetTrue, Networks
<1>2. NewNetwork(n) = AddNode(empty, n)
  BY DEF NewNetwork
<1>3. empty.neighbours = {} /\ empty.macs = {}
  OBVIOUS
<1> HIDE DEF empty
<1> QED BY <1>1, <1>2, <1>3, AddNodeTrue

NetsTrue(nets, U, D) == \A n \in Nodes : NetTrue(n, nets[n], U, D)

AirTrue(queues, U, D) == \A m \in Nodes : \A p \in Range(queues[m]) : PacketTrue(m, p, U, D)

\* A node waits for a StatusFrame only while it runs, and a path is made of real edges.
PathsTrue(paths, U, D) ==
  \A s \in paths : s[1] \in U /\ \A e \in Hops(s[1], s[2]) : Real(e[1], e[2], U, D)

\* heartbeatDetector has collected doubted edges only.
BrokenTrue(lists, D) == \A n \in Nodes : \A b \in lists[n] : Pair(n, b) \in D

\* A router that does not run knows nobody.
Ignorant(nets, U) == \A n \in Nodes \ U : nets[n].neighbours = {} /\ nets[n].macs = {}

Truth == /\ NetsTrue(net, up, doubted)
         /\ AirTrue(air, up, doubted)
         /\ PathsTrue(sending, up, doubted)
         /\ BrokenTrue(broken, doubted)
         /\ Ignorant(net, up)
         /\ Reach \ contact \subseteq doubted

TruthInv == GraphInv /\ Truth

\* What a router that goes on running no longer knows is doubted.
Kept == \A n \in up \intersect up' :
          \A e \in net[n].neighbours \ net'[n].neighbours : Pair(e[1], e[2]) \in doubted

LEMMA BroadcastHolds ==
  ASSUME NEW n \in Nodes, NEW packets \in Seq(Packets),
         NEW queues \in [Nodes -> Seq(Packets)], NEW m \in Nodes
  PROVE  /\ m \in Listeners(n) =>
               Range(Broadcast(n, packets, queues)[m]) = Range(queues[m]) \union Range(packets)
         /\ m \notin Listeners(n) =>
               Range(Broadcast(n, packets, queues)[m]) = Range(queues[m])
<1>1. Range(queues[m] \o packets) = Range(queues[m]) \union Range(packets)
  BY RangeConcatenation
<1>2. Broadcast(n, packets, queues)[m]
        = IF m \in Listeners(n) THEN queues[m] \o packets ELSE queues[m]
  BY DEF Broadcast
<1> QED BY <1>1, <1>2

LEMMA RestHolds ==
  ASSUME AirType, NEW n \in Nodes, NEW i \in DOMAIN air[n]
  PROVE  /\ Range(RemoveAt(air[n], i)) \subseteq Range(air[n])
         /\ Range(air[n]) \subseteq Range(RemoveAt(air[n], i)) \union {air[n][i]}
         /\ air[n][i] \in Range(air[n])
<1> DEFINE q == air[n]
           before == SubSeq(q, 1, i - 1)
           after == SubSeq(q, i + 1, Len(q))
<1>1. /\ q \in Seq(Packets) /\ i \in 1..Len(q) /\ Len(q) \in Nat
      /\ \A j \in 1..Len(q) : q[j] \in Packets
  BY LenProperties DEF AirType
<1>2. Range(q) = {q[j] : j \in 1..Len(q)}
  BY <1>1, RangeEquality
<1> HIDE DEF q
<1>3. before \in Seq(Packets) /\ Range(before) = {q[j] : j \in 1..(i - 1)}
  <2>1. 1 \in Int /\ i - 1 \in Int /\ \A j \in 1..(i - 1) : q[j] \in Packets
    BY <1>1
  <2>2. /\ before \in Seq(Packets) /\ Len(before) = i - 1
        /\ \A j \in 1..(i - 1) : before[j] = q[j]
    BY <1>1, <2>1, SubSeqProperties
  <2>3. Range(before) = {before[j] : j \in 1..Len(before)}
    BY <2>2, RangeEquality
  <2> HIDE DEF before
  <2> QED BY <2>2, <2>3
<1>4. after \in Seq(Packets) /\ Range(after) = {q[j] : j \in (i + 1)..Len(q)}
  <2>1. i + 1 \in Int /\ Len(q) \in Int /\ \A j \in (i + 1)..Len(q) : q[j] \in Packets
    BY <1>1
  <2>2. /\ after \in Seq(Packets) /\ Len(after) = Len(q) - i
        /\ \A j \in 1..(Len(q) - i) : after[j] = q[i + j]
    BY <1>1, <2>1, SubSeqProperties
  <2>3. Range(after) = {after[j] : j \in 1..Len(after)}
    BY <2>2, RangeEquality
  <2> HIDE DEF after
  <2>4. ASSUME NEW x \in Range(after) PROVE x \in {q[j] : j \in (i + 1)..Len(q)}
    <3>1. PICK j \in 1..(Len(q) - i) : x = q[i + j]
      BY <2>2, <2>3, <2>4
    <3>2. i + j \in (i + 1)..Len(q)
      BY <1>1
    <3> QED BY <3>1, <3>2
  <2>5. ASSUME NEW j \in (i + 1)..Len(q) PROVE q[j] \in Range(after)
    <3>1. j - i \in 1..(Len(q) - i) /\ i + (j - i) = j
      BY <1>1
    <3>2. after[j - i] = q[j]
      BY <2>2, <3>1
    <3> QED BY <2>2, <2>3, <3>1, <3>2
  <2> QED BY <2>2, <2>4, <2>5
<1>5. RemoveAt(q, i) = before \o after
  BY DEF RemoveAt
<1> HIDE DEF before, after
<1>6. Range(RemoveAt(q, i)) = Range(before) \union Range(after)
  BY <1>3, <1>4, <1>5, RangeConcatenation
<1>7. 1..Len(q) = (1..(i - 1)) \union {i} \union ((i + 1)..Len(q))
  BY <1>1
<1> QED BY <1>1, <1>2, <1>3, <1>4, <1>6, <1>7 DEF q

LEMMA ShortRanges ==
  /\ \A p : Range(<<p>>) = {p}
  /\ \A p, q : Range(<<p, q>>) = {p, q}
  /\ Range(<<>>) = {}
BY DEF Range

LEMMA BroadcastTrue ==
  ASSUME NEW n \in Nodes, NEW packets \in Seq(Packets),
         NEW queues \in [Nodes -> Seq(Packets)], NEW U, NEW D, AirTrue(queues, U, D),
         \A m \in Nodes \intersect Listeners(n) : \A p \in Range(packets) : PacketTrue(m, p, U, D)
  PROVE  AirTrue(Broadcast(n, packets, queues), U, D)
<1>1. ASSUME NEW m \in Nodes, NEW p \in Range(Broadcast(n, packets, queues)[m])
      PROVE  PacketTrue(m, p, U, D)
  <2> DEFINE sent == Range(Broadcast(n, packets, queues)[m])
  <2>1. /\ m \in Listeners(n) => sent = Range(queues[m]) \union Range(packets)
        /\ m \notin Listeners(n) => sent = Range(queues[m])
    BY BroadcastHolds
  <2>2. p \in sent
    BY <1>1
  <2> HIDE DEF sent
  <2>3. p \in Range(queues[m]) \/ (m \in Listeners(n) /\ p \in Range(packets))
    BY <2>1, <2>2
  <2> QED BY <2>3 DEF AirTrue
<1> QED BY <1>1 DEF AirTrue

LEMMA ListenersReal ==
  ASSUME TruthInv, NEW n \in Nodes, NEW m \in Listeners(n)
  PROVE  /\ m \in up /\ m \in Nodes /\ m # n /\ Pair(n, m) \in contact
         /\ \A U, D : up \subseteq U /\ n \in U => Real(m, n, U, D)
<1>1. m \in up /\ m \in Nodes /\ m # n /\ Pair(n, m) \in contact /\ contact \subseteq Reach
  BY DEF Listeners, TruthInv, GraphInv, Rest
<1>2. Pair(m, n) \in Reach
  BY <1>1, PairProperties
<1> QED BY <1>1, <1>2 DEF Real, Born

\* A radio that is real and not heard by one that runs is doubted.
LEMMA Unheard ==
  ASSUME TruthInv, NEW n \in Nodes, NEW b \in Nodes, n \in up, ~Hears(n, b),
         Pair(n, b) \in Reach, Born(b, up, doubted)
  PROVE  Pair(n, b) \in doubted
<1>1. CASE Pair(n, b) \notin contact
  BY <1>1 DEF TruthInv, Truth
<1>2. CASE b \notin up
  BY <1>2, PairProperties DEF Born
<1> QED BY <1>1, <1>2 DEF Hears

LEMMA FirstHop ==
  ASSUME NEW n \in Nodes, NEW path \in Paths PROVE <<n, path[1]>> \in Hops(n, path)
<1>1. PICK k \in 1..MaxHops : path \in [1..k -> Nodes]
  BY DEF Paths
<1>2. 1 \in DOMAIN path
  BY <1>1, TopologyAssumption
<1> QED BY <1>2 DEF Hops

\* One network changes.
LEMMA SetNetTrue ==
  ASSUME TruthInv, NEW n \in Nodes, NEW w, net' = [net EXCEPT ![n] = w],
         up' = up, doubted' = doubted, NetTrue(n, w, up, doubted),
         n \in up \/ (w.neighbours = {} /\ w.macs = {}),
         \A e \in net[n].neighbours \ w.neighbours : Pair(e[1], e[2]) \in doubted
  PROVE  NetsTrue(net', up', doubted') /\ Ignorant(net', up') /\ Kept
<1>1. net' \in [Nodes -> {net'[m] : m \in Nodes}] /\ net'[n] = w
      /\ \A m \in Nodes : m # n => net'[m] = net[m]
  BY DEF TruthInv, GraphInv, NetsSound
<1>2. NetsTrue(net, up, doubted) /\ Ignorant(net, up) /\ up \subseteq Nodes
  BY DEF TruthInv, Truth, GraphInv, Rest
<1>3. NetsTrue(net', up', doubted')
  BY <1>1, <1>2 DEF NetsTrue
<1>4. Ignorant(net', up')
  BY <1>1, <1>2 DEF Ignorant
<1>5. Kept
  BY <1>1, <1>2 DEF Kept
<1> QED BY <1>3, <1>4, <1>5

-----------------------------------------------------------------------------
LEMMA TruthInit == ASSUME Init PROVE Truth
<1> Nodes \in SUBSET (1..254)
  BY AddressesSmall
<1>1. \A n \in Nodes : /\ NetTrue(n, NewNetwork(n), up, doubted)
                       /\ NewNetwork(n).neighbours = {} /\ NewNetwork(n).macs = {}
                       /\ SoundNetwork(NewNetwork(n), Nodes)
  BY NewNetworkTrue, NewNetworkSound
<1>2. ASSUME Established, NEW n \in Nodes PROVE NetTrue(n, Complete(n), up, doubted)
  <2> DEFINE v == Merge(NewNetwork(n), Reach)
             both == UNION {Both(e[1], e[2]) : e \in Reach}
             macs == {b \in Nodes : <<n, b>> \in both}
             w == [v EXCEPT !.macs = macs]
  <2>1. Complete(n) = w
    BY DEF Complete
  <2>2. \A a, b \in Nodes : Pair(a, b) \in Reach => Real(a, b, up, doubted)
    BY <1>2 DEF Init, Real, Born
  <2>3. Reach \in SUBSET (Nodes \X Nodes) /\ \A e \in Reach : Real(e[1], e[2], up, doubted)
    <3>1. Reach \in SUBSET (Nodes \X Nodes)
      BY TopologyAssumption
    <3>2. \A e \in Reach : e[1] \in Nodes /\ e[2] \in Nodes /\ Pair(e[1], e[2]) = e
      BY PairProperties
    <3> QED BY <2>2, <3>1, <3>2
  <2>4. NetTrue(n, v, up, doubted)
    BY <1>1, <2>3, MergeTrue DEF SoundNetwork
  <2>5. v \in Networks(Nodes)
    <3>1. \A e \in Reach : e[1] # e[2]
      BY TopologyAssumption, OrderedPairs
    <3> QED BY <1>1, <2>3, <3>1, MergeSound DEF SoundNetwork
  <2>6. \A b \in macs : Real(n, b, up, doubted)
    <3>1. ASSUME NEW b \in Nodes, <<n, b>> \in both PROVE Pair(n, b) \in Reach
      <4>1. PICK e \in Reach : <<n, b>> \in Both(e[1], e[2])
        BY <3>1
      <4>2. e = Pair(e[1], e[2]) /\ e[1] \in Nodes /\ e[2] \in Nodes
        BY PairProperties
      <4>3. Pair(n, b) = Pair(e[1], e[2])
        BY <4>1, <4>2, PairProperties DEF Both
      <4> QED BY <4>2, <4>3
    <3> QED BY <2>2, <3>1
  <2> HIDE DEF v, macs, both
  <2>7. w.neighbours = v.neighbours /\ w.nodes = v.nodes /\ w.fresh = v.fresh /\ w.macs = macs
    BY <2>5 DEF Networks
  <2> HIDE DEF w
  <2>8. NetTrue(n, w, up, doubted)
    BY <2>4, <2>6, <2>7, NewsTrue
  <2> QED BY <2>1, <2>8
<1>3. NetsTrue(net, up, doubted)
  BY <1>1, <1>2 DEF Init, NetsTrue
<1>4. AirTrue(air, up, doubted)
  BY ShortRanges DEF Init, AirTrue
<1>5. Ignorant(net, up)
  BY <1>1 DEF Init, Ignorant
<1>6. /\ PathsTrue(sending, up, doubted) /\ BrokenTrue(broken, doubted)
      /\ Reach \ contact \subseteq doubted
  BY DEF Init, PathsTrue, BrokenTrue
<1> QED BY <1>3, <1>4, <1>5, <1>6 DEF Truth

-----------------------------------------------------------------------------
(* The steps keep what routers know true, and take away doubted edges only. *)

\* Boot and Heartbeat.
LEMMA TruthSpeak ==
  ASSUME TruthInv, NEW n \in Nodes, Boot(n) \/ Heartbeat(n) PROVE Truth' /\ Kept
<1> DEFINE hello == <<NodeBroadcast(n)>>
<1>1. /\ up' = up \union {n} /\ n \in up'
      /\ air' = Broadcast(n, hello, air)
      /\ UNCHANGED <<contact, net, broken, sending, doubted>>
  BY DEF Boot, Heartbeat
<1>2. Later(up, doubted, up', doubted')
  BY <1>1 DEF Later, Born
<1>3. hello \in Seq(Packets) /\ Range(hello) = {NodeBroadcast(n)}
  BY PacketTypes, ShortRanges
<1>4. \A m \in Nodes \intersect Listeners(n) : \A p \in Range(hello) :
        PacketTrue(m, p, up', doubted')
  <2>1. ASSUME NEW m \in Listeners(n) PROVE Real(m, n, up', doubted')
    BY <1>1, ListenersReal
  <2>2. \A m : Real(m, n, up', doubted')
                 => PacketTrue(m, NodeBroadcast(n), up', doubted')
    BY DEF PacketTrue, NodeBroadcast
  <2> QED BY <1>3, <2>1, <2>2
<1> HIDE DEF hello
<1>5. AirTrue(air, up', doubted') /\ air \in [Nodes -> Seq(Packets)]
  BY <1>2, LaterTrue DEF TruthInv, Truth, GraphInv, AirType, AirTrue
<1>6. AirTrue(air', up', doubted')
  BY <1>1, <1>3, <1>4, <1>5, BroadcastTrue
<1>7. NetsTrue(net', up', doubted') /\ PathsTrue(sending', up', doubted')
  <2>1. NetsTrue(net, up', doubted')
    BY <1>2, LaterTrue DEF TruthInv, Truth, NetsTrue
  <2>2. \A a, b : Real(a, b, up, doubted) => Real(a, b, up', doubted')
    BY <1>2, LaterTrue
  <2>3. PathsTrue(sending, up', doubted')
    BY <1>1, <2>2 DEF TruthInv, Truth, PathsTrue
  <2> QED BY <1>1, <2>1, <2>3
<1>8. /\ BrokenTrue(broken', doubted') /\ Ignorant(net', up')
      /\ Reach \ contact' \subseteq doubted'
  BY <1>1 DEF TruthInv, Truth, BrokenTrue, Ignorant
<1> QED BY <1>1, <1>6, <1>7, <1>8 DEF Truth, Kept

LEMMA TruthHalt ==
  ASSUME TruthInv, NEW n \in Nodes, Halt(n) PROVE Truth' /\ Kept
<1>1. /\ up' = up \ {n} /\ contact' = contact
      /\ net' = [net EXCEPT ![n] = NewNetwork(n)]
      /\ broken' = [broken EXCEPT ![n] = {}]
      /\ sending' = {s \in sending : s[1] # n}
      /\ air' = [air EXCEPT ![n] = <<>>]
      /\ doubted' = doubted \union {e \in Reach : n \in {e[1], e[2]}}
  BY DEF Halt
<1>2. /\ net \in [Nodes -> Networks(Nodes)] /\ broken \in [Nodes -> SUBSET Nodes]
      /\ air \in [Nodes -> Seq(Packets)]
  BY DEF TruthInv, GraphInv, Rest, AirType, NetsSound
<1>3. Later(up, doubted, up', doubted')
  BY <1>1 DEF Later, Born
<1>4. /\ NetTrue(n, NewNetwork(n), up', doubted')
      /\ NewNetwork(n).neighbours = {} /\ NewNetwork(n).macs = {}
  BY NewNetworkTrue
<1>5. net'[n] = NewNetwork(n) /\ \A m \in Nodes : m # n => net'[m] = net[m]
  BY <1>1, <1>2
<1>6. NetsTrue(net', up', doubted')
  <2>1. \A m \in Nodes : NetTrue(m, net[m], up', doubted')
    BY <1>3, LaterTrue DEF TruthInv, Truth, NetsTrue
  <2> QED BY <1>4, <1>5, <2>1 DEF NetsTrue
<1>7. Ignorant(net', up')
  BY <1>1, <1>4, <1>5 DEF TruthInv, Truth, Ignorant
<1>8. AirTrue(air', up', doubted')
  <2>1. Range(air'[n]) = {} /\ \A m \in Nodes : m # n => air'[m] = air[m]
    BY <1>1, <1>2, ShortRanges
  <2>2. AirTrue(air, up', doubted')
    BY <1>3, LaterTrue DEF TruthInv, Truth, AirTrue
  <2> QED BY <2>1, <2>2 DEF AirTrue
<1>9. PathsTrue(sending', up', doubted')
  <2>1. \A a, b : Real(a, b, up, doubted) => Real(a, b, up', doubted')
    BY <1>3, LaterTrue
  <2>2. \A s \in sending' : s \in sending /\ s[1] # n
    BY <1>1
  <2>3. PathsTrue(sending, up, doubted) /\ up' = up \ {n}
    BY <1>1 DEF TruthInv, Truth
  <2> QED BY <2>1, <2>2, <2>3 DEF PathsTrue
<1>10. BrokenTrue(broken', doubted') /\ Reach \ contact' \subseteq doubted'
  BY <1>1, <1>2 DEF TruthInv, Truth, BrokenTrue
<1>11. Kept
  BY <1>1, <1>5 DEF Kept, TruthInv, GraphInv, Rest
<1> QED BY <1>6, <1>7, <1>8, <1>9, <1>10, <1>11 DEF Truth

LEMMA TruthContact ==
  ASSUME TruthInv, NEW e \in Reach, LoseContact(e) \/ RegainContact(e) PROVE Truth' /\ Kept
<1>1. /\ UNCHANGED <<up, net, broken, sending, air>>
      /\ doubted \subseteq doubted' /\ Reach \ contact' \subseteq doubted'
  BY DEF TruthInv, Truth, LoseContact, RegainContact
<1>2. Later(up, doubted, up', doubted')
  BY <1>1 DEF Later, Born
<1>3. NetsTrue(net', up', doubted') /\ AirTrue(air', up', doubted')
  BY <1>1, <1>2, LaterTrue DEF TruthInv, Truth, NetsTrue, AirTrue
<1>4. PathsTrue(sending', up', doubted')
  <2>1. \A a, b : Real(a, b, up, doubted) => Real(a, b, up', doubted')
    BY <1>2, LaterTrue
  <2> QED BY <1>1, <2>1 DEF TruthInv, Truth, PathsTrue
<1>5. BrokenTrue(broken', doubted') /\ Ignorant(net', up')
  BY <1>1 DEF TruthInv, Truth, BrokenTrue, Ignorant
<1> QED BY <1>1, <1>3, <1>4, <1>5 DEF Truth, Kept

\* A Node goes stale only of a router that cannot be heard.
LEMMA TruthLapse ==
  ASSUME TruthInv, NEW n \in Nodes, NEW b \in Nodes, Lapse(n, b) PROVE Truth' /\ Kept
<1> DEFINE v == net[n]
           w == [v EXCEPT !.fresh = @ \ {b}]
<1>1. /\ net' = [net EXCEPT ![n] = w] /\ n \in up /\ b \in v.fresh
      /\ Pair(n, b) \in Reach /\ ~Hears(n, b)
      /\ UNCHANGED <<up, contact, broken, sending, air, doubted>>
  BY DEF Lapse
<1>2. v \in Networks(Nodes) /\ NetTrue(n, v, up, doubted)
  BY DEF TruthInv, GraphInv, NetsSound, Truth, NetsTrue
<1>3. Pair(n, b) \in doubted
  <2>1. b # n
    BY <1>1, PairProperties
  <2>2. Born(b, up, doubted)
    BY <1>1, <1>2, <2>1 DEF NetTrue
  <2> QED BY <1>1, <2>2, Unheard
<1> HIDE DEF v
<1>4. /\ w.neighbours = v.neighbours /\ w.macs = v.macs /\ w.nodes = v.nodes
      /\ w.fresh = v.fresh \ {b}
  BY <1>2 DEF Networks
<1> HIDE DEF w
<1>5. NetTrue(n, w, up, doubted)
  BY <1>2, <1>3, <1>4, NewsTrue
<1>6. NetsTrue(net', up', doubted') /\ Ignorant(net', up') /\ Kept
  BY <1>1, <1>4, <1>5, SetNetTrue DEF v
<1> QED BY <1>1, <1>6 DEF TruthInv, Truth

\* A neighbour without a fresh Node is one that n has been out of contact with.
LEMMA TruthDetect ==
  ASSUME TruthInv, NEW n \in Nodes, Detect(n) PROVE Truth' /\ Kept
<1> DEFINE stale == {b \in Nodes : <<n, b>> \in net[n].neighbours /\ b \notin net[n].fresh}
<1>1. /\ broken' = [broken EXCEPT ![n] = stale]
      /\ UNCHANGED <<up, contact, net, sending, air, doubted>>
  BY DEF Detect
<1>2. ASSUME NEW b \in stale PROVE Pair(n, b) \in doubted
  <2>1. b \in Nodes /\ <<n, b>> \in net[n].neighbours /\ b \notin net[n].fresh
    OBVIOUS
  <2>2. NetTrue(n, net[n], up, doubted) /\ Sound(net[n])
    BY DEF TruthInv, GraphInv, NetsSound, GraphSound, Truth, NetsTrue
  <2>3. Pair(n, b) \in Reach
    BY <2>1, <2>2 DEF NetTrue, Real
  <2>4. b \in net[n].nodes
    BY <2>1, <2>2 DEF Sound
  <2> QED BY <2>1, <2>2, <2>3, <2>4 DEF NetTrue
<1> HIDE DEF stale
<1>3. broken'[n] = stale /\ \A m \in Nodes : m # n => broken'[m] = broken[m]
  BY <1>1 DEF TruthInv, GraphInv, Rest
<1>4. BrokenTrue(broken', doubted')
  BY <1>1, <1>2, <1>3 DEF BrokenTrue, TruthInv, Truth
<1> QED BY <1>1, <1>4 DEF TruthInv, Truth, Kept

LEMMA TruthDropBroken ==
  ASSUME TruthInv, NEW n \in Nodes, NEW b \in Nodes, DropBroken(n, b) PROVE Truth' /\ Kept
<1> DEFINE w == Drop(net[n], n, b)
           news == <<EdgeDrop(n, b)>>
<1>1. /\ net' = [net EXCEPT ![n] = w] /\ air' = Broadcast(n, news, air)
      /\ broken' = [broken EXCEPT ![n] = @ \ {b}] /\ b \in broken[n]
      /\ UNCHANGED <<up, contact, sending, doubted>>
  BY DEF DropBroken
<1>2. Pair(n, b) \in doubted
  BY <1>1 DEF TruthInv, Truth, BrokenTrue
<1>3. /\ NetTrue(n, w, up, doubted)
      /\ w.neighbours = net[n].neighbours \ Both(n, b) /\ w.macs \subseteq net[n].macs
  BY DropTrue DEF TruthInv, GraphInv, NetsSound, Truth, NetsTrue
<1>4. n \in up \/ (w.neighbours = {} /\ w.macs = {})
  BY <1>3 DEF TruthInv, Truth, Ignorant
<1>5. \A e \in net[n].neighbours \ w.neighbours : Pair(e[1], e[2]) \in doubted
  BY <1>2, <1>3, PairProperties DEF Both
<1>6. AirTrue(air', up', doubted')
  <2>1. news \in Seq(Packets) /\ Range(news) = {EdgeDrop(n, b)}
    BY PacketTypes, ShortRanges
  <2>2. \A m : PacketTrue(m, EdgeDrop(n, b), up, doubted)
    BY <1>2 DEF PacketTrue, EdgeDrop
  <2> HIDE DEF news
  <2>3. AirTrue(air, up, doubted) /\ air \in [Nodes -> Seq(Packets)]
    BY DEF TruthInv, Truth, GraphInv, AirType
  <2>4. AirTrue(Broadcast(n, news, air), up, doubted)
    BY <2>1, <2>2, <2>3, BroadcastTrue
  <2> QED BY <1>1, <2>4
<1> HIDE DEF w, news
<1>7. NetsTrue(net', up', doubted') /\ Ignorant(net', up') /\ Kept
  BY <1>1, <1>3, <1>4, <1>5, SetNetTrue
<1>8. BrokenTrue(broken', doubted')
  BY <1>1 DEF BrokenTrue, TruthInv, Truth, GraphInv, Rest
<1> QED BY <1>1, <1>6, <1>7, <1>8 DEF TruthInv, Truth

LEMMA TruthSendData ==
  ASSUME TruthInv, NEW n \in Nodes, NEW path \in Paths, SendData(n, path)
  PROVE  Truth' /\ Kept
<1>1. /\ n \in up /\ Hops(n, path) \subseteq net[n].neighbours
      /\ sending' = sending \union {<<n, path>>}
      /\ UNCHANGED <<up, contact, net, broken, air, doubted>>
  BY DEF SendData
<1>2. \A e \in Hops(n, path) : Real(e[1], e[2], up, doubted)
  BY <1>1 DEF TruthInv, Truth, NetsTrue, NetTrue
<1>3. PathsTrue(sending', up', doubted')
  BY <1>1, <1>2 DEF TruthInv, Truth, PathsTrue
<1> QED BY <1>1, <1>3 DEF TruthInv, Truth, Kept

LEMMA TruthHandleStatus ==
  ASSUME TruthInv, NEW n \in Nodes, NEW path \in Paths, HandleStatus(n, path)
  PROVE  Truth' /\ Kept
<1> DEFINE b == path[1]
           merged == Merge(net[n], Hops(n, path))
           added == AddEdge(net[n], n, b)
           news == <<EdgeDrop(n, b)>>
<1>1. /\ sending' = sending \ {<<n, path>>} /\ <<n, path>> \in sending
      /\ UNCHANGED <<up, contact, broken, doubted>>
      /\ \/ net' = [net EXCEPT ![n] = merged] /\ air' = air
         \/ /\ ~Hears(n, b) /\ net' = [net EXCEPT ![n] = added]
            /\ air' = air \/ air' = Broadcast(n, news, air)
  BY DEF HandleStatus
<1>2. /\ n \in up /\ \A e \in Hops(n, path) : Real(e[1], e[2], up, doubted)
  BY <1>1 DEF TruthInv, Truth, PathsTrue
<1>3. b \in Nodes /\ Hops(n, path) \in SUBSET (Nodes \X Nodes) /\ Real(n, b, up, doubted)
  BY <1>2, PathTypes, FirstHop
<1>4. SoundNetwork(net[n], Nodes) /\ NetTrue(n, net[n], up, doubted)
  BY NetworkOf DEF TruthInv, GraphInv, Truth, NetsTrue
<1>5. NetTrue(n, merged, up, doubted) /\ net[n].neighbours \subseteq merged.neighbours
  BY <1>2, <1>3, <1>4, MergeTrue DEF SoundNetwork
<1> HIDE DEF b
<1>6. NetTrue(n, added, up, doubted) /\ net[n].neighbours \subseteq added.neighbours
  BY <1>3, <1>4, AddEdgeTrue
<1>7. AirTrue(air', up', doubted')
  <2>1. news \in Seq(Packets) /\ Range(news) = {EdgeDrop(n, b)}
    BY <1>3, PacketTypes, ShortRanges
  <2>2. AirTrue(air, up, doubted) /\ air \in [Nodes -> Seq(Packets)]
    BY DEF TruthInv, Truth, GraphInv, AirType
  <2>3. ASSUME ~Hears(n, b) PROVE \A m : PacketTrue(m, EdgeDrop(n, b), up, doubted)
    <3>1. Pair(n, b) \in doubted
      BY <1>2, <1>3, <2>3, Unheard DEF Real
    <3> QED BY <3>1 DEF PacketTrue, EdgeDrop
  <2> HIDE DEF news
  <2>4. ASSUME ~Hears(n, b) PROVE AirTrue(Broadcast(n, news, air), up, doubted)
    BY <2>1, <2>2, <2>3, <2>4, BroadcastTrue
  <2> QED BY <1>1, <2>2, <2>4
<1> HIDE DEF merged, added, news
<1>8. NetsTrue(net', up', doubted') /\ Ignorant(net', up') /\ Kept
  <2>1. CASE net' = [net EXCEPT ![n] = merged]
    BY <1>1, <1>2, <1>5, <2>1, SetNetTrue
  <2>2. CASE net' = [net EXCEPT ![n] = added]
    BY <1>1, <1>2, <1>6, <2>2, SetNetTrue
  <2> QED BY <1>1, <2>1, <2>2
<1>9. PathsTrue(sending', up', doubted')
  BY <1>1 DEF TruthInv, Truth, PathsTrue
<1> QED BY <1>1, <1>7, <1>8, <1>9 DEF TruthInv, Truth

\* What a NodeBroadcast of b makes of the graph v: only its Node is noted, or b is
\* introduced with its MAC and its edge.  last_tick is renewed in either case.
Renewed(v, b) == [v EXCEPT !.fresh = @ \union {b}]
Introduced(v, b, n) == AddEdge([AddNode(v, b) EXCEPT !.macs = @ \union {b}], b, n)

LEMMA RenewedTrue ==
  ASSUME NEW n, NEW U, NEW D, NEW v \in Networks(Nodes), NetTrue(n, v, U, D),
         NEW b, Born(b, U, D)
  PROVE  /\ NetTrue(n, Renewed(v, b), U, D)
         /\ Renewed(v, b).neighbours = v.neighbours /\ Renewed(v, b).macs = v.macs
<1> DEFINE w == Renewed(v, b)
<1>1. /\ w.neighbours = v.neighbours /\ w.macs = v.macs /\ w.nodes = v.nodes
      /\ w.fresh = v.fresh \union {b}
  BY DEF Networks, Renewed
<1> HIDE DEF w
<1>2. NetTrue(n, w, U, D)
  BY <1>1, NewsTrue
<1> QED BY <1>1, <1>2 DEF w

LEMMA NotedTrue ==
  ASSUME NEW n \in Nodes, NEW U, NEW D, NEW v, SoundNetwork(v, Nodes), NetTrue(n, v, U, D),
         NEW b \in Nodes, Real(n, b, U, D)
  PROVE  /\ SoundNetwork(AddNode(v, b), Nodes) /\ NetTrue(n, AddNode(v, b), U, D)
         /\ AddNode(v, b).neighbours = v.neighbours /\ AddNode(v, b).macs = v.macs
<1>1. SoundNetwork(AddNode(v, b), Nodes)
  BY AddNodeSound, AddressesSmall
<1>2. Born(b, U, D) /\ v \in Networks(Nodes)
  BY DEF Real, SoundNetwork
<1> QED BY <1>1, <1>2, AddNodeTrue

LEMMA IntroducedTrue ==
  ASSUME NEW n \in Nodes, NEW U, NEW D, NEW v, SoundNetwork(v, Nodes), NetTrue(n, v, U, D),
         NEW b \in Nodes, Real(n, b, U, D)
  PROVE  /\ SoundNetwork(Introduced(v, b, n), Nodes) /\ NetTrue(n, Introduced(v, b, n), U, D)
         /\ v.neighbours \union {<<n, b>>} \subseteq Introduced(v, b, n).neighbours
         /\ Introduced(v, b, n).macs = v.macs \union {b}
<1> DEFINE noted == AddNode(v, b)
           heard == [noted EXCEPT !.macs = @ \union {b}]
           known == AddEdge(heard, b, n)
<1>1. known = Introduced(v, b, n) /\ Real(b, n, U, D)
  BY RealIsSymmetric DEF Introduced
<1>2. /\ SoundNetwork(noted, Nodes) /\ NetTrue(n, noted, U, D)
      /\ noted.neighbours = v.neighbours /\ noted.macs = v.macs
  BY NotedTrue
<1> HIDE DEF noted
<1>3. noted.macs \union {b} \in SUBSET Nodes
  BY <1>2 DEF SoundNetwork, Networks
<1>4. SoundNetwork(heard, Nodes)
  BY <1>2, <1>3, NotesSound, AddressesSmall
<1>5. /\ heard.neighbours = noted.neighbours /\ heard.macs = noted.macs \union {b}
      /\ heard.nodes = noted.nodes /\ heard.fresh = noted.fresh
  BY <1>2 DEF SoundNetwork, Networks
<1> HIDE DEF heard
<1>6. NetTrue(n, heard, U, D)
  BY <1>2, <1>5, NewsTrue
<1>7. /\ NetTrue(n, known, U, D) /\ known.macs = heard.macs
      /\ heard.neighbours \subseteq known.neighbours /\ <<b, n>> \in known.neighbours
  BY <1>1, <1>4, <1>6, AddEdgeTrue
<1>8. SoundNetwork(known, Nodes)
  BY <1>4, AddEdgeSound, AddressesSmall
<1> HIDE DEF known
<1>9. <<n, b>> \in known.neighbours
  <2>1. \A e \in known.neighbours : <<e[2], e[1]>> \in known.neighbours
    BY <1>8 DEF SoundNetwork, Sound
  <2> QED BY <1>7, <2>1
<1> QED BY <1>1, <1>2, <1>5, <1>7, <1>8, <1>9

LEMMA TruthHandleNodeBroadcast ==
  ASSUME TruthInv, NEW n \in Nodes, n \in up, NEW p \in Packets,
         PacketTrue(n, p, up, doubted), NEW rest \in [Nodes -> Seq(Packets)],
         AirTrue(rest, up, doubted), HandleNodeBroadcast(n, p, rest)
  PROVE  Truth' /\ Kept
<1> DEFINE b == p.address
           noted == AddNode(net[n], b)
           known == Introduced(net[n], b, n)
           intro == <<NodeBroadcast(n), Graph(Edges(known))>>
<1>1. /\ \/ net' = [net EXCEPT ![n] = Renewed(noted, b)]
         \/ net' = [net EXCEPT ![n] = Renewed(known, b)]
      /\ air' = rest \/ air' = Broadcast(n, intro, rest)
      /\ UNCHANGED <<up, contact, broken, sending, doubted>>
  BY DEF HandleNodeBroadcast, Renewed, Introduced
<1>2. b \in Nodes /\ Real(n, b, up, doubted)
  BY PacketFields DEF HandleNodeBroadcast, PacketTrue
<1> HIDE DEF b
<1>3. SoundNetwork(net[n], Nodes) /\ NetTrue(n, net[n], up, doubted) /\ Born(b, up, doubted)
  BY <1>2, NetworkOf DEF TruthInv, GraphInv, Truth, NetsTrue, Real
<1>4. /\ SoundNetwork(noted, Nodes) /\ NetTrue(n, noted, up, doubted)
      /\ noted.neighbours = net[n].neighbours
  BY <1>2, <1>3, NotedTrue
<1>5. /\ SoundNetwork(known, Nodes) /\ NetTrue(n, known, up, doubted)
      /\ net[n].neighbours \subseteq known.neighbours
  BY <1>2, <1>3, IntroducedTrue
<1> HIDE DEF noted, known
<1>6. /\ NetTrue(n, Renewed(noted, b), up, doubted) /\ NetTrue(n, Renewed(known, b), up, doubted)
      /\ net[n].neighbours \subseteq Renewed(noted, b).neighbours
      /\ net[n].neighbours \subseteq Renewed(known, b).neighbours
  BY <1>3, <1>4, <1>5, RenewedTrue DEF SoundNetwork
<1>7. AirTrue(Broadcast(n, intro, rest), up, doubted)
  <2>1. Graph(Edges(known)) \in Packets /\ NodeBroadcast(n) \in Packets
    BY <1>5, PacketTypes
  <2>2. intro \in Seq(Packets) /\ Range(intro) = {NodeBroadcast(n), Graph(Edges(known))}
    BY <2>1, ShortRanges
  <2> HIDE DEF intro
  <2>3. ASSUME NEW m \in Listeners(n) PROVE PacketTrue(m, NodeBroadcast(n), up, doubted)
    <3>1. Real(m, n, up, doubted)
      BY ListenersReal
    <3> QED BY <3>1 DEF PacketTrue, NodeBroadcast
  <2>4. \A m : PacketTrue(m, Graph(Edges(known)), up, doubted)
    BY <1>5 DEF PacketTrue, Graph, Edges, NetTrue
  <2> QED BY <2>2, <2>3, <2>4, BroadcastTrue
<1> HIDE DEF intro
<1>8. NetsTrue(net', up', doubted') /\ Ignorant(net', up') /\ Kept
  <2>1. CASE net' = [net EXCEPT ![n] = Renewed(noted, b)]
    BY <1>1, <1>6, <2>1, SetNetTrue
  <2>2. CASE net' = [net EXCEPT ![n] = Renewed(known, b)]
    BY <1>1, <1>6, <2>2, SetNetTrue
  <2> QED BY <1>1, <2>1, <2>2
<1>9. AirTrue(air', up', doubted')
  BY <1>1, <1>7
<1> QED BY <1>1, <1>8, <1>9 DEF TruthInv, Truth

LEMMA TruthHandleGraph ==
  ASSUME TruthInv, NEW n \in Nodes, n \in up, NEW p \in Packets,
         PacketTrue(n, p, up, doubted), NEW rest \in [Nodes -> Seq(Packets)],
         AirTrue(rest, up, doubted), HandleGraph(n, p, rest)
  PROVE  Truth' /\ Kept
<1> DEFINE merged == Merge(net[n], p.edges)
           news == <<Graph(Edges(merged))>>
<1>1. /\ net' = [net EXCEPT ![n] = merged]
      /\ air' = rest \/ air' = Broadcast(n, news, rest)
      /\ UNCHANGED <<up, contact, broken, sending, doubted>>
  BY DEF HandleGraph
<1>2. SoundNetwork(net[n], Nodes) /\ NetTrue(n, net[n], up, doubted)
  BY NetworkOf DEF TruthInv, GraphInv, Truth, NetsTrue
<1>3. /\ p.edges \in SUBSET (Nodes \X Nodes) /\ \A e \in p.edges : e[1] # e[2]
      /\ \A e \in p.edges : Real(e[1], e[2], up, doubted)
  BY PacketFields DEF HandleGraph, PacketTrue
<1>4. /\ SoundNetwork(merged, Nodes) /\ NetTrue(n, merged, up, doubted)
      /\ net[n].neighbours \subseteq merged.neighbours
  BY <1>2, <1>3, MergeSound, MergeTrue, AddressesSmall DEF SoundNetwork
<1> HIDE DEF merged
<1>5. AirTrue(Broadcast(n, news, rest), up, doubted)
  <2>1. news \in Seq(Packets) /\ Range(news) = {Graph(Edges(merged))}
    BY <1>4, PacketTypes, ShortRanges
  <2> HIDE DEF news
  <2>2. \A m : PacketTrue(m, Graph(Edges(merged)), up, doubted)
    BY <1>4 DEF PacketTrue, Graph, Edges, NetTrue
  <2> QED BY <2>1, <2>2, BroadcastTrue
<1>6. NetsTrue(net', up', doubted') /\ Ignorant(net', up') /\ Kept
  BY <1>1, <1>4, SetNetTrue
<1>7. AirTrue(air', up', doubted')
  BY <1>1, <1>5
<1> QED BY <1>1, <1>6, <1>7 DEF TruthInv, Truth

\* An EdgeDrop takes away what it names, and that is doubted.
LEMMA TruthHandleEdgeDrop ==
  ASSUME TruthInv, NEW n \in Nodes, n \in up, NEW p \in Packets,
         PacketTrue(n, p, up, doubted), NEW rest \in [Nodes -> Seq(Packets)],
         AirTrue(rest, up, doubted), HandleEdgeDrop(n, p, rest)
  PROVE  Truth' /\ Kept
<1> Nodes \in SUBSET (1..254)
  BY AddressesSmall
<1> DEFINE a == p.edge[1]
           b == p.edge[2]
           once == Drop(net[n], a, b)
           twice == Drop(once, b, a)
           news == <<p>>
<1>1. /\ net' = [net EXCEPT ![n] = once] \/ net' = [net EXCEPT ![n] = twice]
      /\ air' = rest \/ air' = Broadcast(n, news, rest)
      /\ UNCHANGED <<up, contact, broken, sending, doubted>>
  BY DEF HandleEdgeDrop
<1>2. p.type = "EdgeDrop" /\ a \in Nodes /\ b \in Nodes /\ Pair(a, b) \in doubted
  BY PacketFields DEF HandleEdgeDrop, PacketTrue
<1>3. \A m : PacketTrue(m, p, up, doubted)
  BY <1>2 DEF PacketTrue
<1> HIDE DEF a, b
<1>4. SoundNetwork(net[n], Nodes) /\ NetTrue(n, net[n], up, doubted)
  BY NetworkOf DEF TruthInv, GraphInv, Truth, NetsTrue
<1>5. /\ SoundNetwork(once, Nodes) /\ NetTrue(n, once, up, doubted)
      /\ once.neighbours = net[n].neighbours \ Both(a, b)
  <2>1. SoundNetwork(once, Nodes)
    BY <1>2, <1>4, DropSound
  <2>2. net[n] \in Networks(Nodes)
    BY <1>4 DEF SoundNetwork
  <2> QED BY <1>4, <2>1, <2>2, DropTrue
<1> HIDE DEF once
<1>6. /\ NetTrue(n, twice, up, doubted)
      /\ twice.neighbours = once.neighbours \ Both(b, a)
  BY <1>5, DropTrue DEF SoundNetwork
<1> HIDE DEF twice
<1>7. /\ \A e \in net[n].neighbours \ once.neighbours : Pair(e[1], e[2]) \in doubted
      /\ \A e \in net[n].neighbours \ twice.neighbours : Pair(e[1], e[2]) \in doubted
  <2>1. \A e \in Both(a, b) : Pair(e[1], e[2]) \in doubted
    BY <1>2, PairProperties DEF Both
  <2>2. Both(b, a) = Both(a, b)
    BY DEF Both
  <2> QED BY <1>5, <1>6, <2>1, <2>2
<1>8. AirTrue(Broadcast(n, news, rest), up, doubted)
  <2>1. news \in Seq(Packets) /\ Range(news) = {p}
    BY ShortRanges
  <2> HIDE DEF news
  <2> QED BY <1>3, <2>1, BroadcastTrue
<1> HIDE DEF news
<1>9. NetsTrue(net', up', doubted') /\ Ignorant(net', up') /\ Kept
  <2>1. CASE net' = [net EXCEPT ![n] = once]
    BY <1>1, <1>5, <1>7, <2>1, SetNetTrue
  <2>2. CASE net' = [net EXCEPT ![n] = twice]
    BY <1>1, <1>6, <1>7, <2>2, SetNetTrue
  <2> QED BY <1>1, <2>1, <2>2
<1>10. AirTrue(air', up', doubted')
  BY <1>1, <1>8
<1> QED BY <1>1, <1>9, <1>10 DEF TruthInv, Truth

\* What Process takes and what it leaves.
LEMMA ProcessTakes ==
  ASSUME TruthInv, NEW n \in Nodes, NEW i \in DOMAIN air[n]
  PROVE  LET p == air[n][i]
             rest == [air EXCEPT ![n] = RemoveAt(@, i)]
         IN /\ p \in Packets /\ PacketTrue(n, p, up, doubted)
            /\ rest \in [Nodes -> Seq(Packets)] /\ AirTrue(rest, up, doubted)
            /\ \A m \in Nodes : /\ Range(rest[m]) \subseteq Range(air[m])
                                /\ Range(air[m]) \subseteq Range(rest[m]) \union {p}
                                /\ m # n => rest[m] = air[m]
<1> DEFINE p == air[n][i]
           q == RemoveAt(air[n], i)
           rest == [air EXCEPT ![n] = q]
<1>1. p \in Packets /\ rest \in [Nodes -> Seq(Packets)] /\ AirTrue(air, up, doubted)
  BY RestType DEF TruthInv, GraphInv, Truth
<1>2. /\ p \in Range(air[n]) /\ Range(q) \subseteq Range(air[n])
      /\ Range(air[n]) \subseteq Range(q) \union {p}
  BY RestHolds DEF TruthInv, GraphInv
<1> HIDE DEF p, q
<1>3. rest[n] = q /\ \A m \in Nodes : m # n => rest[m] = air[m]
  BY DEF TruthInv, GraphInv, AirType
<1> HIDE DEF rest
<1>4. \A m \in Nodes : /\ Range(rest[m]) \subseteq Range(air[m])
                       /\ Range(air[m]) \subseteq Range(rest[m]) \union {p}
  BY <1>2, <1>3
<1>5. PacketTrue(n, p, up, doubted) /\ AirTrue(rest, up, doubted)
  BY <1>1, <1>2, <1>4 DEF AirTrue
<1> QED BY <1>1, <1>3, <1>4, <1>5 DEF p, q, rest

LEMMA TruthProcess ==
  ASSUME TruthInv, NEW n \in Nodes, Process(n) PROVE Truth' /\ Kept
<1>1. PICK i \in DOMAIN air[n] :
        \/ HandleNodeBroadcast(n, air[n][i], [air EXCEPT ![n] = RemoveAt(@, i)])
        \/ HandleGraph(n, air[n][i], [air EXCEPT ![n] = RemoveAt(@, i)])
        \/ HandleEdgeDrop(n, air[n][i], [air EXCEPT ![n] = RemoveAt(@, i)])
        \/ HandleUnknownEdge(n, air[n][i])
  BY DEF Process
<1> DEFINE p == air[n][i]
           rest == [air EXCEPT ![n] = RemoveAt(@, i)]
<1>2. /\ p \in Packets /\ PacketTrue(n, p, up, doubted)
      /\ rest \in [Nodes -> Seq(Packets)] /\ AirTrue(rest, up, doubted)
  BY ProcessTakes
<1>3. \/ HandleNodeBroadcast(n, p, rest) \/ HandleGraph(n, p, rest)
      \/ HandleEdgeDrop(n, p, rest) \/ HandleUnknownEdge(n, p)
  BY <1>1
<1>4. n \in up
  BY DEF Process
<1> HIDE DEF p, rest
<1>5. CASE HandleNodeBroadcast(n, p, rest)
  BY <1>2, <1>4, <1>5, TruthHandleNodeBroadcast
<1>6. CASE HandleGraph(n, p, rest)
  BY <1>2, <1>4, <1>6, TruthHandleGraph
<1>7. CASE HandleEdgeDrop(n, p, rest)
  BY <1>2, <1>4, <1>7, TruthHandleEdgeDrop
<1>8. CASE HandleUnknownEdge(n, p)
  BY <1>8, TruthHalt DEF HandleUnknownEdge
<1> QED BY <1>3, <1>5, <1>6, <1>7, <1>8

LEMMA TruthStep == TruthInv /\ [Next]_vars => TruthInv' /\ Kept
<1> SUFFICES ASSUME TruthInv, [Next]_vars PROVE Truth' /\ Kept
  BY GraphStep DEF TruthInv
<1>1. CASE UNCHANGED vars
  BY <1>1 DEF vars, TruthInv, Truth, Kept
<1>2. ASSUME NEW n \in Nodes,
             Boot(n) \/ Crash(n) \/ Heartbeat(n) \/ Detect(n) \/ Process(n)
      PROVE  Truth' /\ Kept
  BY <1>2, TruthSpeak, TruthHalt, TruthDetect, TruthProcess DEF Crash
<1>3. ASSUME NEW n \in Nodes, NEW b \in Nodes, Lapse(n, b) \/ DropBroken(n, b)
      PROVE  Truth' /\ Kept
  BY <1>3, TruthLapse, TruthDropBroken
<1>4. ASSUME NEW n \in Nodes, NEW path \in Paths, SendData(n, path) \/ HandleStatus(n, path)
      PROVE  Truth' /\ Kept
  BY <1>4, TruthSendData, TruthHandleStatus
<1>5. ASSUME NEW e \in Reach, LoseContact(e) \/ RegainContact(e)
      PROVE  Truth' /\ Kept
  BY <1>5, TruthContact
<1> QED BY <1>1, <1>2, <1>3, <1>4, <1>5 DEF Next

LEMMA EdgesReal ==
  ASSUME TruthInv, NEW n \in Nodes, NEW e \in Edges(net[n])
  PROVE  /\ e \in Reach /\ e[1] \in Nodes /\ e[2] \in Nodes /\ e = Pair(e[1], e[2])
         /\ Real(e[1], e[2], up, doubted)
<1>1. e \in net[n].neighbours /\ e[1] < e[2] /\ NetTrue(n, net[n], up, doubted)
  BY DEF Edges, TruthInv, Truth, NetsTrue
<1>2. e \in Nodes \X Nodes
  BY <1>1 DEF TruthInv, GraphInv, NetsSound, Networks
<1>3. e = Pair(e[1], e[2])
  BY <1>1, <1>2 DEF Pair
<1>4. Real(e[1], e[2], up, doubted)
  BY <1>1 DEF NetTrue
<1> QED BY <1>2, <1>3, <1>4 DEF Real

\* Every edge that any router knows connects two radios that can reach each other; both of
\* its routers run, or it has been out of contact (network.cpp:96 merge, router.cpp:204).
THEOREM Edges_Real == Spec => []RealEdges
<1>1. Init => TruthInv
  BY GraphInit, TruthInit DEF TruthInv
<1>2. TruthInv /\ [Next]_vars => TruthInv'
  BY TruthStep
<1>3. TruthInv => RealEdges
  <2> SUFFICES ASSUME TruthInv, NEW n \in Nodes, NEW e \in Edges(net[n])
               PROVE  e \in Reach /\ ({e[1], e[2]} \subseteq up \/ e \in doubted)
    BY DEF RealEdges
  <2> QED BY EdgesReal, RealAndDown
<1> QED BY <1>1, <1>2, <1>3, PTL DEF Spec

\* A router that goes on running never loses an edge that has always been good, whatever
\* EdgeDrops, StatusFrames and stale Nodes there are (network.cpp:257 drop, router.cpp:70).
THEOREM No_False_Drop == Spec => NoFalseDrop
<1>1. Init => TruthInv
  BY GraphInit, TruthInit DEF TruthInv
<1>2. TruthInv /\ [Next]_vars => TruthInv'
  BY TruthStep
<1>3. TruthInv /\ [Next]_vars
        => [\A n \in up \intersect up' : Edges(net[n]) \ Edges(net'[n]) \subseteq doubted]_vars
  <2> SUFFICES ASSUME TruthInv, [Next]_vars, NEW n \in up \intersect up',
                      NEW e \in Edges(net[n]), e \notin Edges(net'[n])
               PROVE  e \in doubted
    OBVIOUS
  <2>1. Kept /\ n \in Nodes
    BY TruthStep DEF TruthInv, GraphInv, Rest
  <2>2. e = Pair(e[1], e[2])
    BY <2>1, EdgesReal
  <2>3. e \in net[n].neighbours /\ e \notin net'[n].neighbours
    BY DEF Edges
  <2>4. Pair(e[1], e[2]) \in doubted
    BY <2>1, <2>3 DEF Kept
  <2> QED BY <2>2, <2>4
<1> QED BY <1>1, <1>2, <1>3, PTL DEF Spec, NoFalseDrop

-----------------------------------------------------------------------------
(***************************************************************************)
(* As long as nothing is doubted, news spread: a router that has           *)
(* introduced itself to another, and so has its MAC, has an edge to it,    *)
(* and whatever it knows the other one knows, or will by a Graph that is   *)
(* on its way.  An edge is never taken away, so that a StatusFrame has     *)
(* nothing to add again.                                                   *)
(***************************************************************************)
\* m knows the edge e, or a Graph on its way to it does.
Told(nets, queues, m, e) ==
  e \in nets[m].neighbours \/ \E g \in Range(queues[m]) : g.type = "Graph" /\ e \in g.edges

Introductions(nets, queues) ==
  \A n \in Nodes : \A m \in nets[n].macs :
    <<n, m>> \in nets[n].neighbours /\ \A e \in Edges(nets[n]) : Told(nets, queues, m, e)

PathsKnown(paths, nets) == \A s \in paths : Hops(s[1], s[2]) \subseteq nets[s[1]].neighbours

Spread == Introductions(net, air) /\ PathsKnown(sending, net)

SpreadInv == TruthInv /\ (doubted = {} => Spread)

\* Nothing doubted, every real neighbour runs and is in contact.
LEMMA NoDoubt ==
  ASSUME TruthInv, doubted = {}, NEW n \in Nodes, NEW m \in Nodes, Real(n, m, up, doubted)
  PROVE  m \in Listeners(n) /\ m # n
<1>1. Pair(n, m) \in contact
  BY DEF TruthInv, Truth, Real
<1>2. m \in up
  BY RealAndDown
<1>3. m # n
  BY PairProperties DEF Real
<1> QED BY <1>1, <1>2, <1>3 DEF Listeners

LEMMA MacsListen ==
  ASSUME TruthInv, doubted = {}, NEW n \in Nodes, NEW m \in net[n].macs
  PROVE  m \in Nodes /\ m # n /\ m \in Listeners(n)
<1>1. m \in Nodes /\ Real(n, m, up, doubted)
  BY DEF TruthInv, Truth, GraphInv, NetsSound, Networks, NetsTrue, NetTrue
<1> QED BY <1>1, NoDoubt

\* The graph of n may grow into w; a Graph that n takes is in w, all others wait on; and if
\* w is news, a Graph of it goes to everyone whose MAC n has.
LEMMA SpreadStep ==
  ASSUME TruthInv, Spread, doubted = {}, NEW n \in Nodes, NEW w,
         net' = [net EXCEPT ![n] = w], net[n].neighbours \subseteq w.neighbours,
         \A m \in Nodes : \A g \in Range(air[m]) : g.type = "Graph"
            => g \in Range(air'[m]) \/ (m = n /\ g.edges \subseteq w.neighbours),
         \/ w.neighbours = net[n].neighbours /\ w.macs = net[n].macs
         \/ \A m \in w.macs : /\ <<n, m>> \in w.neighbours
                              /\ \E g \in Range(air'[m]) : g.type = "Graph" /\ Edges(w) \subseteq g.edges,
         \A s \in sending' : s \in sending \/ Hops(s[1], s[2]) \subseteq net'[s[1]].neighbours,
         sending \subseteq Nodes \X Paths
  PROVE  Spread'
<1>1. net'[n] = w /\ \A m \in Nodes : m # n => net'[m] = net[m]
  BY DEF TruthInv, GraphInv, NetsSound
<1>2. \A m \in Nodes : net[m].neighbours \subseteq net'[m].neighbours
  BY <1>1
<1>3. Introductions(net, air) /\ PathsKnown(sending, net)
  BY DEF Spread
<1>4. ASSUME NEW m \in Nodes, NEW e, Told(net, air, m, e) PROVE Told(net', air', m, e)
  <2>1. CASE e \in net[m].neighbours
    BY <1>2, <2>1 DEF Told
  <2>2. CASE \E g \in Range(air[m]) : g.type = "Graph" /\ e \in g.edges
    <3>1. PICK g \in Range(air[m]) : g.type = "Graph" /\ e \in g.edges
      BY <2>2
    <3>2. g \in Range(air'[m]) \/ (m = n /\ g.edges \subseteq w.neighbours)
      BY <3>1
    <3> QED BY <1>1, <3>1, <3>2 DEF Told
  <2> QED BY <1>4, <2>1, <2>2 DEF Told
<1>5. ASSUME NEW x \in Nodes, NEW m \in net'[x].macs,
             net'[x].neighbours = net[x].neighbours, net'[x].macs = net[x].macs
      PROVE  /\ <<x, m>> \in net'[x].neighbours
             /\ \A e \in Edges(net'[x]) : Told(net', air', m, e)
  <2>1. m \in net[x].macs /\ m \in Nodes /\ Edges(net'[x]) = Edges(net[x])
    BY <1>5, MacsListen DEF Edges
  <2>2. <<x, m>> \in net[x].neighbours /\ \A e \in Edges(net[x]) : Told(net, air, m, e)
    BY <1>3, <2>1 DEF Introductions
  <2> QED BY <1>4, <1>5, <2>1, <2>2
<1>6. ASSUME w.neighbours = net[n].neighbours, w.macs = net[n].macs
      PROVE  Introductions(net', air')
  <2>1. \A x \in Nodes : net'[x].neighbours = net[x].neighbours /\ net'[x].macs = net[x].macs
    BY <1>1, <1>6
  <2> QED BY <1>5, <2>1 DEF Introductions
<1>7. ASSUME \A m \in w.macs :
               /\ <<n, m>> \in w.neighbours
               /\ \E g \in Range(air'[m]) : g.type = "Graph" /\ Edges(w) \subseteq g.edges
      PROVE  Introductions(net', air')
  <2>1. ASSUME NEW m \in net'[n].macs
        PROVE  /\ <<n, m>> \in net'[n].neighbours
               /\ \A e \in Edges(net'[n]) : Told(net', air', m, e)
    BY <1>1, <1>7 DEF Told
  <2>2. \A x \in Nodes : x # n => net'[x].neighbours = net[x].neighbours
                                  /\ net'[x].macs = net[x].macs
    BY <1>1
  <2> QED BY <1>5, <2>1, <2>2 DEF Introductions
<1>8. Introductions(net', air')
  BY <1>6, <1>7
<1>9. PathsKnown(sending', net')
  BY <1>2, <1>3 DEF PathsKnown
<1> QED BY <1>8, <1>9 DEF Spread

LEMMA SpreadInit == ASSUME Init PROVE Spread
<1> Nodes \in SUBSET (1..254)
  BY AddressesSmall
<1> DEFINE both == UNION {Both(e[1], e[2]) : e \in Reach}
<1>1. ASSUME NEW n \in Nodes PROVE Complete(n).neighbours = both
  <2> DEFINE v == NewNetwork(n)
             new == Ends(Reach) \ v.nodes
             top == Highest(new \union {v.max_address})
             w == Merge(v, Reach)
             macs == {b \in Nodes : <<n, b>> \in both}
  <2>1. v \in Networks(Nodes) /\ v.neighbours = {}
    BY NewNetworkSound, NewNetworkTrue DEF SoundNetwork
  <2>2. w = [v EXCEPT !.nodes = @ \union new, !.fresh = @ \union new,
                      !.rows = @ \union Ends(Reach),
                      !.neighbours = @ \union UNION {Both(e[1], e[2]) : e \in Reach \ @},
                      !.max_address = top]
    BY DEF Merge
  <2>3. Complete(n) = [w EXCEPT !.macs = macs]
    BY DEF Complete
  <2> HIDE DEF v, new, top, macs
  <2>4. DOMAIN w = DOMAIN v /\ w.neighbours = both
    BY <2>1, <2>2 DEF Networks
  <2>5. DOMAIN v = {"nodes", "macs", "fresh", "rows", "neighbours", "max_address"}
    BY <2>1 DEF Networks
  <2> HIDE DEF w, both
  <2> QED BY <2>3, <2>4, <2>5
<1>2. ASSUME NEW n \in Nodes PROVE Complete(n).macs \subseteq {b \in Nodes : <<n, b>> \in both}
  <2> DEFINE w == Merge(NewNetwork(n), Reach)
             macs == {b \in Nodes : <<n, b>> \in both}
  <2>1. Complete(n) = [w EXCEPT !.macs = macs]
    BY DEF Complete
  <2>2. w \in Networks(Nodes)
    <3>1. Reach \in SUBSET (Nodes \X Nodes) /\ \A e \in Reach : e[1] # e[2]
      BY TopologyAssumption, OrderedPairs
    <3> QED BY <3>1, NewNetworkSound, MergeSound DEF SoundNetwork
  <2> HIDE DEF w, both
  <2> QED BY <2>1, <2>2 DEF Networks
<1> HIDE DEF both
<1>3. CASE Established
  <2>1. \A n \in Nodes : net[n] = Complete(n)
    BY <1>3 DEF Init
  <2>2. \A n \in Nodes : \A m \in net[n].macs : m \in Nodes /\ <<n, m>> \in both
    BY <1>2, <2>1
  <2>3. \A n \in Nodes : net[n].neighbours = both
    BY <1>1, <2>1
  <2>4. Introductions(net, air)
    BY <2>2, <2>3 DEF Introductions, Told, Edges
  <2> QED BY <2>4 DEF Spread, PathsKnown, Init
<1>4. CASE ~Established
  <2>1. \A n \in Nodes : net[n].macs = {}
    BY <1>4, NewNetworkTrue DEF Init
  <2> QED BY <2>1 DEF Spread, Introductions, PathsKnown, Init
<1> QED BY <1>3, <1>4

\* The graphs stay as they are, and no Graph is lost.
LEMMA SpreadStill ==
  ASSUME TruthInv, Spread, doubted = {}, net' = net,
         \A m \in Nodes : Range(air[m]) \subseteq Range(air'[m]),
         \A s \in sending' : s \in sending \/ Hops(s[1], s[2]) \subseteq net'[s[1]].neighbours
  PROVE  Spread'
<1>1. Introductions(net, air) /\ PathsKnown(sending, net)
  BY DEF Spread
<1>2. \A m, e : m \in Nodes /\ Told(net, air, m, e) => Told(net', air', m, e)
  BY DEF Told
<1>3. \A n \in Nodes : \A m \in net[n].macs : m \in Nodes
  BY MacsListen
<1>4. Introductions(net', air')
  BY <1>1, <1>2, <1>3 DEF Introductions
<1>5. PathsKnown(sending', net')
  BY <1>1 DEF PathsKnown
<1> QED BY <1>4, <1>5 DEF Spread

LEMMA SpreadSpeak ==
  ASSUME TruthInv, Spread, doubted = {}, NEW n \in Nodes, Boot(n) \/ Heartbeat(n) PROVE Spread'
<1> DEFINE hello == <<NodeBroadcast(n)>>
<1>1. air' = Broadcast(n, hello, air) /\ UNCHANGED <<net, sending>>
  BY DEF Boot, Heartbeat
<1>2. hello \in Seq(Packets) /\ air \in [Nodes -> Seq(Packets)]
  BY PacketTypes DEF TruthInv, GraphInv, AirType
<1> HIDE DEF hello
<1>3. ASSUME NEW m \in Nodes PROVE Range(air[m]) \subseteq Range(Broadcast(n, hello, air)[m])
  <2> DEFINE queue == Broadcast(n, hello, air)[m]
  <2>1. /\ m \in Listeners(n) => Range(queue) = Range(air[m]) \union Range(hello)
        /\ m \notin Listeners(n) => Range(queue) = Range(air[m])
    BY <1>2, BroadcastHolds
  <2> HIDE DEF queue
  <2>2. Range(air[m]) \subseteq Range(queue)
    BY <2>1
  <2> QED BY <2>2 DEF queue
<1> QED BY <1>1, <1>3, SpreadStill

LEMMA SpreadHalt ==
  ASSUME TruthInv, Spread, doubted = {}, NEW n \in Nodes, Halt(n), doubted' = {} PROVE Spread'
<1>1. /\ net' = [net EXCEPT ![n] = NewNetwork(n)]
      /\ sending' = {s \in sending : s[1] # n}
      /\ air' = [air EXCEPT ![n] = <<>>]
      /\ \A e \in Reach : n \notin {e[1], e[2]}
  BY DEF Halt
<1>2. /\ net'[n].macs = {} /\ \A m \in Nodes : m # n => net'[m] = net[m] /\ air'[m] = air[m]
  BY <1>1, NewNetworkTrue DEF TruthInv, GraphInv, NetsSound, AirType
<1>3. ASSUME NEW x \in Nodes, NEW m \in net[x].macs PROVE m # n
  <2>1. Real(x, m, up, doubted) /\ m \in Nodes
    BY <1>3 DEF TruthInv, Truth, GraphInv, NetsSound, Networks, NetsTrue, NetTrue
  <2> QED BY <1>1, <2>1, PairProperties DEF Real
<1>4. ASSUME NEW x \in Nodes, NEW m \in net'[x].macs
      PROVE  /\ <<x, m>> \in net'[x].neighbours
             /\ \A e \in Edges(net'[x]) : Told(net', air', m, e)
  <2>1. x # n /\ net'[x] = net[x]
    BY <1>2, <1>4
  <2>2. m \in net[x].macs /\ m # n /\ m \in Nodes
    BY <1>3, <1>4, <2>1, MacsListen
  <2>3. net'[m] = net[m] /\ air'[m] = air[m]
    BY <1>2, <2>2
  <2>4. <<x, m>> \in net[x].neighbours /\ \A e \in Edges(net[x]) : Told(net, air, m, e)
    BY <2>2 DEF Spread, Introductions
  <2> QED BY <2>1, <2>3, <2>4 DEF Told
<1>5. Introductions(net', air')
  BY <1>4 DEF Introductions
<1>6. PathsKnown(sending', net')
  <2>1. \A s \in sending' : s \in sending /\ s[1] \in Nodes /\ s[1] # n
    BY <1>1 DEF TruthInv, GraphInv, Rest
  <2> QED BY <1>2, <2>1 DEF Spread, PathsKnown
<1> QED BY <1>5, <1>6 DEF Spread

LEMMA SpreadLapse ==
  ASSUME TruthInv, Spread, doubted = {}, NEW n \in Nodes, NEW b \in Nodes, Lapse(n, b)
  PROVE  Spread'
<1> DEFINE w == [net[n] EXCEPT !.fresh = @ \ {b}]
<1>1. net' = [net EXCEPT ![n] = w] /\ UNCHANGED <<air, sending>>
  BY DEF Lapse
<1>2. w.neighbours = net[n].neighbours /\ w.macs = net[n].macs
  BY DEF TruthInv, GraphInv, NetsSound, Networks
<1> HIDE DEF w
<1> QED BY <1>1, <1>2, SpreadStep DEF TruthInv, GraphInv, Rest

LEMMA SpreadHandleStatus ==
  ASSUME TruthInv, Spread, doubted = {}, NEW n \in Nodes, NEW path \in Paths,
         HandleStatus(n, path)
  PROVE  Spread'
<1> DEFINE w == Merge(net[n], Hops(n, path))
<1>1. sending' = sending \ {<<n, path>>} /\ <<n, path>> \in sending
  BY DEF HandleStatus
<1>2. /\ n \in up /\ \A e \in Hops(n, path) : Real(e[1], e[2], up, doubted)
  BY <1>1 DEF TruthInv, Truth, PathsTrue
<1>3. path[1] \in Nodes /\ Real(n, path[1], up, doubted)
  BY <1>2, PathTypes, FirstHop
<1>4. Hears(n, path[1])
  BY <1>3, NoDoubt, <1>2 DEF Hears, Listeners
<1>5. net' = [net EXCEPT ![n] = w] /\ air' = air
  BY <1>4 DEF HandleStatus
<1>6. Hops(n, path) \subseteq net[n].neighbours
  BY <1>1 DEF Spread, PathsKnown
<1>7. w.neighbours = net[n].neighbours /\ w.macs = net[n].macs
  BY <1>2, <1>6, PathTypes, MergeTrue DEF TruthInv, GraphInv, NetsSound, Truth, NetsTrue
<1> HIDE DEF w
<1> QED BY <1>1, <1>5, <1>7, SpreadStep DEF TruthInv, GraphInv, Rest

\* The rest of the queues when p is taken from that of n.
Takes(n, p, rest) ==
  /\ rest \in [Nodes -> Seq(Packets)]
  /\ \A m \in Nodes : /\ Range(air[m]) \subseteq Range(rest[m]) \union {p}
                      /\ m # n => rest[m] = air[m]

LEMMA SpreadHandleNodeBroadcast ==
  ASSUME TruthInv, Spread, doubted = {}, NEW n \in Nodes, NEW p \in Packets,
         PacketTrue(n, p, up, doubted), NEW rest, Takes(n, p, rest),
         HandleNodeBroadcast(n, p, rest)
  PROVE  Spread'
<1> DEFINE b == p.address
           noted == AddNode(net[n], b)
           known == Introduced(net[n], b, n)
           intro == <<NodeBroadcast(n), Graph(Edges(known))>>
<1>1. /\ p.type = "NodeBroadcast" /\ sending' = sending
      /\ \/ net' = [net EXCEPT ![n] = Renewed(noted, b)] /\ air' = rest
         \/ net' = [net EXCEPT ![n] = Renewed(known, b)] /\ air' = Broadcast(n, intro, rest)
  BY DEF HandleNodeBroadcast, Renewed, Introduced
<1>2. b \in Nodes /\ Real(n, b, up, doubted)
  BY PacketFields DEF HandleNodeBroadcast, PacketTrue
<1> HIDE DEF b
<1>3. SoundNetwork(net[n], Nodes) /\ NetTrue(n, net[n], up, doubted) /\ Born(b, up, doubted)
  BY <1>2, NetworkOf DEF TruthInv, GraphInv, Truth, NetsTrue, Real
<1>4. sending \subseteq Nodes \X Paths /\ rest \in [Nodes -> Seq(Packets)]
  BY DEF TruthInv, GraphInv, Rest, Takes
<1>5. \A m \in Nodes : \A g \in Range(air[m]) : g.type = "Graph" => g \in Range(rest[m])
  BY <1>1 DEF Takes
<1>6. CASE net' = [net EXCEPT ![n] = Renewed(noted, b)] /\ air' = rest
  <2> DEFINE w == Renewed(noted, b)
  <2>1. w.neighbours = net[n].neighbours /\ w.macs = net[n].macs
    BY <1>2, <1>3, NotedTrue, RenewedTrue DEF SoundNetwork
  <2> HIDE DEF w
  <2>2. net' = [net EXCEPT ![n] = w]
    BY <1>6 DEF w
  <2> QED BY <1>1, <1>4, <1>5, <1>6, <2>1, <2>2, SpreadStep
<1>7. CASE net' = [net EXCEPT ![n] = Renewed(known, b)] /\ air' = Broadcast(n, intro, rest)
  <2> DEFINE w == Renewed(known, b)
  <2>1. /\ SoundNetwork(known, Nodes) /\ NetTrue(n, known, up, doubted)
        /\ net[n].neighbours \union {<<n, b>>} \subseteq known.neighbours
        /\ known.macs = net[n].macs \union {b}
    BY <1>2, <1>3, IntroducedTrue
  <2> HIDE DEF known
  <2>2. w.neighbours = known.neighbours /\ w.macs = known.macs
    BY <1>3, <2>1, RenewedTrue DEF SoundNetwork
  <2>3. intro \in Seq(Packets) /\ Graph(Edges(known)) \in Range(intro)
    BY <2>1, PacketTypes, ShortRanges
  <2> HIDE DEF w, intro
  <2>4. \A m \in Nodes : Range(rest[m]) \subseteq Range(air'[m])
    BY <1>4, <1>7, <2>3, BroadcastHolds
  <2>5. ASSUME NEW m \in w.macs
        PROVE  /\ <<n, m>> \in w.neighbours
               /\ \E g \in Range(air'[m]) : g.type = "Graph" /\ Edges(w) \subseteq g.edges
    <3>1. m \in net[n].macs \/ m = b
      BY <2>1, <2>2
    <3>2. m \in Nodes /\ m \in Listeners(n)
      BY <1>2, <3>1, NoDoubt, MacsListen
    <3>3. <<n, m>> \in w.neighbours
      BY <2>1, <2>2, <3>1 DEF Spread, Introductions
    <3>4. Graph(Edges(known)) \in Range(air'[m])
      BY <1>4, <1>7, <2>3, <3>2, BroadcastHolds
    <3>5. Edges(w) = Edges(known)
      BY <2>2 DEF Edges
    <3> QED BY <3>3, <3>4, <3>5 DEF Graph
  <2>6. net' = [net EXCEPT ![n] = w] /\ net[n].neighbours \subseteq w.neighbours
    BY <1>7, <2>1, <2>2 DEF w
  <2>7. \A m \in Nodes : \A g \in Range(air[m]) : g.type = "Graph" => g \in Range(air'[m])
    BY <1>5, <2>4
  <2> QED BY <1>1, <1>4, <2>5, <2>6, <2>7, SpreadStep
<1> QED BY <1>1, <1>6, <1>7

LEMMA SpreadHandleGraph ==
  ASSUME TruthInv, Spread, doubted = {}, NEW n \in Nodes, NEW p \in Packets,
         PacketTrue(n, p, up, doubted), NEW rest, Takes(n, p, rest),
         HandleGraph(n, p, rest)
  PROVE  Spread'
<1> DEFINE w == Merge(net[n], p.edges)
           news == <<Graph(Edges(w))>>
<1>1. /\ net' = [net EXCEPT ![n] = w] /\ p.type = "Graph" /\ sending' = sending
      /\ \/ AddsNothing(net[n], p.edges) /\ air' = rest
         \/ air' = Broadcast(n, news, rest)
  BY DEF HandleGraph
<1>2. SoundNetwork(net[n], Nodes) /\ NetTrue(n, net[n], up, doubted)
  BY NetworkOf DEF TruthInv, GraphInv, Truth, NetsTrue
<1>3. /\ p.edges \in SUBSET (Nodes \X Nodes) /\ \A e \in p.edges : e[1] # e[2]
      /\ \A e \in p.edges : Real(e[1], e[2], up, doubted)
  BY <1>1, PacketFields DEF PacketTrue
<1>4. /\ SoundNetwork(w, Nodes) /\ w.macs = net[n].macs
      /\ net[n].neighbours \union p.edges \subseteq w.neighbours
      /\ p.edges \subseteq net[n].neighbours => w.neighbours = net[n].neighbours
  BY <1>2, <1>3, MergeSound, MergeTrue, AddressesSmall DEF SoundNetwork
<1>5. AddsNothing(net[n], p.edges) => p.edges \subseteq net[n].neighbours
  <2> SUFFICES ASSUME AddsNothing(net[n], p.edges), NEW e \in p.edges
               PROVE  e \in net[n].neighbours
    OBVIOUS
  <2>1. e \in Nodes \X Nodes /\ e[1] # e[2] /\ ~NewEdge(net[n], e[1], e[2])
    BY <1>3 DEF AddsNothing
  <2>2. <<e[1], e[2]>> \in net[n].neighbours /\ e = <<e[1], e[2]>>
    BY <2>1 DEF NewEdge
  <2> QED BY <2>2
<1> HIDE DEF w
<1>6. news \in Seq(Packets) /\ Graph(Edges(w)) \in Range(news)
  BY <1>4, PacketTypes, ShortRanges
<1> HIDE DEF news
<1>7. sending \subseteq Nodes \X Paths /\ rest \in [Nodes -> Seq(Packets)]
  BY DEF TruthInv, GraphInv, Rest, Takes
<1>8. \A m \in Nodes : \A g \in Range(air[m]) :
        g \in Range(rest[m]) \/ (m = n /\ g = p)
  BY DEF Takes
<1>9. \A m \in Nodes : Range(rest[m]) \subseteq Range(air'[m])
  BY <1>1, <1>6, <1>7, BroadcastHolds
<1>10. \A m \in Nodes : \A g \in Range(air[m]) : g.type = "Graph"
         => g \in Range(air'[m]) \/ (m = n /\ g.edges \subseteq w.neighbours)
  BY <1>4, <1>8, <1>9
<1>11. CASE AddsNothing(net[n], p.edges)
  BY <1>1, <1>4, <1>5, <1>7, <1>10, <1>11, SpreadStep
<1>12. CASE air' = Broadcast(n, news, rest)
  <2>1. ASSUME NEW m \in w.macs
        PROVE  /\ <<n, m>> \in w.neighbours
               /\ \E g \in Range(air'[m]) : g.type = "Graph" /\ Edges(w) \subseteq g.edges
    <3>1. m \in net[n].macs /\ m \in Nodes /\ m \in Listeners(n)
      BY <1>4, MacsListen
    <3>2. <<n, m>> \in w.neighbours
      BY <1>4, <3>1 DEF Spread, Introductions
    <3>3. Graph(Edges(w)) \in Range(air'[m])
      BY <1>6, <1>7, <1>12, <3>1, BroadcastHolds
    <3> QED BY <3>2, <3>3 DEF Graph
  <2> QED BY <1>1, <1>4, <1>7, <1>10, <2>1, SpreadStep
<1> QED BY <1>1, <1>11, <1>12

LEMMA SpreadProcess ==
  ASSUME TruthInv, Spread, doubted = {}, NEW n \in Nodes, Process(n), doubted' = {}
  PROVE  Spread'
<1>1. PICK i \in DOMAIN air[n] :
        \/ HandleNodeBroadcast(n, air[n][i], [air EXCEPT ![n] = RemoveAt(@, i)])
        \/ HandleGraph(n, air[n][i], [air EXCEPT ![n] = RemoveAt(@, i)])
        \/ HandleEdgeDrop(n, air[n][i], [air EXCEPT ![n] = RemoveAt(@, i)])
        \/ HandleUnknownEdge(n, air[n][i])
  BY DEF Process
<1> DEFINE p == air[n][i]
           rest == [air EXCEPT ![n] = RemoveAt(@, i)]
<1>2. p \in Packets /\ PacketTrue(n, p, up, doubted) /\ Takes(n, p, rest)
  BY ProcessTakes DEF Takes
<1>3. \/ HandleNodeBroadcast(n, p, rest) \/ HandleGraph(n, p, rest)
      \/ HandleEdgeDrop(n, p, rest) \/ HandleUnknownEdge(n, p)
  BY <1>1
<1> HIDE DEF p, rest
<1>4. CASE HandleNodeBroadcast(n, p, rest)
  BY <1>2, <1>4, SpreadHandleNodeBroadcast
<1>5. CASE HandleGraph(n, p, rest)
  BY <1>2, <1>5, SpreadHandleGraph
<1>6. CASE p.type = "EdgeDrop"
  BY <1>2, <1>6 DEF PacketTrue
<1> QED BY <1>3, <1>4, <1>5, <1>6 DEF HandleEdgeDrop, HandleUnknownEdge

LEMMA DoubtGrows == [Next]_vars => doubted \subseteq doubted'
<1> SUFFICES ASSUME [Next]_vars PROVE doubted \subseteq doubted'
  OBVIOUS
<1>1. CASE UNCHANGED vars
  BY <1>1 DEF vars
<1>2. ASSUME NEW n \in Nodes, Boot(n) \/ Crash(n) \/ Heartbeat(n) \/ Detect(n)
      PROVE  doubted \subseteq doubted'
  BY <1>2 DEF Boot, Crash, Halt, Heartbeat, Detect
<1>3. ASSUME NEW n \in Nodes, Process(n) PROVE doubted \subseteq doubted'
  <2>1. \/ \E i \in DOMAIN air[n] :
             \/ HandleNodeBroadcast(n, air[n][i], [air EXCEPT ![n] = RemoveAt(@, i)])
             \/ HandleGraph(n, air[n][i], [air EXCEPT ![n] = RemoveAt(@, i)])
             \/ HandleEdgeDrop(n, air[n][i], [air EXCEPT ![n] = RemoveAt(@, i)])
        \/ Halt(n)
    BY <1>3 DEF Process, HandleUnknownEdge
  <2>2. \A p, rest : HandleNodeBroadcast(n, p, rest) => doubted' = doubted
    BY DEF HandleNodeBroadcast
  <2>3. \A p, rest : HandleGraph(n, p, rest) => doubted' = doubted
    BY DEF HandleGraph
  <2>4. \A p, rest : HandleEdgeDrop(n, p, rest) => doubted' = doubted
    BY DEF HandleEdgeDrop
  <2>5. Halt(n) => doubted \subseteq doubted'
    BY DEF Halt
  <2> QED BY <2>1, <2>2, <2>3, <2>4, <2>5
<1>4. ASSUME NEW n \in Nodes, NEW b \in Nodes, Lapse(n, b) \/ DropBroken(n, b)
      PROVE  doubted \subseteq doubted'
  BY <1>4 DEF Lapse, DropBroken
<1>5. ASSUME NEW n \in Nodes, NEW path \in Paths, SendData(n, path) \/ HandleStatus(n, path)
      PROVE  doubted \subseteq doubted'
  BY <1>5 DEF SendData, HandleStatus
<1>6. ASSUME NEW e \in Reach, LoseContact(e) \/ RegainContact(e)
      PROVE  doubted \subseteq doubted'
  BY <1>6 DEF LoseContact, RegainContact
<1> QED BY <1>1, <1>2, <1>3, <1>4, <1>5, <1>6 DEF Next

LEMMA SpreadStepInv == SpreadInv /\ [Next]_vars => SpreadInv'
<1> SUFFICES ASSUME SpreadInv, [Next]_vars, doubted' = {} PROVE Spread'
  BY TruthStep DEF SpreadInv
<1>1. TruthInv
  BY DEF SpreadInv
<1>2. doubted = {} /\ \A e \in Reach : ~LoseContact(e)
  BY DoubtGrows DEF LoseContact
<1>3. Spread
  BY <1>2 DEF SpreadInv
<1>4. CASE UNCHANGED vars
  BY <1>1, <1>2, <1>3, <1>4, SpreadStill DEF vars
<1>5. ASSUME NEW n \in Nodes, Boot(n) \/ Heartbeat(n) PROVE Spread'
  BY <1>1, <1>2, <1>3, <1>5, SpreadSpeak
<1>6. ASSUME NEW n \in Nodes, Crash(n) PROVE Spread'
  BY <1>1, <1>2, <1>3, <1>6, SpreadHalt DEF Crash
<1>7. ASSUME NEW n \in Nodes, Process(n) PROVE Spread'
  BY <1>1, <1>2, <1>3, <1>7, SpreadProcess
<1>8. ASSUME NEW n \in Nodes, Detect(n) PROVE Spread'
  <2>1. UNCHANGED <<net, air, sending>>
    BY <1>8 DEF Detect
  <2> QED BY <1>1, <1>2, <1>3, <2>1, SpreadStill
<1>9. ASSUME NEW n \in Nodes, NEW b \in Nodes, Lapse(n, b) PROVE Spread'
  BY <1>1, <1>2, <1>3, <1>9, SpreadLapse
<1>10. ASSUME NEW n \in Nodes, NEW b \in Nodes PROVE ~DropBroken(n, b)
  BY <1>1, <1>2 DEF DropBroken, TruthInv, Truth, BrokenTrue
<1>11. ASSUME NEW n \in Nodes, NEW path \in Paths, SendData(n, path) PROVE Spread'
  <2>1. /\ UNCHANGED <<net, air>> /\ sending' = sending \union {<<n, path>>}
        /\ Hops(n, path) \subseteq net[n].neighbours
    BY <1>11 DEF SendData
  <2>2. \A s \in sending' : s \in sending \/ Hops(s[1], s[2]) \subseteq net'[s[1]].neighbours
    BY <2>1
  <2> QED BY <1>1, <1>2, <1>3, <2>1, <2>2, SpreadStill
<1>12. ASSUME NEW n \in Nodes, NEW path \in Paths, HandleStatus(n, path) PROVE Spread'
  BY <1>1, <1>2, <1>3, <1>12, SpreadHandleStatus
<1>13. ASSUME NEW e \in Reach, RegainContact(e) PROVE Spread'
  <2>1. UNCHANGED <<net, air, sending>>
    BY <1>13 DEF RegainContact
  <2> QED BY <1>1, <1>2, <1>3, <2>1, SpreadStill
<1> QED BY <1>2, <1>4, <1>5, <1>6, <1>7, <1>8, <1>9, <1>10, <1>11, <1>12, <1>13 DEF Next

\* Routers of whose radios none has ever lost another, and who have been introduced to all of
\* their neighbours, agree on the graph as soon as nothing is on its way, in whatever order
\* they started and packets came in (router.cpp:148-204).
THEOREM Routers_Agree == Spec => []Agreement
<1>1. Init => SpreadInv
  BY GraphInit, TruthInit, SpreadInit DEF TruthInv, SpreadInv
<1>2. SpreadInv /\ [Next]_vars => SpreadInv'
  BY SpreadStepInv
<1>3. SpreadInv => Agreement
  <2> SUFFICES ASSUME SpreadInv, doubted = {}, Silent,
                      \A n \in up : Listeners(n) \subseteq net[n].macs,
                      NEW n \in up, NEW m \in Listeners(n)
               PROVE  Edges(net[n]) = Edges(net[m]) /\ Pair(n, m) \in Edges(net[n])
    BY DEF Agreement
  <2>1. TruthInv /\ Introductions(net, air) /\ up \subseteq Nodes /\ n \in Nodes
    BY DEF SpreadInv, Spread, TruthInv, GraphInv, Rest
  <2>2. m \in up /\ m \in Nodes /\ m # n /\ n \in Listeners(m)
    BY <2>1, ListenersReal, PairProperties DEF Listeners
  <2>3. m \in net[n].macs /\ n \in net[m].macs
    BY <2>2
  <2>4. \A x \in Nodes : Range(air[x]) = {}
    BY ShortRanges DEF Silent
  <2>5. \A x, e : x \in Nodes /\ Told(net, air, x, e) => e \in net[x].neighbours
    BY <2>4 DEF Told
  <2>6. Edges(net[n]) \subseteq net[m].neighbours /\ Edges(net[m]) \subseteq net[n].neighbours
    BY <2>1, <2>2, <2>3, <2>5 DEF Introductions
  <2>7. Edges(net[n]) = Edges(net[m])
    BY <2>6 DEF Edges
  <2>8. <<n, m>> \in net[n].neighbours /\ <<m, n>> \in net[n].neighbours
    <3>1. <<n, m>> \in net[n].neighbours
      BY <2>1, <2>3 DEF Introductions
    <3>2. \A e \in net[n].neighbours : <<e[2], e[1]>> \in net[n].neighbours
      BY <2>1 DEF TruthInv, GraphInv, NetsSound, GraphSound, Sound
    <3> QED BY <3>1, <3>2
  <2>9. Pair(n, m) \in Edges(net[n])
    <3>1. n < m \/ m < n
      BY <2>1, <2>2, AddressesSmall
    <3> QED BY <2>8, <3>1 DEF Pair, Edges
  <2> QED BY <2>7, <2>9
<1> QED BY <1>1, <1>2, <1>3, PTL DEF Spec
=============================================================================
