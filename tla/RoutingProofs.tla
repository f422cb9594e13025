---------------------------- MODULE RoutingProofs ---------------------------
(***************************************************************************)
(* Theorems about Routing for every graph, every assignment of parameters  *)
(* to its edges and every update() in progress.                            *)
(*                                                                         *)
(* For the tree that `previous' describes nothing is assumed of the costs  *)
(* but that none is negative: each read of an edge may find another one.   *)
(* The tree is kept all the same, since a distance only ever falls.  That  *)
(* the route is a cheapest one needs costs that stay as they are.          *)
(***************************************************************************)
EXTENDS Routing, NetworkProofs, FiniteSetTheorems

\* The graph and the parameters, which the search only reads.
GraphOK ==
  /\ net \in Networks(Nodes) /\ Sound(net) /\ Self \in net.nodes
  /\ DOMAIN params = {e \in net.neighbours : e[1] < e[2]} /\ DOMAIN written = DOMAIN params
  /\ \A e \in DOMAIN params : params[e] \in Parameters /\ written[e] \in Parameters
  /\ to \in 1..254 /\ visited \subseteq Nodes

\* What previous[v] says of v.
Reached(v) ==
  /\ v # Self /\ v \notin visited
  /\ previous[v] \in Slots /\ <<previous[v], v>> \in net.neighbours
  /\ distance[previous[v]] <= distance[v]
  /\ previous[v] = Self => v \in net.macs
  /\ previous[v] = Self \/ previous[previous[v]] # 0

TreeOK ==
  /\ distance \in [Slots -> Nat] /\ previous \in [Slots -> Nodes \cup {0}]
  /\ distance[Self] = 0
  /\ \A v \in Slots : distance[v] <= Infinite
  /\ \A v \in Slots : previous[v] # 0 => Reached(v)

QueueOK ==
  /\ queue \subseteq Nat \X Nodes
  /\ \A q \in queue : q[2] \in Slots /\ (q[2] = Self \/ previous[q[2]] # 0)

\* The route read off so far, from current on.
RouteOK ==
  /\ path \in Seq(Nodes) /\ current \in 0..254
  /\ stage = "search" => path = <<>>
  /\ stage \in {"walk", "done"} =>
       /\ current \in Slots
       /\ path = <<>> => current = to
       /\ path # <<>> => path[Len(path)] = to
       /\ \A i \in 1..Len(path) :
            /\ path[i] \in Slots /\ previous[path[i]] # 0
            /\ previous[path[i]] = IF i = 1 THEN current ELSE path[i - 1]
  /\ stage = "done" => previous[current] = 0
  /\ stage \in {"search", "walk", "done", "undefined"}

Inv == GraphOK /\ TreeOK /\ QueueOK /\ NoLoop /\ RouteOK

-----------------------------------------------------------------------------
(* Costs.                                                                    *)

LEMMA QuotientType == \A n \in Nat, d \in Nat : d # 0 => n \div d \in Nat
OBVIOUS

\* No edge has a negative cost, also when a counter has wrapped.
LEMMA CostType ==
  ASSUME NEW p, p.good \in Nat, p.errors \in Nat, p.retries \in Nat
  PROVE  Antireliability(p) \in Nat
<1> DEFINE n == (p.retries * (p.errors + 1)) % Width
           d == (p.good + 1) % Width
<1>1. Width \in Nat /\ Width > 0 /\ Infinite \in Nat /\ Scale \in Nat
  BY RoutingAssumption
<1>2. p.retries * (p.errors + 1) \in Nat
  OBVIOUS
<1>3. \A m \in Nat : m % Width \in Nat
  BY <1>1
<1>4. n \in Nat /\ d \in Nat
  BY <1>2, <1>3
<1> HIDE DEF n, d
<1>5. Scale * n \in Nat
  BY <1>1, <1>4
<1>6. d # 0 => (Scale * n) \div d \in Nat
  BY <1>4, <1>5, QuotientType
<1> QED BY <1>1, <1>6 DEF Antireliability, n, d

LEMMA ReadingType == ASSUME GraphOK, NEW e \in DOMAIN params PROVE Readings(e) \subseteq Nat
<1>1. /\ params[e].good \in Nat /\ params[e].errors \in Nat /\ params[e].retries \in Nat
      /\ written[e].good \in Nat /\ written[e].errors \in Nat /\ written[e].retries \in Nat
  <2>1. params[e] \in Parameters /\ written[e] \in Parameters
    BY DEF GraphOK
  <2>2. 0..(Width - 1) \subseteq Nat
    BY RoutingAssumption
  <2> DEFINE C == 0..(Width - 1)
             D == 0..DelayMax
  <2>3. Parameters = [good : C, errors : C, retries : C, delay : D]
    BY DEF Parameters
  <2>5. C \subseteq Nat
    BY <2>2
  <2> HIDE DEF C, D
  <2>4. /\ params[e].good \in C /\ params[e].errors \in C /\ params[e].retries \in C
        /\ written[e].good \in C /\ written[e].errors \in C /\ written[e].retries \in C
    BY <2>1, <2>3
  <2> QED BY <2>4, <2>5
<1>2. \A g, x, r \in Nat : Antireliability([good |-> g, errors |-> x, retries |-> r]) \in Nat
  BY CostType
<1>3. ASSUME NEW v \in Readings(e) PROVE v \in Nat
  <2>1. PICK g \in {params[e].good, written[e].good},
             x \in {params[e].errors, written[e].errors},
             r \in {params[e].retries, written[e].retries} :
               v = Antireliability([good |-> g, errors |-> x, retries |-> r])
    BY <1>3 DEF Readings
  <2>2. g \in Nat /\ x \in Nat /\ r \in Nat
    BY <1>1
  <2> QED BY <1>2, <2>1, <2>2
<1> QED BY <1>3

\* The rows lead over edges that have parameters.
LEMMA RowType ==
  ASSUME GraphOK, NEW a \in Nodes, NEW b \in Row(a)
  PROVE  b \in Slots /\ b # a /\ a \in Slots /\ Edge(a, b) \in DOMAIN params
<1>1. a \in Int /\ b \in Int /\ b \in Nodes /\ <<a, b>> \in net.neighbours
  <2>1. b \in Nodes /\ <<a, b>> \in net.neighbours
    BY DEF Row
  <2>2. Nodes \subseteq Int
    BY RoutingAssumption, \A v \in 1..254 : v \in Int
  <2> QED BY <2>1, <2>2
<1>2. <<b, a>> \in net.neighbours /\ a # b /\ a \in net.nodes /\ b \in net.nodes
  BY <1>1 DEF GraphOK, Sound
<1>3. a <= net.max_address /\ b <= net.max_address
  BY <1>2 DEF GraphOK, Sound
<1>4. a \in 1..254 /\ b \in 1..254
  BY <1>1, RoutingAssumption
<1>5. PICK m \in Int : m = net.max_address
  BY DEF GraphOK, Networks
<1>6. a \in Slots /\ b \in Slots
  BY <1>3, <1>4, <1>5 DEF Slots
<1>7. Edge(a, b) \in {e \in net.neighbours : e[1] < e[2]}
  BY <1>1, <1>2 DEF Edge
<1> QED BY <1>2, <1>6, <1>7 DEF GraphOK

\* A penalty is nothing or too much.
LEMMA PenaltyType ==
  ASSUME NEW a, NEW b
  PROVE  /\ Penalty(a, b) \in Nat
         /\ Penalty(a, b) = 0 \/ Penalty(a, b) >= Infinite
         /\ Penalty(a, b) = 0 => b \notin visited /\ (a = Self => b \in net.macs)
<1>1. Infinite \in Nat /\ Infinite # 0
  BY RoutingAssumption
<1>2. \A x, y \in {0, Infinite} : /\ x + y \in Nat /\ (x + y = 0 \/ x + y >= Infinite)
                                  /\ (x + y = 0 => x = 0 /\ y = 0)
  BY <1>1
<1> QED BY <1>1, <1>2 DEF Penalty

-----------------------------------------------------------------------------
(* The search.                                                               *)

\* What Visit does, in the terms of the invariant.
Relaxed(a, R, new) ==
  /\ a \in Nodes \cap Slots
  /\ \A b \in R : /\ b \in Slots /\ b \in Row(a) /\ b # a
                  /\ new[b] \in Nat /\ distance[a] <= new[b] /\ new[b] < distance[b]
                  /\ b \notin visited /\ (a = Self => b \in net.macs)
  /\ distance' = [v \in Slots |-> IF v \in R THEN new[v] ELSE distance[v]]
  /\ previous' = [v \in Slots |-> IF v \in R THEN a ELSE previous[v]]

LEMMA VisitRelaxes ==
  ASSUME GraphOK, TreeOK, QueueOK, NEW q \in queue, Visit(q)
  PROVE  \E R, new : /\ Relaxed(q[2], R, new)
                     /\ queue' = (queue \ {q}) \cup {<<new[b], b>> : b \in R}
<1> DEFINE a == q[2]
           row == Row(a)
<1>1. a \in Nodes /\ a \in Slots /\ distance[a] \in Nat
  BY DEF QueueOK, TreeOK
<1>2. PICK cost \in [row -> UNION {Readings(Edge(a, b)) : b \in row}] :
        LET offer(b) == distance[a] + cost[b] + Penalty(a, b)
            reached == {b \in row : Better(distance[b], offer(b))}
        IN /\ \A b \in row : cost[b] \in Readings(Edge(a, b))
           /\ distance' = [v \in Slots |-> IF v \in reached THEN offer(v) ELSE distance[v]]
           /\ previous' = [v \in Slots |-> IF v \in reached THEN a ELSE previous[v]]
           /\ queue' = (queue \ {q}) \cup {<<offer(b), b>> : b \in reached}
  BY DEF Visit
<1> DEFINE offer(b) == distance[a] + cost[b] + Penalty(a, b)
           new == [b \in row |-> offer(b)]
           R == {b \in row : Better(distance[b], offer(b))}
<1>3. \A b \in row : b \in Slots /\ b # a /\ cost[b] \in Nat
  BY <1>1, <1>2, RowType, ReadingType
<1>4. ASSUME NEW b \in R
      PROVE  /\ new[b] \in Nat /\ distance[a] <= new[b] /\ new[b] < distance[b]
             /\ Penalty(a, b) = 0
  <2>1. cost[b] \in Nat /\ b \in Slots /\ new[b] = offer(b)
    BY <1>3
  <2>2. distance[b] \in Nat /\ distance[b] <= Infinite
    BY <2>1 DEF TreeOK
  <2>3. distance[b] > offer(b)
    BY DEF Better
  <2>4. /\ Penalty(a, b) \in Nat
        /\ Penalty(a, b) = 0 \/ Penalty(a, b) >= Infinite
    BY PenaltyType
  <2>5. Infinite \in Nat
    BY RoutingAssumption
  <2>6. \A x, y, z, i, d \in Nat :
          d > x + y + z /\ d <= i => /\ x + y + z \in Nat /\ x <= x + y + z
                                    /\ x + y + z < d /\ (z = 0 \/ z >= i => z = 0)
    OBVIOUS
  <2> HIDE DEF row
  <2> QED BY <1>1, <2>1, <2>2, <2>3, <2>4, <2>5, <2>6
<1>5. \A b \in R : b \notin visited /\ (a = Self => b \in net.macs)
  BY <1>4, PenaltyType
<1>6. /\ distance' = [v \in Slots |-> IF v \in R THEN new[v] ELSE distance[v]]
      /\ previous' = [v \in Slots |-> IF v \in R THEN a ELSE previous[v]]
      /\ queue' = (queue \ {q}) \cup {<<new[b], b>> : b \in R}
  BY <1>2
<1>7. R \subseteq row
  OBVIOUS
<1> HIDE DEF R, new
<1>8. Relaxed(a, R, new)
  BY <1>1, <1>3, <1>4, <1>5, <1>6, <1>7 DEF Relaxed
<1> QED BY <1>6, <1>8

LEMMA RelaxedValues ==
  ASSUME TreeOK, NEW a, NEW R, NEW new, Relaxed(a, R, new), NEW v \in Slots
  PROVE  /\ v \in R => distance'[v] = new[v] /\ previous'[v] = a
         /\ v \notin R => distance'[v] = distance[v] /\ previous'[v] = previous[v]
         /\ distance'[v] \in Nat /\ distance'[v] <= distance[v]
         /\ distance[v] <= distance[a] => v \notin R
<1>1. distance[v] \in Nat /\ a \in Slots /\ distance[a] \in Nat
  BY DEF TreeOK, Relaxed
<1>2. /\ distance'[v] = IF v \in R THEN new[v] ELSE distance[v]
      /\ previous'[v] = IF v \in R THEN a ELSE previous[v]
  BY DEF Relaxed
<1>3. v \in R => new[v] \in Nat /\ distance[a] <= new[v] /\ new[v] < distance[v]
  BY DEF Relaxed
<1> QED BY <1>1, <1>2, <1>3

LEMMA TreeGrows ==
  ASSUME GraphOK, TreeOK, NEW a, NEW R, NEW new, Relaxed(a, R, new),
         a = Self \/ previous[a] # 0, net' = net, visited' = visited
  PROVE  TreeOK' /\ \A v \in Slots : previous[v] # 0 => previous'[v] # 0
<1>1. a \in Nodes /\ a \in Slots /\ a # 0 /\ Self \in Slots
  <2>1. Self # 0 /\ Self \in Nodes /\ Self \in net.nodes
    BY RoutingAssumption DEF GraphOK
  <2>2. PICK m \in Int : m = net.max_address
    BY DEF GraphOK, Networks
  <2>3. Self \in Slots
    BY <2>1, <2>2, RoutingAssumption DEF GraphOK, Sound, Slots
  <2> QED BY <2>3, RoutingAssumption DEF Relaxed
<1>2. \A v \in Slots : previous[v] # 0 => previous'[v] # 0
  BY <1>1, RelaxedValues
<1>3. distance[Self] = 0 /\ distance'[Self] = 0 /\ Self \notin R
  BY <1>1, RelaxedValues DEF TreeOK
<1>4. distance' \in [Slots -> Nat] /\ previous' \in [Slots -> Nodes \cup {0}]
  <2>1. \A v \in Slots : distance'[v] \in Nat /\ previous'[v] \in Nodes \cup {0}
    BY <1>1, RelaxedValues DEF TreeOK
  <2>2. distance' = [v \in Slots |-> distance'[v]] /\ previous' = [v \in Slots |-> previous'[v]]
    BY DEF Relaxed
  <2> QED BY <2>1, <2>2
<1>5. \A v \in Slots : distance'[v] <= Infinite
  BY RelaxedValues, RoutingAssumption DEF TreeOK
<1>6. ASSUME NEW v \in Slots, previous'[v] # 0 PROVE Reached(v)'
  <2> DEFINE u == previous'[v]
  <2>1. CASE v \in R
    <3>1. u = a /\ v # Self /\ v \notin visited /\ <<a, v>> \in net.neighbours
          /\ (a = Self => v \in net.macs) /\ distance'[v] = new[v] /\ distance[a] <= new[v]
          /\ new[v] \in Nat
      BY <1>3, <2>1, RelaxedValues DEF Relaxed, Row
    <3>2. distance'[a] <= distance[a] /\ distance'[a] \in Nat /\ distance[a] \in Nat
      BY <1>1, RelaxedValues DEF TreeOK
    <3>3. distance'[a] <= distance'[v]
      BY <3>1, <3>2
    <3>4. a = Self \/ previous'[a] # 0
      BY <1>1, <1>2
    <3> QED BY <1>1, <3>1, <3>3, <3>4 DEF Reached, Slots
  <2>2. CASE v \notin R
    <3>1. u = previous[v] /\ Reached(v) /\ distance'[v] = distance[v]
      BY <1>6, <2>2, RelaxedValues DEF TreeOK
    <3>2. u \in Slots /\ distance[u] <= distance[v]
      BY <3>1 DEF Reached
    <3>3. distance'[u] \in Nat /\ distance'[u] <= distance[u] /\ distance[u] \in Nat
          /\ distance[v] \in Nat
      BY <3>2, RelaxedValues DEF TreeOK
    <3>4. distance'[u] <= distance'[v]
      BY <3>1, <3>2, <3>3
    <3>5. u = Self \/ previous'[u] # 0
      BY <1>2, <3>1, <3>2 DEF Reached
    <3> QED BY <3>1, <3>4, <3>5 DEF Reached, Slots
  <2> QED BY <2>1, <2>2
<1>7. distance'[Self] = 0
  BY <1>3
<1>8. Slots' = Slots
  BY DEF Slots
<1> QED BY <1>2, <1>4, <1>5, <1>6, <1>7, <1>8 DEF TreeOK

\* The heart of the matter: the nodes of a new loop that are no farther than the node
\* visited would have been a loop before.
LEMMA NoNewLoop ==
  ASSUME TreeOK, NoLoop, NEW a, NEW R, NEW new, Relaxed(a, R, new), net' = net
  PROVE  NoLoop'
<1>1. SUFFICES ASSUME NEW S \in SUBSET (Slots \ {0}), S # {},
                      \A v \in S : previous'[v] \in S
               PROVE  FALSE
  BY DEF NoLoop, Slots
<1>2. CASE S \cap R = {}
  <2>1. \A v \in S : previous'[v] = previous[v]
    BY <1>2, RelaxedValues
  <2> QED BY <1>1, <2>1 DEF NoLoop
<1>3. CASE S \cap R # {}
  <2> DEFINE near == {v \in S : distance[v] <= distance[a]}
  <2>1. a \in S /\ a \in Slots /\ distance[a] \in Nat
    <3>1. PICK b \in S : b \in R
      BY <1>3
    <3>2. b \in Slots
      BY <1>1
    <3>3. previous'[b] = a /\ previous'[b] \in S
      BY <1>1, <3>1, <3>2, RelaxedValues
    <3>4. a \in Slots
      BY DEF Relaxed
    <3> QED BY <3>3, <3>4 DEF TreeOK
  <2>2. a \in near
    BY <2>1
  <2>3. ASSUME NEW v \in near PROVE previous[v] \in near
    <3>1. v \in Slots /\ v \in S /\ distance[v] <= distance[a] /\ distance[v] \in Nat
      BY DEF TreeOK
    <3>2. v \notin R /\ previous'[v] = previous[v]
      BY <3>1, RelaxedValues
    <3>3. previous[v] \in S /\ previous[v] # 0
      BY <1>1, <3>1, <3>2
    <3>4. distance[previous[v]] <= distance[v] /\ previous[v] \in Slots
      BY <3>1, <3>3 DEF TreeOK, Reached
    <3>5. distance[previous[v]] <= distance[a]
      BY <2>1, <3>1, <3>4 DEF TreeOK
    <3> QED BY <3>3, <3>5
  <2>4. near \in SUBSET (Slots \ {0}) /\ near # {}
    BY <1>1, <2>2
  <2> HIDE DEF near
  <2> QED BY <2>3, <2>4 DEF NoLoop
<1> QED BY <1>2, <1>3

-----------------------------------------------------------------------------
(* Initial states.                                                           *)

LEMMA ParametersAre ==
  \A C, D : C = 0..(Width - 1) /\ D = 0..DelayMax =>
    Parameters = [good : C, errors : C, retries : C, delay : D]
BY DEF Parameters

LEMMA ReportAre ==
  \A r \in Report : r.retries \in Nat /\ r.error \in Nat /\ r.delay \in 0..DelayMax
BY DEF Report

LEMMA Average == \A x, y \in 0..DelayMax : (x + y + 1) \div 2 \in 0..DelayMax
<1>1. DelayMax \in Nat
  BY RoutingAssumption
<1> QED BY <1>1

LEMMA Modulo == \A n \in Nat : n % Width \in 0..(Width - 1)
<1>1. Width \in Nat /\ Width > 0
  BY RoutingAssumption
<1> QED BY <1>1

LEMMA UpdatedType ==
  ASSUME NEW p \in Parameters, NEW r \in Report PROVE Updated(p, r) \in Parameters
<1>1. PICK C, D : C = 0..(Width - 1) /\ D = 0..DelayMax
  OBVIOUS
<1>2. Parameters = [good : C, errors : C, retries : C, delay : D]
  BY <1>1, ParametersAre
<1>3. p.good \in C /\ p.errors \in C /\ p.retries \in C /\ p.delay \in D
  BY <1>2
<1>4. p.good \in Nat /\ p.errors \in Nat /\ p.retries \in Nat
  BY <1>1, <1>3, RoutingAssumption
<1>5. r.retries \in Nat /\ r.error \in Nat /\ r.delay \in D
  BY <1>1, ReportAre
<1> DEFINE good == (p.good + IF r.error = 0 THEN 1 ELSE 0) % Width
           errors == (p.errors + IF r.error > 0 THEN 1 ELSE 0) % Width
           retries == (p.retries + r.retries) % Width
           delay == (p.delay + r.delay + 1) \div 2
<1>6. good \in C /\ errors \in C /\ retries \in C
  <2>1. /\ p.good + (IF r.error = 0 THEN 1 ELSE 0) \in Nat
        /\ p.errors + (IF r.error > 0 THEN 1 ELSE 0) \in Nat
        /\ p.retries + r.retries \in Nat
    BY <1>4, <1>5
  <2> QED BY <1>1, <2>1, Modulo
<1>7. delay \in D
  BY <1>1, <1>3, <1>5, Average
<1>8. Updated(p, r) = [good |-> good, errors |-> errors, retries |-> retries, delay |-> delay]
  BY DEF Updated
<1> HIDE DEF good, errors, retries, delay
<1> QED BY <1>2, <1>6, <1>7, <1>8

LEMMA InitGraph == ASSUME Init PROVE GraphOK
<1>1. PICK links \in SUBSET Links, known \in Known :
        /\ LET seen == Merge(NewNetwork(Self), links)
           IN net = [seen EXCEPT !.macs = known \intersect seen.nodes]
        /\ params \in [links -> Measures]
        /\ \/ written = params
           \/ \E e \in links, r \in Reports : written = [params EXCEPT ![e] = Updated(@, r)]
  BY DEF Init
<1> DEFINE first == NewNetwork(Self)
           seen == Merge(first, links)
<1>2. /\ Nodes \in SUBSET (1..254) /\ Self \in Nodes /\ links \in SUBSET (Nodes \X Nodes)
      /\ \A e \in links : e[1] \in Int /\ e[2] \in Int /\ e[1] < e[2]
  <2>1. Nodes \in SUBSET (1..254) /\ Self \in Nodes
    BY RoutingAssumption
  <2>2. \A e \in links : e \in Nodes \X Nodes /\ e[1] < e[2]
    BY RoutingAssumption
  <2>3. Nodes \subseteq Int
    BY <2>1
  <2>4. \A e \in Nodes \X Nodes : e[1] \in Int /\ e[2] \in Int
    BY <2>3
  <2>5. links \in SUBSET (Nodes \X Nodes)
    BY <2>2
  <2> QED BY <2>1, <2>2, <2>4, <2>5
<1>3. SoundNetwork(first, Nodes)
  BY <1>2, NewNetworkSound
<1>4. SoundNetwork(seen, Nodes)
  <2>1. \A e \in links : e[1] # e[2]
    BY <1>2
  <2> HIDE DEF first
  <2> QED BY <1>2, <1>3, <2>1, MergeSound
<1>5. first.neighbours = {} /\ Self \in first.nodes
  BY DEF NewNetwork, AddNode
<1>6. seen.neighbours = UNION {Both(e[1], e[2]) : e \in links} /\ Self \in seen.nodes
  <2> HIDE DEF first
  <2>1. first \in Networks(Nodes)
    BY <1>3 DEF SoundNetwork
  <2> QED BY <1>5, <2>1 DEF Merge, Networks
<1>7. net = [seen EXCEPT !.macs = known \intersect seen.nodes]
  BY <1>1
<1> HIDE DEF seen, first
<1>8. SoundNetwork(net, Nodes) /\ Self \in net.nodes /\ net.neighbours = seen.neighbours
  <2>1. known \intersect seen.nodes \in SUBSET Nodes
    BY <1>4 DEF SoundNetwork, Networks
  <2>2. SoundNetwork(net, Nodes)
    BY <1>2, <1>4, <1>7, <2>1, NotesSound
  <2>3. net.nodes = seen.nodes /\ net.neighbours = seen.neighbours
    BY <1>4, <1>7 DEF SoundNetwork, Networks
  <2> QED BY <1>6, <2>2, <2>3
<1>9. links = {e \in net.neighbours : e[1] < e[2]}
  <2>1. ASSUME NEW e \in links PROVE e \in net.neighbours /\ e[1] < e[2]
    <3>1. e = <<e[1], e[2]>>
      BY <1>2
    <3>2. e \in Both(e[1], e[2])
      BY <3>1 DEF Both
    <3> QED BY <1>2, <1>6, <1>8, <3>2
  <2>2. ASSUME NEW e \in net.neighbours, e[1] < e[2] PROVE e \in links
    <3>1. PICK d \in links : e \in Both(d[1], d[2])
      BY <1>6, <1>8
    <3>2. d[1] \in Int /\ d[2] \in Int /\ d[1] < d[2] /\ d = <<d[1], d[2]>>
      BY <1>2
    <3>3. e # <<d[2], d[1]>>
      BY <2>2, <3>2
    <3> QED BY <3>1, <3>2, <3>3 DEF Both
  <2> QED BY <2>1, <2>2
<1>10. DOMAIN params = links /\ DOMAIN written = links
       /\ \A e \in links : params[e] \in Parameters /\ written[e] \in Parameters
  <2>1. DOMAIN params = links /\ \A e \in links : params[e] \in Parameters
    BY <1>1, RoutingAssumption
  <2>2. CASE written = params
    BY <2>1, <2>2
  <2>3. CASE \E e \in links, r \in Reports : written = [params EXCEPT ![e] = Updated(@, r)]
    <3>1. PICK e \in links, r \in Reports : written = [params EXCEPT ![e] = Updated(@, r)]
      BY <2>3
    <3>2. Updated(params[e], r) \in Parameters
      BY <2>1, UpdatedType, RoutingAssumption
    <3> QED BY <2>1, <3>1, <3>2
  <2> QED BY <1>1, <2>2, <2>3
<1>11. to \in 1..254 /\ visited \subseteq Nodes
  BY RoutingAssumption DEF Init
<1> QED BY <1>8, <1>9, <1>10, <1>11 DEF GraphOK, SoundNetwork

LEMMA InitInv == ASSUME Init PROVE Inv
<1>1. GraphOK
  BY InitGraph
<1>2. Self \in Nodes /\ Self \in Slots
  <2>1. Self \in 1..254 /\ Self \in Nodes
    BY RoutingAssumption
  <2>2. PICK m \in Int : m = net.max_address
    BY <1>1 DEF GraphOK, Networks
  <2> QED BY <1>1, <2>1, <2>2 DEF GraphOK, Sound, Slots
<1>3. /\ distance = [v \in Slots |-> IF v = Self THEN 0 ELSE Infinite]
      /\ previous = [v \in Slots |-> 0] /\ queue = {<<0, Self>>}
      /\ stage = "search" /\ current = 0 /\ path = <<>>
  BY DEF Init
<1>4. TreeOK
  BY <1>2, <1>3, RoutingAssumption DEF TreeOK
<1>5. QueueOK
  BY <1>2, <1>3 DEF QueueOK
<1>6. NoLoop
  BY <1>3 DEF NoLoop
<1>7. RouteOK
  BY <1>3 DEF RouteOK
<1> QED BY <1>1, <1>4, <1>5, <1>6, <1>7 DEF Inv

-----------------------------------------------------------------------------
(* Steps.                                                                    *)

LEMMA NextInv == ASSUME Inv, [Next]_vars PROVE Inv'
<1> USE DEF graph
<1>1. ASSUME UNCHANGED graph PROVE GraphOK' /\ Slots' = Slots
  BY <1>1 DEF Inv, GraphOK, Slots
<1>2. ASSUME UNCHANGED <<graph, distance, previous>> PROVE TreeOK' /\ NoLoop'
  BY <1>2 DEF TreeOK, Reached, Inv, NoLoop, Slots
<1>3. ASSUME NEW q \in queue, Visit(q) PROVE Inv'
  <2>1. UNCHANGED <<graph, stage, current, path>> /\ stage = "search"
    BY <1>3 DEF Visit
  <2>2. PICK R, new : /\ Relaxed(q[2], R, new)
                      /\ queue' = (queue \ {q}) \cup {<<new[b], b>> : b \in R}
    BY <1>3, VisitRelaxes DEF Inv
  <2>3. TreeOK' /\ \A v \in Slots : previous[v] # 0 => previous'[v] # 0
    BY <2>1, <2>2, TreeGrows DEF Inv, QueueOK
  <2>4. NoLoop'
    BY <2>1, <2>2, NoNewLoop DEF Inv
  <2>5. ASSUME NEW x \in queue'
        PROVE  x \in Nat \X Nodes /\ x[2] \in Slots /\ (x[2] = Self \/ previous'[x[2]] # 0)
    <3>1. CASE x \in queue
      BY <2>3, <3>1 DEF Inv, QueueOK
    <3>2. CASE x \in {<<new[b], b>> : b \in R}
      <4>1. PICK b \in R : x = <<new[b], b>>
        BY <3>2
      <4>2. b \in Slots /\ b \in Nodes /\ new[b] \in Nat /\ q[2] \in Nodes
        BY <2>2 DEF Relaxed, Row
      <4>3. previous'[b] = q[2] /\ q[2] # 0
        BY <2>2, <4>2, RelaxedValues, RoutingAssumption DEF Inv
      <4> QED BY <4>1, <4>2, <4>3
    <3> QED BY <2>2, <3>1, <3>2
  <2>6. QueueOK'
    BY <1>1, <2>1, <2>5 DEF QueueOK
  <2>7. RouteOK'
    BY <2>1 DEF Inv, RouteOK
  <2> QED BY <1>1, <2>1, <2>3, <2>4, <2>6, <2>7 DEF Inv
<1>4. ASSUME NEW q \in queue, Skip(q) PROVE Inv'
  <2>1. UNCHANGED <<graph, stage, distance, previous, current, path>> /\ queue' \subseteq queue
    BY <1>4 DEF Skip
  <2>2. QueueOK' /\ RouteOK'
    BY <2>1 DEF Inv, QueueOK, RouteOK, Slots
  <2> QED BY <1>1, <1>2, <2>1, <2>2 DEF Inv
<1>5. CASE Found
  <2>1. /\ UNCHANGED <<graph, queue, distance, previous, path>> /\ stage = "search"
        /\ stage' = IF to \in Slots THEN "walk" ELSE "undefined"
        /\ current' = to
    BY <1>5 DEF Found
  <2>2. QueueOK'
    BY <2>1 DEF Inv, QueueOK, Slots
  <2>3. path = <<>> /\ to \in 0..254
    BY <2>1 DEF Inv, RouteOK, GraphOK
  <2>4. RouteOK'
    BY <1>1, <2>1, <2>3 DEF RouteOK
  <2> QED BY <1>1, <1>2, <2>1, <2>2, <2>4 DEF Inv
<1>6. CASE Walk
  <2>1. /\ UNCHANGED <<graph, stage, queue, distance, previous>> /\ stage = "walk"
        /\ previous[current] # 0 /\ path' = <<current>> \o path
        /\ current' = previous[current]
    BY <1>6 DEF Walk
  <2>2. QueueOK'
    BY <2>1 DEF Inv, QueueOK, Slots
  <2>3. current \in Slots /\ path \in Seq(Nodes) /\ Reached(current)
    BY <2>1 DEF Inv, RouteOK, TreeOK
  <2>4. current \in Nodes /\ previous[current] \in Slots /\ previous[current] \in 0..254
    <3>1. <<previous[current], current>> \in Nodes \X Nodes
      BY <2>3 DEF Reached, Inv, GraphOK, Networks
    <3>2. previous[current] \in 1..254 /\ current \in Nodes
      BY <3>1, RoutingAssumption
    <3> QED BY <2>3, <3>2 DEF Reached
  <2> DEFINE k == Len(path)
  <2>5. /\ k \in Nat /\ path' \in Seq(Nodes) /\ Len(path') = k + 1
        /\ path'[1] = current /\ \A i \in 2..(k + 1) : path'[i] = path[i - 1]
    BY <2>1, <2>3, <2>4
  <2> HIDE DEF k
  <2>6. path' # <<>>
    BY <2>5
  <2>7. path'[k + 1] = to
    <3>1. CASE k = 0
      <4>1. path = <<>>
        BY <2>3, <3>1 DEF k
      <4> QED BY <2>1, <2>5, <3>1, <4>1 DEF Inv, RouteOK
    <3>2. CASE k # 0
      <4>1. path # <<>> /\ k + 1 \in 2..(k + 1) /\ (k + 1) - 1 = k
        BY <2>3, <2>5, <3>2 DEF k
      <4>2. path[k] = to
        BY <2>1, <4>1 DEF Inv, RouteOK, k
      <4> QED BY <2>5, <4>1, <4>2
    <3> QED BY <3>1, <3>2
  <2>8. ASSUME NEW i \in 1..(k + 1)
        PROVE  /\ path'[i] \in Slots /\ previous[path'[i]] # 0
               /\ previous[path'[i]] = IF i = 1 THEN current' ELSE path'[i - 1]
    <3>1. CASE i = 1
      BY <2>1, <2>3, <2>5, <3>1
    <3>2. CASE i # 1
      <4>1. i \in 2..(k + 1) /\ i - 1 \in 1..k
        BY <2>5, <3>2
      <4>2. /\ path[i - 1] \in Slots /\ previous[path[i - 1]] # 0
            /\ previous[path[i - 1]] = IF i - 1 = 1 THEN current ELSE path[(i - 1) - 1]
        BY <2>1, <4>1 DEF Inv, RouteOK, k
      <4>3. i - 1 # 1 => i - 1 \in 2..(k + 1)
        BY <2>5, <4>1
      <4> QED BY <2>5, <3>2, <4>1, <4>2, <4>3
    <3> QED BY <3>1, <3>2
  <2>9. RouteOK'
    BY <1>1, <2>1, <2>4, <2>5, <2>6, <2>7, <2>8 DEF RouteOK
  <2> QED BY <1>1, <1>2, <2>1, <2>2, <2>9 DEF Inv
<1>7. CASE Return
  <2>1. /\ UNCHANGED <<graph, queue, distance, previous, current, path>> /\ stage = "walk"
        /\ stage' = "done" /\ previous[current] = 0
    BY <1>7 DEF Return
  <2>2. QueueOK' /\ RouteOK'
    BY <2>1 DEF Inv, QueueOK, RouteOK, Slots
  <2> QED BY <1>1, <1>2, <2>1, <2>2 DEF Inv
<1>8. CASE UNCHANGED vars
  BY <1>8, <1>1, <1>2 DEF vars, Inv, QueueOK, RouteOK, Slots
<1> QED BY <1>3, <1>4, <1>5, <1>6, <1>7, <1>8 DEF Next

-----------------------------------------------------------------------------
(* The theorems.                                                             *)

\* The strengthened invariant, from which the theorems below follow.
THEOREM Invariance == Spec => []Inv
BY InitInv, NextInv, PTL DEF Spec

\* Types: a distance is never negative, `previous' leads to nodes of the graph, and the
\* route is one of nodes (network.cpp:165-227).
THEOREM TypeCorrect == Spec => []TypeOK
<1>1. Inv => TypeOK
  BY DEF Inv, GraphOK, TreeOK, QueueOK, RouteOK, TypeOK
<1> QED BY <1>1, Invariance, PTL

\* `previous' never has a loop, whatever the costs read (network.cpp:203-219).
THEOREM NeverLoops == Spec => []NoLoop
<1>1. Inv => NoLoop
  BY DEF Inv
<1> QED BY <1>1, Invariance, PTL

\* A route is read off at most once per node.
LEMMA RouteDistinct ==
  ASSUME Inv, stage = "done", NEW i \in 1..Len(path), NEW j \in 1..Len(path), i < j
  PROVE  path[i] # path[j]
<1> SUFFICES ASSUME path[i] = path[j] PROVE FALSE
  OBVIOUS
<1> DEFINE S == {path[n] : n \in (i + 1)..j}
<1>1. path \in Seq(Nodes) /\ Len(path) \in Nat
  BY DEF Inv, RouteOK
<1>2. \A n \in 1..Len(path) : path[n] \in Slots \ {0}
  BY <1>1, RoutingAssumption DEF Inv, RouteOK
<1>3. S \in SUBSET (Slots \ {0}) /\ path[j] \in S
  BY <1>1, <1>2
<1>4. ASSUME NEW n \in (i + 1)..j PROVE previous[path[n]] \in S
  <2>1. n \in 1..Len(path) /\ n # 1 /\ (n - 1 = i \/ n - 1 \in (i + 1)..j)
    BY <1>1
  <2>2. previous[path[n]] = path[n - 1]
    BY <2>1 DEF Inv, RouteOK
  <2> QED BY <1>3, <2>1, <2>2
<1>5. \A v \in S : previous[v] \in S
  BY <1>4
<1> HIDE DEF S
<1> QED BY <1>3, <1>5 DEF Inv, NoLoop

\* The route path() returns is one the packet can take (dispatcher.cpp:42).
THEOREM PathsClean == Spec => []CleanPath
<1>1. ASSUME Inv, stage = "done", path # <<>>
      PROVE  /\ path[1] \in Row(Self) /\ path[1] \in net.macs
             /\ \A i \in 2..Len(path) : path[i] \in Row(path[i - 1])
             /\ path[Len(path)] = to
             /\ \A i \in 1..Len(path) : path[i] \notin visited /\ path[i] # Self
             /\ \A i, j \in 1..Len(path) : path[i] = path[j] => i = j
  <2>1. path \in Seq(Nodes) /\ Len(path) \in Nat /\ 1 \in 1..Len(path)
    <3>1. path \in Seq(Nodes)
      BY <1>1 DEF Inv, RouteOK
    <3> QED BY <1>1, <3>1
  <2>2. \A i \in 1..Len(path) :
          /\ path[i] \in Slots /\ path[i] \in Nodes /\ previous[path[i]] # 0 /\ Reached(path[i])
          /\ previous[path[i]] = IF i = 1 THEN current ELSE path[i - 1]
    BY <1>1, <2>1 DEF Inv, RouteOK, TreeOK
  <2>3. current = Self
    <3>1. previous[path[1]] = current /\ Reached(path[1]) /\ previous[current] = 0
      BY <1>1, <2>1, <2>2 DEF Inv, RouteOK
    <3> QED BY <3>1 DEF Reached
  <2>4. path[1] \in Row(Self) /\ path[1] \in net.macs
    BY <2>1, <2>2, <2>3 DEF Reached, Row
  <2>5. \A i \in 2..Len(path) : path[i] \in Row(path[i - 1])
    <3>1. \A i \in 2..Len(path) : i \in 1..Len(path) /\ i # 1
      BY <2>1
    <3> QED BY <2>2, <3>1 DEF Reached, Row
  <2>6. path[Len(path)] = to
    BY <1>1 DEF Inv, RouteOK
  <2>7. \A i \in 1..Len(path) : path[i] \notin visited /\ path[i] # Self
    BY <2>2 DEF Reached
  <2>8. ASSUME NEW i \in 1..Len(path), NEW j \in 1..Len(path), path[i] = path[j] PROVE i = j
    <3>1. i < j \/ j < i \/ i = j
      BY <2>1
    <3> QED BY <1>1, <2>8, <3>1, RouteDistinct
  <2> QED BY <2>4, <2>5, <2>6, <2>7, <2>8
<1>2. Inv => CleanPath
  BY <1>1 DEF CleanPath
<1> QED BY <1>2, Invariance, PTL

-----------------------------------------------------------------------------
(* Arithmetic.                                                               *)

LEMMA ProductMonotone == \A a, b, x, y \in Nat : a <= b /\ x <= y => a * x <= b * y
OBVIOUS

LEMMA QuotientIs ==
  \A a, d \in Nat : d # 0 => a \div d \in Nat /\ d * (a \div d) <= a
OBVIOUS

LEMMA QuotientGreatest == \A a, q, d \in Nat : d # 0 /\ d * q <= a => q <= a \div d
OBVIOUS

LEMMA QuotientMonotone ==
  ASSUME NEW a \in Nat, NEW b \in Nat, NEW d \in Nat, NEW e \in Nat, d # 0, d <= e, a <= b
  PROVE  a \div e <= b \div d
<1> DEFINE q == a \div e
<1>1. e # 0 /\ q \in Nat /\ e * q <= a
  BY QuotientIs
<1> HIDE DEF q
<1>2. d * q <= e * q /\ d * q \in Nat /\ e * q \in Nat
  BY <1>1, ProductMonotone
<1>3. d * q <= b
  BY <1>1, <1>2
<1>4. q <= b \div d
  BY <1>1, <1>3, QuotientGreatest
<1> QED BY <1>4 DEF q

LEMMA Fits == \A n \in Nat : n < Width => n % Width = n
<1>1. Width \in Nat
  BY RoutingAssumption
<1> QED BY <1>1

\* A set of numbers that begins with 0 and always goes on holds all of them.
LEMMA Induction ==
  ASSUME NEW S, 0 \in S, \A n \in Nat : n \in S => n + 1 \in S
  PROVE  Nat \subseteq S
<1> SUFFICES ASSUME Nat \ S # {} PROVE FALSE
  OBVIOUS
<1>1. PICK m \in Nat \ S : \A y \in Nat \ S : ~(<<y, m>> \in OpToRel(<, Nat))
  <2>1. IsWellFoundedOn(OpToRel(<, Nat), Nat)
    BY NatLessThanWellFounded
  <2> DEFINE T == Nat \ S
  <2>2. T \subseteq Nat /\ T # {}
    OBVIOUS
  <2> HIDE DEF T
  <2>3. \E x \in T : \A y \in T : ~(<<y, x>> \in OpToRel(<, Nat))
    BY <2>1, <2>2, WFMin
  <2> QED BY <2>3 DEF T
<1>2. m # 0 /\ m - 1 \in Nat /\ m - 1 < m
  OBVIOUS
<1>3. m - 1 \in S
  BY <1>1, <1>2 DEF OpToRel
<1>4. (m - 1) + 1 \in S /\ (m - 1) + 1 = m
  BY <1>2, <1>3
<1> QED BY <1>1, <1>4

-----------------------------------------------------------------------------
(* Sums.                                                                     *)

\* s[i] is the sum of the first i elements of f.
Sums(s, f, n) == /\ s \in [0..n -> Nat] /\ s[0] = 0
                 /\ \A i \in 1..n : s[i] = s[i - 1] + f[i]

LEMMA SumsExist ==
  ASSUME NEW n \in Nat, NEW f, \A i \in 1..n : f[i] \in Nat
  PROVE  \E s : Sums(s, f, n)
<1> DEFINE S == {k \in Nat : k <= n => \E s : Sums(s, f, k)}
<1>1. 0 \in S
  <2>1. Sums([i \in 0..0 |-> 0], f, 0)
    BY DEF Sums
  <2> QED BY <2>1
<1>2. ASSUME NEW k \in Nat, k \in S PROVE k + 1 \in S
  <2> SUFFICES ASSUME k + 1 <= n PROVE \E s : Sums(s, f, k + 1)
    OBVIOUS
  <2>1. PICK s : Sums(s, f, k)
    BY <1>2
  <2> DEFINE t == [i \in 0..(k + 1) |-> IF i <= k THEN s[i] ELSE s[k] + f[k + 1]]
  <2>2. f[k + 1] \in Nat /\ \A i \in 0..k : s[i] \in Nat
    BY <2>1 DEF Sums
  <2>3. \A i \in 0..k : t[i] = s[i]
    OBVIOUS
  <2>4. t[k + 1] = s[k] + f[k + 1]
    OBVIOUS
  <2>5. t \in [0..(k + 1) -> Nat]
    BY <2>2
  <2> HIDE DEF t
  <2>6. ASSUME NEW i \in 1..(k + 1) PROVE t[i] = t[i - 1] + f[i]
    <3>1. i - 1 \in 0..k /\ (i \in 1..k \/ i = k + 1)
      OBVIOUS
    <3> QED BY <2>1, <2>3, <2>4, <3>1 DEF Sums
  <2>7. Sums(t, f, k + 1)
    BY <2>1, <2>3, <2>5, <2>6 DEF Sums
  <2> QED BY <2>7
<1> HIDE DEF S
<1>3. n \in S
  BY <1>1, <1>2, Induction
<1> QED BY <1>3 DEF S

\* What holds at 0 and is handed on below n holds up to n.
LEMMA InductionTo ==
  ASSUME NEW n \in Nat, NEW S, 0 \in S, \A k \in Nat : k < n /\ k \in S => k + 1 \in S
  PROVE  0..n \subseteq S
<1> DEFINE T == {k \in Nat : k <= n => k \in S}
<1>1. 0 \in T
  OBVIOUS
<1>2. ASSUME NEW k \in Nat, k \in T PROVE k + 1 \in T
  BY <1>2
<1> HIDE DEF T
<1>3. Nat \subseteq T
  BY <1>1, <1>2, Induction
<1>4. \A k \in 0..n : k \in Nat /\ k <= n
  OBVIOUS
<1> QED BY <1>3, <1>4 DEF T

LEMMA SumOfIs ==
  ASSUME NEW f, NEW n \in Nat, Len(f) = n, \A i \in 1..n : f[i] \in Nat
  PROVE  \E s : Sums(s, f, n) /\ SumOf(f) = s[n]
<1> DEFINE sum == CHOOSE g : g = [i \in 0..Len(f) |-> IF i = 0 THEN 0 ELSE g[i - 1] + f[i]]
<1>1. PICK s : Sums(s, f, n)
  BY SumsExist
<1>2. s = [i \in 0..Len(f) |-> IF i = 0 THEN 0 ELSE s[i - 1] + f[i]]
  BY <1>1 DEF Sums
<1>3. sum = [i \in 0..Len(f) |-> IF i = 0 THEN 0 ELSE sum[i - 1] + f[i]]
  BY <1>2
<1>4. SumOf(f) = sum[Len(f)]
  BY DEF SumOf
<1> HIDE DEF sum
<1>5. \A i \in 0..n : sum[i] = s[i]
  <2> DEFINE S == {k \in Nat : sum[k] = s[k]}
  <2>1. 0 \in S
    BY <1>1, <1>3 DEF Sums
  <2>2. ASSUME NEW k \in Nat, k < n, k \in S PROVE k + 1 \in S
    <3>1. sum[k] = s[k]
      BY <2>2
    <3>2. sum[k + 1] = sum[k] + f[k + 1]
      BY <1>3, <2>2
    <3>3. s[k + 1] = s[k] + f[k + 1]
      BY <1>1, <2>2 DEF Sums
    <3> QED BY <3>1, <3>2, <3>3
  <2> HIDE DEF S
  <2>3. 0..n \subseteq S
    BY <2>1, <2>2, InductionTo
  <2> QED BY <2>3 DEF S
<1> QED BY <1>1, <1>4, <1>5

\* Sums are compared element by element.
LEMMA SumMonotone ==
  ASSUME NEW f, NEW g, NEW n \in Nat, Len(f) = n, Len(g) = n,
         \A i \in 1..n : f[i] \in Nat /\ g[i] \in Nat /\ f[i] <= g[i]
  PROVE  SumOf(f) \in Nat /\ SumOf(g) \in Nat /\ SumOf(f) <= SumOf(g)
<1>1. PICK s : Sums(s, f, n) /\ SumOf(f) = s[n]
  BY SumOfIs
<1>2. PICK t : Sums(t, g, n) /\ SumOf(g) = t[n]
  BY SumOfIs
<1> DEFINE S == {k \in Nat : s[k] <= t[k]}
<1>3. 0 \in S
  BY <1>1, <1>2 DEF Sums
<1>4. ASSUME NEW k \in Nat, k < n, k \in S PROVE k + 1 \in S
  <2>1. /\ s[k] \in Nat /\ t[k] \in Nat /\ s[k] <= t[k]
        /\ s[k + 1] = s[k] + f[k + 1] /\ t[k + 1] = t[k] + g[k + 1]
    BY <1>1, <1>2, <1>4 DEF Sums
  <2>2. f[k + 1] \in Nat /\ g[k + 1] \in Nat /\ f[k + 1] <= g[k + 1]
    BY <1>4
  <2> QED BY <2>1, <2>2
<1> HIDE DEF S
<1>5. n \in S
  <2>1. 0..n \subseteq S
    BY <1>3, <1>4, InductionTo
  <2> QED BY <2>1
<1>6. s[n] \in Nat /\ t[n] \in Nat
  BY <1>1, <1>2 DEF Sums
<1> QED BY <1>1, <1>2, <1>5, <1>6 DEF S

\* No element is more than the sum.
LEMMA SumCovers ==
  ASSUME NEW f, NEW n \in Nat, Len(f) = n, \A i \in 1..n : f[i] \in Nat, NEW j \in 1..n
  PROVE  f[j] <= SumOf(f)
<1>1. PICK s : Sums(s, f, n) /\ SumOf(f) = s[n]
  BY SumOfIs
<1> DEFINE S == {k \in Nat : k >= j => f[j] <= s[k]}
<1>2. 0 \in S
  OBVIOUS
<1>3. ASSUME NEW k \in Nat, k < n, k \in S PROVE k + 1 \in S
  <2>1. s[k] \in Nat /\ s[k + 1] = s[k] + f[k + 1]
    BY <1>1, <1>3 DEF Sums
  <2>2. f[k + 1] \in Nat /\ f[j] \in Nat
    BY <1>3
  <2>3. k + 1 >= j => k >= j \/ k + 1 = j
    OBVIOUS
  <2> QED BY <1>3, <2>1, <2>2, <2>3
<1> HIDE DEF S
<1>4. n \in S
  <2>1. 0..n \subseteq S
    BY <1>2, <1>3, InductionTo
  <2> QED BY <2>1
<1> QED BY <1>1, <1>4 DEF S

-----------------------------------------------------------------------------
(* What one update() does to the cost of an edge.                            *)

WrittenOK == \A e \in DOMAIN params :
  written[e] = params[e] \/ \E r \in Report : written[e] = Updated(params[e], r)

LEMMA WrittenInvariant == Spec => []WrittenOK
<1>1. Init => WrittenOK
  <2> SUFFICES ASSUME Init PROVE WrittenOK
    OBVIOUS
  <2>1. PICK links \in SUBSET Links :
          /\ params \in [links -> Measures]
          /\ \/ written = params
             \/ \E e \in links, r \in Reports : written = [params EXCEPT ![e] = Updated(@, r)]
    BY DEF Init
  <2>2. Reports \subseteq Report
    BY RoutingAssumption
  <2>3. CASE written = params
    BY <2>3 DEF WrittenOK
  <2>4. CASE \E e \in links, r \in Reports : written = [params EXCEPT ![e] = Updated(@, r)]
    <3>1. PICK e \in links, r \in Reports : written = [params EXCEPT ![e] = Updated(@, r)]
      BY <2>4
    <3>2. written[e] = Updated(params[e], r) /\ \A x \in links : x # e => written[x] = params[x]
      BY <2>1, <3>1
    <3> QED BY <2>1, <2>2, <3>2 DEF WrittenOK
  <2> QED BY <2>1, <2>3, <2>4
<1>2. WrittenOK /\ [Next]_vars => WrittenOK'
  BY DEF WrittenOK, Next, Skip, Visit, Found, Walk, Return, graph, vars
<1> QED BY <1>1, <1>2, PTL DEF Spec

\* The counters of an edge.
LEMMA CountersAre ==
  ASSUME NEW p \in Parameters
  PROVE  /\ p.good \in Nat /\ p.errors \in Nat /\ p.retries \in Nat /\ p.delay \in Nat
         /\ p.good < Width /\ p.errors < Width /\ p.retries < Width
<1>1. PICK C, D : C = 0..(Width - 1) /\ D = 0..DelayMax
  OBVIOUS
<1>2. Parameters = [good : C, errors : C, retries : C, delay : D]
  BY <1>1, ParametersAre
<1>3. p.good \in C /\ p.errors \in C /\ p.retries \in C /\ p.delay \in D
  BY <1>2
<1>4. Width \in Nat /\ DelayMax \in Nat
  BY RoutingAssumption
<1>5. (\A x \in C : x \in Nat /\ x < Width) /\ (\A x \in D : x \in Nat)
  BY <1>1, <1>4
<1> QED BY <1>3, <1>5

\* As long as nothing wraps, the cost is a plain quotient.
LEMMA CostIs ==
  ASSUME NEW p, p.good \in Nat, p.errors \in Nat, p.retries \in Nat, p.good + 1 < Width,
         p.retries * (p.errors + 1) < Width
  PROVE  Antireliability(p) = (Scale * (p.retries * (p.errors + 1))) \div (p.good + 1)
<1> DEFINE n == p.retries * (p.errors + 1)
           d == p.good + 1
<1>1. n \in Nat /\ d \in Nat /\ d # 0
  OBVIOUS
<1>2. n % Width = n /\ d % Width = d
  <2>1. n < Width /\ d < Width
    OBVIOUS
  <2> HIDE DEF n, d
  <2> QED BY <1>1, <2>1, Fits
<1>3. Antireliability(p)
        = IF d % Width = 0 THEN Infinite ELSE (Scale * (n % Width)) \div (d % Width)
  BY DEF Antireliability
<1> HIDE DEF n, d
<1>4. Antireliability(p) = (Scale * n) \div d
  BY <1>1, <1>2, <1>3
<1> QED BY <1>4 DEF n, d

\* A quotient of counters that are at least as bad, on at most as many deliveries.
LEMMA CostMonotone ==
  ASSUME NEW p, p.good \in Nat, p.errors \in Nat, p.retries \in Nat,
         NEW w, w.good \in Nat, w.errors \in Nat, w.retries \in Nat,
         p.good + 1 < Width, w.good + 1 < Width,
         w.good <= p.good, p.errors <= w.errors, p.retries <= w.retries,
         w.retries * (w.errors + 1) < Width
  PROVE  Antireliability(p) <= Antireliability(w)
<1> DEFINE n == p.retries * (p.errors + 1)
           m == w.retries * (w.errors + 1)
           d == w.good + 1
           e == p.good + 1
<1>1. n \in Nat /\ m \in Nat /\ d \in Nat /\ e \in Nat /\ d # 0 /\ d <= e
  OBVIOUS
<1>2. n <= m
  <2>1. p.errors + 1 \in Nat /\ w.errors + 1 \in Nat /\ p.errors + 1 <= w.errors + 1
    OBVIOUS
  <2> QED BY <2>1, ProductMonotone
<1>3. m < Width /\ Width \in Nat
  BY RoutingAssumption
<1>4. n < Width
  <2> HIDE DEF n, m, d, e
  <2> QED BY <1>1, <1>2, <1>3
<1>5. Antireliability(p) = (Scale * n) \div e
  BY <1>4, CostIs
<1>6. Antireliability(w) = (Scale * m) \div d
  BY <1>3, CostIs
<1> HIDE DEF n, m, d, e
<1>7. Scale * n \in Nat /\ Scale * m \in Nat /\ Scale * n <= Scale * m
  <2>1. Scale \in Nat
    BY RoutingAssumption
  <2> QED BY <1>1, <1>2, <2>1, ProductMonotone
<1>8. (Scale * n) \div e <= (Scale * m) \div d
  BY <1>1, <1>7, QuotientMonotone
<1> QED BY <1>5, <1>6, <1>8

\* As long as no counter wraps, a failure never makes an edge look better, and a delivery
\* without retries never makes it look worse (network.cpp:111-113).
THEOREM Status_Counts == Spec => []StatusCounts
<1>1. ASSUME GraphOK, WrittenOK PROVE StatusCounts
  <2> SUFFICES ASSUME NEW e \in DOMAIN params, NEW p, p = params[e], NEW w, w = written[e],
                      p.good <= w.good, w.good + 1 < Width, p.errors <= w.errors,
                      p.retries <= w.retries, w.retries * (w.errors + 1) < Width
               PROVE  /\ w.errors > p.errors => Antireliability(w) >= Antireliability(p)
                      /\ w.errors = p.errors /\ w.retries = p.retries
                           => Antireliability(w) <= Antireliability(p)
    BY DEF StatusCounts
  <2>1. /\ p.good \in Nat /\ p.errors \in Nat /\ p.retries \in Nat
        /\ w.good \in Nat /\ w.errors \in Nat /\ w.retries \in Nat
    <3>1. p \in Parameters /\ w \in Parameters
      BY <1>1 DEF GraphOK
    <3> QED BY <3>1, CountersAre
  <2>2. p.good + 1 < Width /\ Width \in Nat
    BY <2>1, RoutingAssumption
  <2>3. ASSUME w.errors > p.errors PROVE w.good = p.good
    <3>1. PICK r \in Report : w = Updated(p, r)
      BY <1>1, <2>1, <2>3 DEF WrittenOK
    <3>2. r.error \in Nat
      BY ReportAre
    <3>3. w.errors = (p.errors + IF r.error > 0 THEN 1 ELSE 0) % Width
      BY <3>1 DEF Updated
    <3>4. w.good = (p.good + IF r.error = 0 THEN 1 ELSE 0) % Width
      BY <3>1 DEF Updated
    <3>5. p.errors < Width
      BY <1>1, CountersAre DEF GraphOK
    <3>6. r.error # 0
      <4> SUFFICES ASSUME r.error = 0 PROVE FALSE
        OBVIOUS
      <4>1. w.errors = p.errors % Width
        BY <2>1, <3>3
      <4> QED BY <2>1, <2>3, <3>5, <4>1, Fits
    <3>7. w.good = p.good % Width
      BY <2>1, <3>4, <3>6
    <3> QED BY <2>1, <2>2, <3>7, Fits
  <2>4. ASSUME w.errors > p.errors PROVE Antireliability(p) <= Antireliability(w)
    BY <2>1, <2>2, <2>3, <2>4, CostMonotone
  <2>5. ASSUME w.errors = p.errors, w.retries = p.retries
        PROVE  Antireliability(w) <= Antireliability(p)
    <3>1. p.retries * (p.errors + 1) < Width
      BY <2>5
    <3> QED BY <2>1, <2>2, <2>5, <3>1, CostMonotone
  <2>6. Antireliability(p) \in Nat /\ Antireliability(w) \in Nat
    BY <2>1, CostType
  <2> QED BY <2>4, <2>5, <2>6
<1>2. Inv => GraphOK
  BY DEF Inv
<1> QED BY <1>1, <1>2, Invariance, WrittenInvariant, PTL

-----------------------------------------------------------------------------
(* The timeout.                                                              *)

\* Every step of a route over edges of the graph has parameters.
LEMMA RouteEdges ==
  ASSUME GraphOK, NEW r, NEW n \in Nat, \A i \in 1..n : r[i] \in Nodes,
         n > 0 => r[1] \in Row(Self), \A i \in 2..n : r[i] \in Row(r[i - 1]), NEW i \in 1..n
  PROVE  Step(r, i) \in DOMAIN params
<1>1. CASE i = 1
  <2>1. Self \in Nodes /\ r[1] \in Row(Self)
    BY <1>1, RoutingAssumption
  <2>2. Edge(Self, r[1]) \in DOMAIN params
    BY <2>1, RowType
  <2> QED BY <1>1, <2>2 DEF Step
<1>2. CASE i # 1
  <2>1. r[i - 1] \in Nodes /\ r[i] \in Row(r[i - 1])
    BY <1>2
  <2>2. Edge(r[i - 1], r[i]) \in DOMAIN params
    BY <2>1, RowType
  <2> QED BY <1>2, <2>2 DEF Step
<1> QED BY <1>1, <1>2

\* A number that fits keeps its sign.
LEMMA SignedIs == \A n \in Nat : 2 * n < Width => Signed(n) = n
<1> SUFFICES ASSUME NEW n \in Nat, 2 * n < Width PROVE Signed(n) = n
  OBVIOUS
<1>1. n < Width
  BY RoutingAssumption
<1>2. n % Width = n
  BY <1>1, Fits
<1> QED BY <1>2 DEF Signed

\* An edge adds its delay at least once, and at most once and once per retry.
LEMMA EdgeTimeIs ==
  ASSUME NEW p \in Parameters, p.delay * (1 + p.retries) < Width
  PROVE  EdgeTime(p) \in Nat /\ p.delay <= EdgeTime(p)
         /\ EdgeTime(p) <= p.delay * (1 + p.retries)
<1> DEFINE spread == (p.good + Width - p.retries) % Width
           d == IF spread > 0 THEN spread ELSE 1
           k == p.retries \div d
<1>1. p.good \in Nat /\ p.retries \in Nat /\ p.delay \in Nat /\ p.retries < Width
  BY CountersAre
<1>2. spread \in Nat
  <2>1. Width \in Nat
    BY RoutingAssumption
  <2>2. p.good + Width - p.retries \in Nat
    BY <1>1, <2>1
  <2>3. \A m \in Nat : m % Width \in Nat
    BY RoutingAssumption
  <2> QED BY <2>2, <2>3
<1>3. d \in Nat /\ d # 0 /\ 1 <= d
  <2> HIDE DEF spread
  <2> QED BY <1>2
<1>4. EdgeTime(p) = (p.delay * (1 + k)) % Width
  BY DEF EdgeTime
<1> HIDE DEF d, spread
<1>5. k \in Nat /\ d * k <= p.retries
  BY <1>1, <1>3, QuotientIs
<1> HIDE DEF k
<1>6. k <= p.retries
  <2>1. 1 * k <= d * k /\ 1 * k = k /\ d * k \in Nat
    BY <1>3, <1>5, ProductMonotone
  <2> QED BY <1>1, <1>5, <2>1
<1>7. 1 <= 1 + k /\ 1 + k <= 1 + p.retries /\ 1 + k \in Nat /\ 1 + p.retries \in Nat
  BY <1>1, <1>5, <1>6
<1>8. p.delay * 1 <= p.delay * (1 + k) /\ p.delay * (1 + k) <= p.delay * (1 + p.retries)
      /\ p.delay * 1 = p.delay
  BY <1>1, <1>7, ProductMonotone
<1>9. p.delay * (1 + k) \in Nat /\ p.delay * (1 + p.retries) \in Nat /\ Width \in Nat
  BY <1>1, <1>7, RoutingAssumption
<1>10. p.delay * (1 + k) < Width
  BY <1>8, <1>9
<1>11. EdgeTime(p) = p.delay * (1 + k)
  BY <1>4, <1>9, <1>10, Fits
<1> QED BY <1>8, <1>9, <1>11

\* Unless the time does not fit its 32 bits, a packet waits for its ACK at least as long
\* as it takes all frames of all its transmissions to cross the route, also where there
\* were more retries than deliveries (dispatcher.cpp:290-299).
THEOREM Timeout_Covers == Spec => []TimeoutCovers
<1>1. ASSUME GraphOK, RouteOK, CleanPath PROVE TimeoutCovers
  <2> DEFINE edge(i) == params[Step(path, i)]
             n == Len(path)
             delay == [i \in 1..Len(path) |-> edge(i).delay]
             slack == [i \in 1..Len(path) |-> edge(i).delay * (1 + edge(i).retries)]
             time == [i \in 1..Len(path) |-> EdgeTime(params[Step(path, i)])]
             longest == SumOf(slack) + tv * Len(path)
             most == (SumOf(slack) + tv * Len(path)) * c * RetransmissionMax
                       * TimeoutMultiplier
             total == SumOf(time) + tv * Len(path)
  <2>1. SUFFICES ASSUME stage = "done", path # <<>>, 2 * most < Width, NEW relay \in BOOLEAN
                 PROVE  Timeout(path, relay) >= SumOf(delay) * c * RetransmissionMax
    BY DEF TimeoutCovers
  <2>2. path \in Seq(Nodes) /\ n \in Nat /\ n > 0
    <3>1. path \in Seq(Nodes)
      BY <1>1 DEF RouteOK
    <3> QED BY <2>1, <3>1
  <2>3. /\ Len(delay) = n /\ Len(slack) = n /\ Len(time) = n
    BY <2>2
  <2>4. ASSUME NEW i \in 1..n
        PROVE  edge(i) \in Parameters /\ edge(i).delay \in Nat /\ edge(i).retries \in Nat
    <3>1. \A j \in 1..n : path[j] \in Nodes
      BY <2>2
    <3>2. path[1] \in Row(Self) /\ \A j \in 2..n : path[j] \in Row(path[j - 1])
      BY <1>1, <2>1 DEF CleanPath
    <3>3. Step(path, i) \in DOMAIN params
      BY <1>1, <2>2, <3>1, <3>2, RouteEdges
    <3>4. edge(i) \in Parameters
      BY <1>1, <3>3 DEF GraphOK
    <3> HIDE DEF edge
    <3> QED BY <3>4, CountersAre
  <2>5. \A i \in 1..n : /\ delay[i] = edge(i).delay
                        /\ slack[i] = edge(i).delay * (1 + edge(i).retries)
                        /\ time[i] = EdgeTime(edge(i))
    OBVIOUS
  <2>6. /\ tv * n \in Nat /\ c \in Nat \ {0} /\ RetransmissionMax \in Nat \ {0}
        /\ TimeoutMultiplier \in Nat \ {0} /\ Width \in Nat
    BY <2>2, RoutingAssumption
  <2> HIDE DEF edge, delay, slack, time, n
  <2>7. \A i \in 1..n : slack[i] \in Nat
    BY <2>4, <2>5
  <2>8. SumOf(slack) \in Nat /\ \A i \in 1..n : slack[i] <= SumOf(slack)
    <3>1. SumOf(slack) \in Nat
      <4>1. \A i \in 1..n : slack[i] \in Nat /\ slack[i] <= slack[i]
        BY <2>7
      <4> QED BY <2>2, <2>3, <4>1, SumMonotone
    <3>2. \A i \in 1..n : slack[i] <= SumOf(slack)
      BY <2>2, <2>3, <2>7, SumCovers
    <3> QED BY <3>1, <3>2
  <2>9. longest \in Nat /\ longest <= most /\ most \in Nat
        /\ longest * c * RetransmissionMax <= most
    <3>1. longest \in Nat
      BY <2>6, <2>8 DEF n
    <3>2. most = longest * c * RetransmissionMax * TimeoutMultiplier
      OBVIOUS
    <3> HIDE DEF longest, most
    <3>3. longest * c \in Nat /\ longest <= longest * c
      BY <2>6, <3>1, ProductMonotone
    <3>4. longest * c * RetransmissionMax \in Nat
          /\ longest * c <= longest * c * RetransmissionMax
      <4> DEFINE x == longest * c
      <4>1. x \in Nat
        BY <3>3
      <4> HIDE DEF x
      <4>2. x * RetransmissionMax \in Nat /\ x <= x * RetransmissionMax
        BY <2>6, <4>1, ProductMonotone
      <4> QED BY <4>2 DEF x
    <3>5. most \in Nat /\ longest * c * RetransmissionMax <= most
      <4> DEFINE x == longest * c * RetransmissionMax
      <4>1. x \in Nat
        BY <3>4
      <4>2. most = x * TimeoutMultiplier
        BY <3>2
      <4> HIDE DEF x
      <4>3. x * TimeoutMultiplier \in Nat /\ x <= x * TimeoutMultiplier
        BY <2>6, <4>1, ProductMonotone
      <4> QED BY <4>2, <4>3 DEF x
    <3> QED BY <3>1, <3>3, <3>4, <3>5
  <2> HIDE DEF most
  <2>10. SumOf(slack) <= longest /\ most < Width
    BY <2>1, <2>6, <2>8, <2>9 DEF n
  <2>11. \A i \in 1..n : time[i] \in Nat /\ delay[i] \in Nat /\ delay[i] <= time[i]
                         /\ time[i] <= slack[i]
    <3>1. ASSUME NEW i \in 1..n PROVE edge(i).delay * (1 + edge(i).retries) < Width
      <4>1. slack[i] < Width
        BY <2>6, <2>7, <2>8, <2>9, <2>10
      <4> QED BY <2>5, <4>1
    <3>2. ASSUME NEW i \in 1..n
          PROVE  EdgeTime(edge(i)) \in Nat /\ edge(i).delay <= EdgeTime(edge(i))
                 /\ EdgeTime(edge(i)) <= edge(i).delay * (1 + edge(i).retries)
      BY <2>4, <3>1, EdgeTimeIs
    <3> QED BY <2>4, <2>5, <3>2
  <2>12. SumOf(time) \in Nat /\ SumOf(time) <= SumOf(slack)
    BY <2>2, <2>3, <2>7, <2>11, SumMonotone
  <2>13. SumOf(delay) \in Nat /\ SumOf(delay) <= SumOf(time)
    BY <2>2, <2>3, <2>11, SumMonotone
  <2>14. total \in Nat /\ total <= longest /\ SumOf(delay) <= total
         /\ total = (SumOf(time) % Width) + tv * Len(path)
    <3>1. SumOf(time) < Width
      BY <2>6, <2>8, <2>9, <2>10, <2>12
    <3>2. SumOf(time) % Width = SumOf(time)
      BY <2>12, <3>1, Fits
    <3> QED BY <2>6, <2>8, <2>12, <2>13, <3>2 DEF n
  <2> DEFINE t == total * c * RetransmissionMax
  <2>15. Timeout(path, relay)
           = IF relay THEN Signed(Signed(t) * TimeoutMultiplier) ELSE Signed(t)
    BY <2>14 DEF Timeout, time
  <2> HIDE DEF total, longest
  <2>16. /\ t \in Nat /\ t <= longest * c * RetransmissionMax
         /\ SumOf(delay) * c * RetransmissionMax <= t
         /\ SumOf(delay) * c * RetransmissionMax \in Nat
    <3> DEFINE r == c * RetransmissionMax
    <3>1. r \in Nat
      BY <2>6
    <3>2. \A x \in Nat : x * c * RetransmissionMax = x * r
      BY <2>6
    <3> HIDE DEF r
    <3>3. /\ total * r \in Nat /\ longest * r \in Nat /\ SumOf(delay) * r \in Nat
          /\ total * r <= longest * r /\ SumOf(delay) * r <= total * r
      BY <2>9, <2>13, <2>14, <3>1, ProductMonotone
    <3> QED BY <2>9, <2>13, <2>14, <3>2, <3>3
  <2>17. t * TimeoutMultiplier \in Nat /\ t * TimeoutMultiplier <= most
         /\ t <= t * TimeoutMultiplier
    <3> DEFINE x == longest * c * RetransmissionMax
    <3>1. x \in Nat /\ most = x * TimeoutMultiplier
      BY <2>6, <2>9 DEF most, longest
    <3>2. t <= x /\ t \in Nat
      BY <2>16
    <3> HIDE DEF x, t
    <3>3. t * TimeoutMultiplier <= x * TimeoutMultiplier
      BY <2>6, <3>1, <3>2, ProductMonotone
    <3>4. t * 1 <= t * TimeoutMultiplier /\ t * 1 = t
      BY <2>6, <3>2, ProductMonotone
    <3> QED BY <2>6, <3>1, <3>2, <3>3, <3>4
  <2> HIDE DEF t
  <2>18. 2 * t < Width /\ 2 * (t * TimeoutMultiplier) < Width
    BY <2>1, <2>6, <2>9, <2>16, <2>17
  <2>19. Signed(t) = t /\ Signed(t * TimeoutMultiplier) = t * TimeoutMultiplier
    BY <2>16, <2>17, <2>18, SignedIs
  <2>20. Timeout(path, relay) = IF relay THEN t * TimeoutMultiplier ELSE t
    BY <2>15, <2>19
  <2>21. Timeout(path, relay) \in Nat /\ Timeout(path, relay) >= t
    BY <2>16, <2>17, <2>20
  <2> QED BY <2>16, <2>21
<1>2. Inv => GraphOK /\ RouteOK
  BY DEF Inv
<1> QED BY <1>1, <1>2, Invariance, PathsClean, PTL

-----------------------------------------------------------------------------
(* The search finds the cheapest route.  What is said here holds while no    *)
(* update() is in progress: the search then relaxes the edges of a node as   *)
(* in Dijkstra's algorithm.  That the queue hands out the nearest node first *)
(* is not needed: a node is visited again when it is reached at a shorter    *)
(* distance.                                                                 *)

\* The cost of the edge between two nodes.
Weight(a, b) == Antireliability(params[Edge(a, b)])

\* The distance of b if it is reached from a.
Offer(a, b) == distance[a] + Weight(a, b) + Penalty(a, b)

\* The distance of a node pays for the edge it was reached over.
Paid == \A v \in Slots :
  previous[v] # 0 => distance[previous[v]] + Weight(previous[v], v) <= distance[v]

\* No neighbour of a can be reached from a at a shorter distance.
Settled(a) == \A b \in Row(a) : distance[b] <= Offer(a, b)

\* A node that was reached waits for its visit at its present distance, or is settled.
Waiting == \A v \in Slots :
  v = Self \/ previous[v] # 0 => <<distance[v], v>> \in queue \/ Settled(v)

Unreached == \A v \in Slots : v # Self /\ previous[v] = 0 => distance[v] = Infinite

Ended == /\ stage \in {"walk", "done"} => queue = {}
         /\ stage = "undefined" => to \notin Slots

SearchOK == written = params => Paid /\ Waiting /\ Unreached

LEMMA WeightType ==
  ASSUME GraphOK, NEW a \in Nodes, NEW b \in Row(a) PROVE Weight(a, b) \in Nat
<1>1. Edge(a, b) \in DOMAIN params
  BY RowType
<1>2. params[Edge(a, b)] \in Parameters
  BY <1>1 DEF GraphOK
<1>3. /\ params[Edge(a, b)].good \in Nat /\ params[Edge(a, b)].errors \in Nat
      /\ params[Edge(a, b)].retries \in Nat
  BY <1>2, CountersAre
<1> QED BY <1>3, CostType DEF Weight

LEMMA OfferType ==
  ASSUME GraphOK, TreeOK, NEW a \in Nodes, NEW b \in Row(a)
  PROVE  /\ Offer(a, b) \in Nat /\ distance[a] + Weight(a, b) <= Offer(a, b)
         /\ distance[a] \in Nat /\ Weight(a, b) \in Nat
<1>1. a \in Slots
  BY RowType
<1>2. distance[a] \in Nat
  BY <1>1 DEF TreeOK
<1>3. Weight(a, b) \in Nat
  BY WeightType
<1>4. Penalty(a, b) \in Nat
  BY PenaltyType
<1> QED BY <1>2, <1>3, <1>4 DEF Offer

\* Without an update() in progress an edge reads as what it costs.
LEMMA ReadingIs ==
  ASSUME written = params, NEW a, NEW b, NEW x \in Readings(Edge(a, b))
  PROVE  x = Weight(a, b)
<1> DEFINE p == params[Edge(a, b)]
<1>1. PICK g \in {p.good, written[Edge(a, b)].good},
           e \in {p.errors, written[Edge(a, b)].errors},
           r \in {p.retries, written[Edge(a, b)].retries} :
             x = Antireliability([good |-> g, errors |-> e, retries |-> r])
  BY DEF Readings
<1>2. g = p.good /\ e = p.errors /\ r = p.retries
  BY <1>1
<1>3. Antireliability([good |-> p.good, errors |-> p.errors, retries |-> p.retries])
        = Antireliability(p)
  BY DEF Antireliability
<1> QED BY <1>1, <1>2, <1>3 DEF Weight

\* What Visit does to the distances when every edge has one cost.
Pays(a, R) ==
  /\ a \in Nodes \cap Slots
  /\ R = {b \in Row(a) : Better(distance[b], Offer(a, b))}
  /\ distance' = [v \in Slots |-> IF v \in R THEN Offer(a, v) ELSE distance[v]]
  /\ previous' = [v \in Slots |-> IF v \in R THEN a ELSE previous[v]]

LEMMA VisitPays ==
  ASSUME GraphOK, TreeOK, QueueOK, written = params, NEW q \in queue, Visit(q)
  PROVE  \E R : /\ Pays(q[2], R)
                /\ queue' = (queue \ {q}) \cup {<<Offer(q[2], b), b>> : b \in R}
<1> DEFINE a == q[2]
           row == Row(a)
<1>1. a \in Nodes /\ a \in Slots
  BY DEF QueueOK
<1>2. PICK cost \in [row -> UNION {Readings(Edge(a, b)) : b \in row}] :
        LET offer(b) == distance[a] + cost[b] + Penalty(a, b)
            reached == {b \in row : Better(distance[b], offer(b))}
        IN /\ \A b \in row : cost[b] \in Readings(Edge(a, b))
           /\ distance' = [v \in Slots |-> IF v \in reached THEN offer(v) ELSE distance[v]]
           /\ previous' = [v \in Slots |-> IF v \in reached THEN a ELSE previous[v]]
           /\ queue' = (queue \ {q}) \cup {<<offer(b), b>> : b \in reached}
  BY DEF Visit
<1> DEFINE offer(b) == distance[a] + cost[b] + Penalty(a, b)
           reached == {b \in row : Better(distance[b], offer(b))}
           R == {b \in row : Better(distance[b], Offer(a, b))}
<1>3. ASSUME NEW b \in row PROVE offer(b) = Offer(a, b)
  <2>1. cost[b] \in Readings(Edge(a, b))
    BY <1>2
  <2>2. cost[b] = Weight(a, b)
    BY <2>1, ReadingIs
  <2> QED BY <2>2 DEF Offer
<1>4. /\ distance' = [v \in Slots |-> IF v \in reached THEN offer(v) ELSE distance[v]]
      /\ previous' = [v \in Slots |-> IF v \in reached THEN a ELSE previous[v]]
      /\ queue' = (queue \ {q}) \cup {<<offer(b), b>> : b \in reached}
  BY <1>2
<1>5. reached \subseteq row /\ R \subseteq row
  OBVIOUS
<1>6. reached = R
  <2> HIDE DEF row, offer
  <2> QED BY <1>3
<1> HIDE DEF reached, offer, row
<1>7. distance' = [v \in Slots |-> IF v \in R THEN Offer(a, v) ELSE distance[v]]
  BY <1>3, <1>4, <1>5, <1>6
<1>8. queue' = (queue \ {q}) \cup {<<Offer(a, b), b>> : b \in R}
  BY <1>3, <1>4, <1>5, <1>6
<1>9. R = {b \in Row(a) : Better(distance[b], Offer(a, b))}
  BY DEF row
<1>10. previous' = [v \in Slots |-> IF v \in R THEN a ELSE previous[v]]
  BY <1>4, <1>6
<1> HIDE DEF R
<1> QED BY <1>1, <1>7, <1>8, <1>9, <1>10 DEF Pays

LEMMA PaysValues ==
  ASSUME GraphOK, TreeOK, NEW a, NEW R, Pays(a, R), NEW v \in Slots
  PROVE  /\ v \in R => /\ v \in Row(a) /\ distance'[v] = Offer(a, v) /\ previous'[v] = a
                       /\ v # a
         /\ v \notin R => distance'[v] = distance[v] /\ previous'[v] = previous[v]
         /\ v \in Row(a) => distance'[v] <= Offer(a, v)
         /\ distance'[v] \in Nat /\ distance[v] \in Nat /\ distance'[v] <= distance[v]
<1>1. distance[v] \in Nat /\ a \in Nodes
  BY DEF TreeOK, Pays
<1>2. /\ distance'[v] = IF v \in R THEN Offer(a, v) ELSE distance[v]
      /\ previous'[v] = IF v \in R THEN a ELSE previous[v]
  BY DEF Pays
<1>3. v \in Row(a) => Offer(a, v) \in Nat /\ v # a
  BY <1>1, OfferType, RowType
<1>4. v \in R <=> v \in Row(a) /\ distance[v] > Offer(a, v)
  BY DEF Pays, Better
<1> QED BY <1>1, <1>2, <1>3, <1>4

\* The order in which the nodes are visited plays no part.
LEMMA SearchGoesOn ==
  ASSUME Inv, Paid, Waiting, Unreached, NEW q \in queue, NEW R, Pays(q[2], R),
         queue' = (queue \ {q}) \cup {<<Offer(q[2], b), b>> : b \in R}, UNCHANGED graph
  PROVE  Paid' /\ Waiting' /\ Unreached'
<1> DEFINE a == q[2]
<1> USE DEF graph
<1>1. /\ Slots' = Slots /\ (\A x : Row(x)' = Row(x))
      /\ (\A x, y : Weight(x, y)' = Weight(x, y) /\ Penalty(x, y)' = Penalty(x, y))
  BY DEF Slots, Row, Weight, Penalty
<1>2. GraphOK /\ TreeOK /\ QueueOK
  BY DEF Inv
<1>3. a \in Nodes /\ a \in Slots /\ a # 0 /\ q \in Nat \X Nodes
  BY <1>2, RoutingAssumption DEF QueueOK
<1>4. a \notin R /\ distance'[a] = distance[a]
  BY <1>2, <1>3, PaysValues
<1>5. Paid'
  <2> SUFFICES ASSUME NEW v \in Slots, previous'[v] # 0
               PROVE  distance'[previous'[v]] + Weight(previous'[v], v) <= distance'[v]
    BY <1>1 DEF Paid
  <2>1. CASE v \in R
    <3>1. v \in Row(a) /\ distance'[v] = Offer(a, v) /\ previous'[v] = a
      BY <1>2, <2>1, PaysValues
    <3>2. distance[a] + Weight(a, v) <= Offer(a, v)
      BY <1>2, <1>3, <3>1, OfferType
    <3> QED BY <1>4, <3>1, <3>2
  <2>2. CASE v \notin R
    <3> DEFINE u == previous[v]
    <3>1. distance'[v] = distance[v] /\ previous'[v] = u /\ distance[v] \in Nat
      BY <1>2, <2>2, PaysValues
    <3>2. Reached(v)
      BY <1>2, <3>1 DEF TreeOK
    <3>3. u \in Slots /\ <<u, v>> \in net.neighbours
      BY <3>2 DEF Reached
    <3>4. u \in Nodes /\ v \in Row(u)
      BY <1>2, <3>3 DEF GraphOK, Networks, Row
    <3>5. Weight(u, v) \in Nat
      BY <1>2, <3>4, WeightType
    <3>6. distance[u] + Weight(u, v) <= distance[v]
      BY <3>1 DEF Paid
    <3>7. distance'[u] <= distance[u] /\ distance'[u] \in Nat /\ distance[u] \in Nat
      BY <1>2, <3>3, PaysValues
    <3> HIDE DEF u
    <3> QED BY <3>1, <3>5, <3>6, <3>7
  <2> QED BY <2>1, <2>2
<1>6. Waiting'
  <2> SUFFICES ASSUME NEW v \in Slots, v = Self \/ previous'[v] # 0,
                      <<distance'[v], v>> \notin queue'
               PROVE  \A b \in Row(v) : distance'[b] <= Offer(v, b)'
    BY <1>1 DEF Waiting, Settled
  <2>1. v \notin R
    <3> SUFFICES ASSUME v \in R PROVE FALSE
      OBVIOUS
    <3>1. distance'[v] = Offer(a, v)
      BY <1>2, PaysValues
    <3> QED BY <3>1
  <2>2. distance'[v] = distance[v] /\ previous'[v] = previous[v]
    BY <1>2, <2>1, PaysValues
  <2>3. \A b : Offer(v, b)' = Offer(v, b)
    BY <1>1, <2>2 DEF Offer
  <2>4. CASE v = a
    <3>1. \A b \in Row(a) : b \in Slots
      BY <1>2, <1>3, RowType
    <3> QED BY <1>2, <2>3, <2>4, <3>1, PaysValues
  <2>5. CASE v # a
    <3>1. <<distance[v], v>> # q
      BY <1>3, <2>5
    <3>2. Settled(v)
      BY <2>2, <3>1 DEF Waiting
    <3>3. ASSUME NEW b \in Row(v) PROVE distance'[b] <= Offer(v, b)
      <4>1. v \in Nodes
        BY <1>2, <3>3 DEF Row, GraphOK, Networks
      <4>2. b \in Slots /\ Offer(v, b) \in Nat
        BY <1>2, <4>1, RowType, OfferType
      <4>3. distance[b] <= Offer(v, b)
        BY <3>2 DEF Settled
      <4>4. distance'[b] <= distance[b] /\ distance'[b] \in Nat /\ distance[b] \in Nat
        BY <1>2, <4>2, PaysValues
      <4> QED BY <4>2, <4>3, <4>4
    <3> QED BY <2>3, <3>3
  <2> QED BY <2>4, <2>5
<1>7. Unreached'
  <2> SUFFICES ASSUME NEW v \in Slots, v # Self, previous'[v] = 0
               PROVE  distance'[v] = Infinite
    BY <1>1 DEF Unreached
  <2>1. v \notin R
    BY <1>2, <1>3, PaysValues
  <2>2. distance'[v] = distance[v] /\ previous[v] = 0
    BY <1>2, <2>1, PaysValues
  <2> QED BY <2>2 DEF Unreached
<1> QED BY <1>5, <1>6, <1>7

LEMMA InitSearch == ASSUME Init PROVE SearchOK /\ Ended
<1>1. /\ distance = [v \in Slots |-> IF v = Self THEN 0 ELSE Infinite]
      /\ previous = [v \in Slots |-> 0] /\ queue = {<<0, Self>>} /\ stage = "search"
  BY DEF Init
<1>2. Ended /\ Paid /\ Unreached
  BY <1>1 DEF Ended, Paid, Unreached
<1>3. Waiting
  BY <1>1 DEF Waiting
<1> QED BY <1>2, <1>3 DEF SearchOK

LEMMA NextSearch == ASSUME Inv, SearchOK, Ended, [Next]_vars PROVE SearchOK' /\ Ended'
<1> USE DEF graph
<1>1. ASSUME UNCHANGED <<graph, distance, previous>>,
             \A v \in Slots : <<distance[v], v>> \in queue => <<distance[v], v>> \in queue'
      PROVE  SearchOK'
  <2>1. /\ Slots' = Slots /\ \A x, y : Offer(x, y)' = Offer(x, y) /\ Weight(x, y)' = Weight(x, y)
        /\ \A x : Row(x)' = Row(x)
    BY <1>1 DEF Slots, Row, Weight, Offer, Penalty
  <2>2. \A v : Settled(v)' <=> Settled(v)
    BY <1>1, <2>1 DEF Settled
  <2>3. Paid => Paid'
    BY <1>1, <2>1 DEF Paid
  <2>4. Waiting => Waiting'
    BY <1>1, <2>1, <2>2 DEF Waiting
  <2>5. Unreached => Unreached'
    BY <1>1, <2>1 DEF Unreached
  <2> QED BY <1>1, <2>3, <2>4, <2>5 DEF SearchOK
<1>2. ASSUME NEW q \in queue, Visit(q) PROVE SearchOK' /\ Ended'
  <2>1. UNCHANGED <<graph, stage>> /\ stage = "search"
    BY <1>2 DEF Visit
  <2>2. ASSUME written = params PROVE Paid' /\ Waiting' /\ Unreached'
    <3>1. PICK R : /\ Pays(q[2], R)
                   /\ queue' = (queue \ {q}) \cup {<<Offer(q[2], b), b>> : b \in R}
      BY <1>2, <2>2, VisitPays DEF Inv
    <3>2. Paid /\ Waiting /\ Unreached
      BY <2>2 DEF SearchOK
    <3> QED BY <2>1, <3>1, <3>2, SearchGoesOn
  <2>3. SearchOK'
    BY <2>1, <2>2 DEF SearchOK
  <2> QED BY <2>1, <2>3 DEF Ended
<1>3. ASSUME NEW q \in queue, Skip(q) PROVE SearchOK' /\ Ended'
  <2>1. /\ UNCHANGED <<graph, stage, distance, previous>> /\ stage = "search"
        /\ queue' = queue \ {q} /\ q[1] > distance[q[2]]
    BY <1>3 DEF Skip
  <2>2. \A v \in Slots : <<distance[v], v>> \in queue => <<distance[v], v>> \in queue'
    <3> SUFFICES ASSUME NEW v \in Slots, q = <<distance[v], v>> PROVE FALSE
      BY <2>1
    <3>1. distance[v] \in Nat /\ q[1] = distance[v] /\ q[2] = v
      BY DEF Inv, TreeOK
    <3>2. distance[v] > distance[v]
      BY <2>1, <3>1
    <3> QED BY <3>1, <3>2
  <2> QED BY <1>1, <2>1, <2>2 DEF Ended
<1>4. CASE Found
  <2>1. /\ UNCHANGED <<graph, queue, distance, previous>> /\ queue = {}
        /\ stage' = IF to \in Slots THEN "walk" ELSE "undefined"
    BY <1>4 DEF Found
  <2>2. Ended'
    BY <2>1 DEF Ended, Slots
  <2> QED BY <1>1, <2>1, <2>2
<1>5. CASE Walk
  BY <1>1, <1>5 DEF Walk, Ended
<1>6. CASE Return
  BY <1>1, <1>6 DEF Return, Ended
<1>7. CASE UNCHANGED vars
  <2>1. UNCHANGED <<graph, stage, queue, distance, previous>>
    BY <1>7 DEF vars
  <2> QED BY <1>1, <2>1 DEF Ended, Slots
<1> QED BY <1>2, <1>3, <1>4, <1>5, <1>6, <1>7 DEF Next

LEMMA SearchInvariant == Spec => [](SearchOK /\ Ended)
BY InitSearch, NextSearch, Invariance, PTL DEF Spec

-----------------------------------------------------------------------------
(* Routes.                                                                   *)

\* The nodes of a route from Self, which is number 0.
At(r, i) == IF i = 0 THEN Self ELSE r[i]

\* What the steps of a route cost.
Costs(r) == [i \in 1..Len(r) |-> Antireliability(params[Step(r, i)])]

\* A route over edges of the graph, of a length that is known.
Leads(r, n) ==
  /\ n \in Nat /\ n > 0 /\ Len(r) = n
  /\ \A i \in 1..n : r[i] \in Nodes
  /\ r[1] \in Row(Self) /\ \A i \in 2..n : r[i] \in Row(r[i - 1])

LEMMA StepCosts ==
  ASSUME GraphOK, NEW r, NEW n, Leads(r, n), NEW i \in 1..n
  PROVE  /\ At(r, i - 1) \in Nodes /\ At(r, i) \in Row(At(r, i - 1))
         /\ Costs(r)[i] = Weight(At(r, i - 1), At(r, i)) /\ Costs(r)[i] \in Nat
<1>1. n \in Nat /\ i # 0 /\ Self \in Nodes
  BY RoutingAssumption DEF Leads
<1>2. At(r, i - 1) \in Nodes /\ At(r, i) \in Row(At(r, i - 1))
  <2>1. CASE i = 1
    BY <1>1, <2>1 DEF Leads, At
  <2>2. CASE i # 1
    <3>1. i \in 2..n /\ i - 1 \in 1..n /\ i - 1 # 0
      BY <1>1, <2>2
    <3> QED BY <1>1, <3>1 DEF Leads, At
  <2> QED BY <2>1, <2>2
<1>3. Step(r, i) = Edge(At(r, i - 1), At(r, i))
  BY <1>1 DEF Step, At
<1>4. Costs(r)[i] = Weight(At(r, i - 1), At(r, i))
  BY <1>3 DEF Costs, Weight, Leads
<1> QED BY <1>2, <1>4, WeightType

\* After the search no route is cheaper than the distance of its end.
LEMMA NoneCheaper ==
  ASSUME Inv, Waiting, Unreached, queue = {}, NEW r, NEW n, Leads(r, n),
         r[1] \in net.macs, \A i \in 1..n : r[i] \notin visited /\ r[i] # Self
  PROVE  r[n] \in Slots /\ SumOf(Costs(r)) \in Nat /\ distance[r[n]] <= SumOf(Costs(r))
<1>1. GraphOK /\ TreeOK
  BY DEF Inv
<1>2. n \in Nat /\ n > 0 /\ Len(Costs(r)) = n
  BY DEF Leads, Costs
<1>3. \A i \in 1..n : Costs(r)[i] \in Nat
  BY <1>1, StepCosts
<1>4. PICK s : Sums(s, Costs(r), n) /\ SumOf(Costs(r)) = s[n]
  BY <1>2, <1>3, SumOfIs
<1> DEFINE S == {k \in Nat : At(r, k) \in Slots /\ distance[At(r, k)] <= s[k]}
<1>5. 0 \in S
  <2>1. Self \in Slots
    <3>1. r[1] \in Row(Self) /\ Self \in Nodes
      BY RoutingAssumption DEF Leads
    <3> QED BY <1>1, <3>1, RowType
  <2> QED BY <1>1, <1>4, <2>1 DEF TreeOK, Sums, At
<1>6. ASSUME NEW k \in Nat, k < n, k \in S PROVE k + 1 \in S
  <2> DEFINE u == At(r, k)
             v == At(r, k + 1)
  <2>1. k + 1 \in 1..n /\ (k + 1) - 1 = k
    BY <1>2, <1>6
  <2>2. /\ u \in Nodes /\ v \in Row(u) /\ Costs(r)[k + 1] = Weight(u, v)
    BY <1>1, <2>1, StepCosts
  <2>3. Weight(u, v) \in Nat /\ v \in Slots /\ u \in Slots /\ u # 0
    <3> HIDE DEF u, v
    <3>1. Weight(u, v) \in Nat
      BY <1>1, <2>2, WeightType
    <3>2. v \in Slots /\ u \in Slots
      BY <1>1, <2>2, RowType
    <3> QED BY <2>2, <3>1, <3>2, RoutingAssumption
  <2>4. s[k] \in Nat /\ s[k + 1] = s[k] + Weight(u, v)
    <3> DEFINE f == Costs(r)
    <3> HIDE DEF f, u, v
    <3>1. Sums(s, f, n) /\ f[k + 1] = Weight(u, v)
      BY <1>4, <2>2 DEF f
    <3> QED BY <1>2, <1>6, <2>1, <3>1 DEF Sums
  <2>5. /\ distance[u] \in Nat /\ distance[v] \in Nat /\ distance[u] <= s[k]
        /\ distance[v] <= Infinite /\ Infinite \in Nat
    BY <1>1, <1>6, <2>3, RoutingAssumption DEF TreeOK
  <2>6. CASE u # Self /\ previous[u] = 0
    <3>1. distance[u] = Infinite
      BY <2>3, <2>6 DEF Unreached
    <3>2. distance[v] <= s[k + 1]
      BY <2>3, <2>4, <2>5, <3>1
    <3> QED BY <2>3, <3>2
  <2>7. CASE u = Self \/ previous[u] # 0
    <3>1. Settled(u)
      BY <2>3, <2>7 DEF Waiting
    <3>2. distance[v] <= Offer(u, v)
      BY <2>2, <3>1 DEF Settled
    <3>3. v \notin visited /\ v = r[k + 1]
      BY <2>1 DEF At
    <3>4. u = Self => v \in net.macs
      <4>1. k # 0 => k \in 1..n /\ u = r[k]
        BY <1>2, <1>6 DEF At
      <4> QED BY <3>3, <4>1
    <3>5. Penalty(u, v) = 0
      BY <3>3, <3>4 DEF Penalty
    <3>6. distance[v] <= distance[u] + Weight(u, v)
      BY <2>3, <2>5, <3>2, <3>5 DEF Offer
    <3>7. distance[v] <= s[k + 1]
      <4> HIDE DEF u, v
      <4> QED BY <2>3, <2>4, <2>5, <3>6
    <3> QED BY <2>3, <3>7
  <2> QED BY <2>6, <2>7
<1> HIDE DEF S
<1>7. n \in S
  <2>1. 0..n \subseteq S
    BY <1>2, <1>5, <1>6, InductionTo
  <2> QED BY <1>2, <2>1
<1>8. At(r, n) = r[n] /\ s[n] \in Nat
  BY <1>2, <1>4 DEF At, Sums
<1> QED BY <1>4, <1>7, <1>8 DEF S

\* The distance of the destination pays for the route that was found.
LEMMA RoutePaid ==
  ASSUME Inv, Paid, stage = "done", NEW n, Leads(path, n), current = Self
  PROVE  SumOf(Costs(path)) \in Nat /\ SumOf(Costs(path)) <= distance[path[n]]
<1>1. GraphOK /\ TreeOK
  BY DEF Inv
<1>2. n \in Nat /\ n > 0 /\ Len(Costs(path)) = n /\ Len(path) = n
  BY DEF Leads, Costs
<1>3. \A i \in 1..n : Costs(path)[i] \in Nat
  BY <1>1, StepCosts
<1>4. PICK s : Sums(s, Costs(path), n) /\ SumOf(Costs(path)) = s[n]
  BY <1>2, <1>3, SumOfIs
<1> DEFINE S == {k \in Nat : s[k] <= distance[At(path, k)]}
<1>5. 0 \in S
  BY <1>1, <1>4 DEF TreeOK, Sums, At
<1>6. ASSUME NEW k \in Nat, k < n, k \in S PROVE k + 1 \in S
  <2> DEFINE u == At(path, k)
             v == At(path, k + 1)
  <2>1. k + 1 \in 1..n /\ (k + 1) - 1 = k
    BY <1>2, <1>6
  <2>2. u \in Nodes /\ v \in Row(u) /\ Costs(path)[k + 1] = Weight(u, v)
    BY <1>1, <2>1, StepCosts
  <2>3. Weight(u, v) \in Nat /\ v \in Slots /\ u \in Slots /\ u # 0
    <3> HIDE DEF u, v
    <3>1. Weight(u, v) \in Nat
      BY <1>1, <2>2, WeightType
    <3>2. v \in Slots /\ u \in Slots
      BY <1>1, <2>2, RowType
    <3> QED BY <2>2, <3>1, <3>2, RoutingAssumption
  <2>4. s[k] \in Nat /\ s[k + 1] = s[k] + Weight(u, v)
    <3> DEFINE f == Costs(path)
    <3> HIDE DEF f, u, v
    <3>1. Sums(s, f, n) /\ f[k + 1] = Weight(u, v)
      BY <1>4, <2>2 DEF f
    <3> QED BY <1>2, <1>6, <2>1, <3>1 DEF Sums
  <2>5. distance[u] \in Nat /\ distance[v] \in Nat /\ s[k] <= distance[u]
    BY <1>1, <1>6, <2>3 DEF TreeOK
  <2>6. previous[v] = u /\ u # 0
    <3>1. v = path[k + 1] /\ previous[path[k + 1]] # 0
          /\ previous[path[k + 1]] = IF k + 1 = 1 THEN current ELSE path[(k + 1) - 1]
      BY <1>2, <2>1 DEF At, Inv, RouteOK
    <3> QED BY <2>1, <3>1 DEF At
  <2>7. distance[u] + Weight(u, v) <= distance[v]
    BY <2>3, <2>6 DEF Paid
  <2> HIDE DEF u
  <2>8. s[k + 1] <= distance[v]
    <3> HIDE DEF v
    <3> QED BY <2>3, <2>4, <2>5, <2>7
  <2> QED BY <2>8
<1> HIDE DEF S
<1>7. n \in S
  <2>1. 0..n \subseteq S
    BY <1>2, <1>5, <1>6, InductionTo
  <2> QED BY <1>2, <2>1
<1>8. At(path, n) = path[n] /\ s[n] \in Nat
  BY <1>2, <1>4 DEF At, Sums
<1> QED BY <1>4, <1>7, <1>8 DEF S

\* A clean route is one the two lemmas speak of.
LEMMA CleanLeads ==
  ASSUME GraphOK, NEW r \in CleanRoutes
  PROVE  /\ Leads(r, Len(r)) /\ r[1] \in net.macs /\ r[Len(r)] = to
         /\ \A i \in 1..Len(r) : r[i] \notin visited /\ r[i] # Self
<1> DEFINE D == Nodes \ (visited \cup {Self})
<1>1. PICK n \in 1..Cardinality(Nodes) : r \in [1..n -> D]
  BY DEF CleanRoutes
<1>2. /\ r[1] \in Row(Self) \cap net.macs /\ r[Len(r)] = to
      /\ \A i \in 2..Len(r) : r[i] \in Row(r[i - 1])
  BY DEF CleanRoutes
<1>3. n \in Nat /\ n > 0
  BY <1>1
<1>4. Len(r) = n
  BY <1>1, <1>3
<1>5. \A i \in 1..n : r[i] \in D
  BY <1>1
<1> QED BY <1>2, <1>3, <1>4, <1>5 DEF Leads

\* A clean path is a clean route: it visits no node twice, so it is no longer than there
\* are nodes.
LEMMA PathIsRoute ==
  ASSUME Inv, CleanPath, stage = "done", path # <<>>
  PROVE  path \in CleanRoutes /\ current = Self
<1> DEFINE n == Len(path)
           D == Nodes \ (visited \cup {Self})
<1>1. path \in Seq(Nodes) /\ n \in Nat /\ n > 0
  <2>1. path \in Seq(Nodes)
    BY DEF Inv, RouteOK
  <2> QED BY <2>1
<1>2. path \in [1..n -> D]
  <2>1. path \in [1..n -> Nodes]
    BY <1>1
  <2>2. \A i \in 1..n : path[i] \in D
    BY <1>1, <2>1 DEF CleanPath
  <2> QED BY <2>1, <2>2
<1>3. path \in Injection(1..n, Nodes)
  <2>1. path \in [1..n -> Nodes]
    BY <1>2
  <2>2. \A i, j \in 1..n : path[i] = path[j] => i = j
    BY DEF CleanPath
  <2> HIDE DEF n, D
  <2> QED BY <2>1, <2>2, Zenon DEF Injection, IsInjective
<1>4. IsFiniteSet(Nodes) /\ Cardinality(Nodes) \in Nat
  <2>1. IsFiniteSet(1..254)
    <3>1. 1 \in Int /\ 254 \in Int
      OBVIOUS
    <3> QED BY ONLY <3>1, FS_Interval
  <2>2. IsFiniteSet(Nodes)
    <3>1. Nodes \in SUBSET (1..254)
      BY RoutingAssumption
    <3> QED BY ONLY <2>1, <3>1, FS_Subset
  <2> QED BY <2>2, FS_CardinalityType
<1>5. Cardinality(1..n) = n
  BY <1>1, FS_Interval
<1>6. n <= Cardinality(Nodes)
  <2>1. Cardinality(1..n) <= Cardinality(Nodes)
    BY <1>3, <1>4, FS_Injection
  <2> QED BY <1>5, <2>1
<1>7. n \in 1..Cardinality(Nodes)
  BY <1>1, <1>4, <1>6
<1>8. /\ path[1] \in Row(Self) \cap net.macs /\ path[n] = to
      /\ \A i \in 2..n : path[i] \in Row(path[i - 1])
      /\ \A i, j \in 1..n : path[i] = path[j] => i = j
  BY DEF CleanPath
<1>9. path \in CleanRoutes
  BY <1>2, <1>7, <1>8 DEF CleanRoutes
<1>10. current = Self
  <2>1. 1 \in 1..n
    BY <1>1
  <2>2. previous[path[1]] = current /\ Reached(path[1]) /\ previous[current] = 0
    BY <2>1 DEF Inv, RouteOK, TreeOK
  <2> QED BY <2>2 DEF Reached
<1> QED BY <1>9, <1>10

\* Unless an update is in progress, the route returned is one of the cheapest clean ones
\* (network.h:254-258), and none is returned exactly if each of them costs too much: there
\* is no other way out, not even the ones network.h:260-263 names.  Only a destination
\* that the graph does not know is looked for beyond the vectors.
THEOREM Path_Cheapest == Spec => []Cheapest
<1>1. ASSUME Inv, CleanPath, SearchOK, Ended PROVE Cheapest
  <2>1. GraphOK /\ TreeOK /\ RouteOK
    BY <1>1 DEF Inv
  <2>2. ASSUME stage = "undefined" PROVE to \notin net.nodes
    <3>1. to \notin Slots /\ to \in 1..254
      BY <1>1, <2>1, <2>2 DEF Ended, GraphOK
    <3>2. PICK m \in Int : m = net.max_address
      BY <2>1 DEF GraphOK, Networks
    <3>3. ~(to <= net.max_address)
      BY <3>1, <3>2 DEF Slots
    <3> QED BY <2>1, <3>3 DEF GraphOK, Sound
  <2>3. ASSUME stage = "done", written = params, NEW r \in CleanRoutes
        PROVE  Cost(r) \in Nat /\ to \in Slots /\ to # Self /\ distance[to] <= Cost(r)
    <3>1. Waiting /\ Unreached /\ queue = {}
      BY <1>1, <2>3 DEF SearchOK, Ended
    <3> DEFINE n == Len(r)
    <3>2. /\ Leads(r, n) /\ r[1] \in net.macs /\ r[n] = to
          /\ \A i \in 1..n : r[i] \notin visited /\ r[i] # Self
      BY <2>1, CleanLeads
    <3>3. Cost(r) = SumOf(Costs(r))
      BY DEF Cost, Costs
    <3>4. n \in 1..n
      BY <3>2 DEF Leads
    <3> HIDE DEF n
    <3>5. r[n] \in Slots /\ SumOf(Costs(r)) \in Nat /\ distance[r[n]] <= SumOf(Costs(r))
      BY <1>1, <3>1, <3>2, NoneCheaper
    <3> QED BY <3>2, <3>3, <3>4, <3>5
  <2>4. ASSUME stage = "done", written = params, path # <<>>, NEW r \in CleanRoutes
        PROVE  path \in CleanRoutes /\ Cost(path) <= Cost(r)
    <3>1. path \in CleanRoutes /\ current = Self
      BY <1>1, <2>4, PathIsRoute
    <3> DEFINE n == Len(path)
    <3>2. Leads(path, n) /\ path[n] = to
      BY <2>1, <3>1, CleanLeads
    <3>3. Paid
      BY <1>1, <2>4 DEF SearchOK
    <3> HIDE DEF n
    <3>4. SumOf(Costs(path)) \in Nat /\ SumOf(Costs(path)) <= distance[to]
      BY <1>1, <2>4, <3>1, <3>2, <3>3, RoutePaid
    <3>5. Cost(path) = SumOf(Costs(path))
      BY DEF Cost, Costs
    <3>6. Cost(r) \in Nat /\ to \in Slots /\ distance[to] <= Cost(r)
      BY <2>3, <2>4
    <3>7. distance[to] \in Nat
      BY <2>1, <3>6 DEF TreeOK
    <3> QED BY <3>1, <3>4, <3>5, <3>6, <3>7
  <2>5. ASSUME stage = "done", written = params, path # <<>> PROVE path \in CleanRoutes
    BY <1>1, <2>5, PathIsRoute
  <2>6. ASSUME stage = "done", written = params, path = <<>>, NEW r \in CleanRoutes
        PROVE  Cost(r) >= Infinite
    <3>1. previous[to] = 0
      BY <2>1, <2>6 DEF RouteOK
    <3>2. Cost(r) \in Nat /\ to \in Slots /\ to # Self /\ distance[to] <= Cost(r)
      BY <2>3, <2>6
    <3>3. distance[to] = Infinite
      BY <1>1, <2>6, <3>1, <3>2 DEF SearchOK, Unreached
    <3> QED BY <3>2, <3>3, RoutingAssumption
  <2> QED BY <2>2, <2>4, <2>5, <2>6 DEF Cheapest
<1> QED BY <1>1, Invariance, PathsClean, SearchInvariant, PTL
=============================================================================
