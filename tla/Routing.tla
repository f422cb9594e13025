------------------------------ MODULE Routing -------------------------------
(***************************************************************************)
(* One call of Network::path(): the search for the most reliable route of  *)
(* a packet from this node, and the timeout computed from the route.       *)
(*                                                                         *)
(* The search holds graphLock, but the parameters of the edges are written *)
(* without it: update() takes the lock only while it looks for the edge.   *)
(* When path() runs on the subscription thread, the main thread may be in  *)
(* the middle of one update().  `params' are the parameters before it,     *)
(* `written' those after it, and every read of a field may find either.    *)
(*                                                                         *)
(* Reliabilities are floats in the code; here they are multiples of        *)
(* 1/Scale, rounded down.  Counters of an edge have 32 bits: Width is the  *)
(* number of their values.                                                 *)
(***************************************************************************)
EXTENDS Network, Sequences, FiniteSets

CONSTANTS
  Nodes,        \* addresses in the graph
  Self,         \* `from'
  Infinite,     \* INFINITE_DISTANCE, 9999999 in the code, in units of 1/Scale
  Scale,        \* units of reliability
  Width,        \* 2^32 in the code
  DelayMax,     \* the longest delay of an edge, 2^16 - 1 in the code
  Links,        \* edges the graph may have
  Measures,     \* parameters the edges may have
  Reports,      \* arguments update() may be called with
  Known,        \* sets of nodes whose MAC may be known
  Visited,      \* sets of nodes the packet may have visited
  Targets,      \* destinations
  tv, c,        \* constants of Dispatcher::timeout(), 1 and 2 in the code
  RetransmissionMax, TimeoutMultiplier  \* 5 and 100 in the code

Parameters == [good : 0..(Width - 1), errors : 0..(Width - 1), retries : 0..(Width - 1),
               delay : 0..DelayMax]
Report == [retries : 0..255, error : 0..255, delay : 0..DelayMax]

ASSUME RoutingAssumption ==
  /\ Nodes \subseteq 1..254 /\ Self \in Nodes
  /\ Infinite \in Nat \ {0} /\ Scale \in Nat \ {0} /\ Width \in Nat \ {0} /\ DelayMax \in Nat
  /\ Links \subseteq {e \in Nodes \X Nodes : e[1] < e[2]}
  /\ Measures \subseteq Parameters /\ Reports \subseteq Report
  /\ Known \subseteq SUBSET Nodes /\ Visited \subseteq SUBSET Nodes
  /\ Targets \subseteq 1..254
  /\ {tv, c, RetransmissionMax, TimeoutMultiplier} \subseteq Nat \ {0}

VARIABLES
  net,       \* the graph, see Network
  params,    \* Parameters of its edges
  written,   \* the same after the update() in progress
  to,        \* destination
  visited,   \* nodes the packet has visited
  stage,     \* where path() is
  queue,     \* Destinations: pairs of a distance and a node
  distance, previous,
  current,   \* current_node, while the route is read off `previous'
  path       \* the route found so far

graph == <<net, params, written, to, visited>>
vars == <<net, params, written, to, visited, stage, queue, distance, previous, current, path>>

Edge(a, b) == IF a < b THEN <<a, b>> ELSE <<b, a>>
Row(a) == {b \in Nodes : <<a, b>> \in net.neighbours}
Slots == 0..net.max_address

-----------------------------------------------------------------------------
(* Parameters of an edge *)

\* Parameters::antireliability().  The sums and the product are unsigned; division by a
\* `good' that has wrapped gives infinity or NaN, which no distance is greater than.
Antireliability(p) ==
  LET n == (p.retries * (p.errors + 1)) % Width
      d == (p.good + 1) % Width
  IN IF d = 0 THEN Infinite ELSE (Scale * n) \div d

\* Network::update() on an edge.  The sums wrap before std::min sees them.
\* Mutant: a failure counts as a delivery too.
Updated_AlwaysGood(p, r) ==
  [good    |-> (p.good + 1) % Width,
   errors  |-> (p.errors + IF r.error > 0 THEN 1 ELSE 0) % Width,
   retries |-> (p.retries + r.retries) % Width,
   delay   |-> (p.delay + r.delay + 1) \div 2]
Updated(p, r) ==
  [good    |-> (p.good + IF r.error = 0 THEN 1 ELSE 0) % Width,
   errors  |-> (p.errors + IF r.error > 0 THEN 1 ELSE 0) % Width,
   retries |-> (p.retries + r.retries) % Width,
   delay   |-> (p.delay + r.delay + 1) \div 2]

\* What a read of the reliability of edge e may give.
Readings(e) ==
  {Antireliability([good |-> g, errors |-> x, retries |-> r]) :
     g \in {params[e].good, written[e].good},
     x \in {params[e].errors, written[e].errors},
     r \in {params[e].retries, written[e].retries}}

-----------------------------------------------------------------------------
(* The search *)

Init ==
  /\ \E links \in SUBSET Links, known \in Known :
       /\ LET seen == Merge(NewNetwork(Self), links)
          IN net = [seen EXCEPT !.macs = known \intersect seen.nodes]
       /\ params \in [links -> Measures]
       /\ \/ written = params
          \/ \E e \in links, r \in Reports :
               written = [params EXCEPT ![e] = Updated(@, r)]
  /\ to \in Targets /\ visited \in Visited
  /\ stage = "search"
  /\ queue = {<<0, Self>>}
  /\ distance = [v \in Slots |-> IF v = Self THEN 0 ELSE Infinite]
  /\ previous = [v \in Slots |-> 0]
  /\ current = 0 /\ path = <<>>

\* queue.top()
IsTop(q) == \A r \in queue : q[1] < r[1] \/ (q[1] = r[1] /\ q[2] <= r[2])

\* What a step from node a to b costs besides the reliability of the edge.
\* Mutant: the MAC is not looked at.
Penalty_NoMac(a, b) == IF b \in visited THEN Infinite ELSE 0
Penalty(a, b) == (IF a = Self /\ b \notin net.macs THEN Infinite ELSE 0)
                 + (IF b \in visited THEN Infinite ELSE 0)

\* A node is reached at a distance that is better than the one it has.
\* Mutants: or as good; or it had none.
Better_OrEqual(old, new) == old >= new
Better_First(old, new) == old = Infinite /\ old > new
Better(old, new) == old > new

\* An entry that was overtaken by a shorter one.
Skip(q) ==
  /\ stage = "search" /\ q \in queue /\ IsTop(q)
  /\ q[1] > distance[q[2]]
  /\ queue' = queue \ {q}
  /\ UNCHANGED <<graph, stage, distance, previous, current, path>>

\* All edges of the nearest node are tried; each is read once.
Visit(q) ==
  LET a == q[2]  row == Row(a) IN
  /\ stage = "search" /\ q \in queue /\ IsTop(q)
  /\ q[1] <= distance[a]
  /\ \E cost \in [row -> UNION {Readings(Edge(a, b)) : b \in row}] :
       LET offer(b) == distance[a] + cost[b] + Penalty(a, b)
           reached == {b \in row : Better(distance[b], offer(b))}
       IN /\ \A b \in row : cost[b] \in Readings(Edge(a, b))
          /\ distance' = [v \in Slots |-> IF v \in reached THEN offer(v) ELSE distance[v]]
          /\ previous' = [v \in Slots |-> IF v \in reached THEN a ELSE previous[v]]
          /\ queue' = (queue \ {q}) \cup {<<offer(b), b>> : b \in reached}
  /\ UNCHANGED <<graph, stage, current, path>>

\* The vectors have no place for a destination beyond max_address.
Found ==
  /\ stage = "search" /\ queue = {}
  /\ stage' = IF to \in Slots THEN "walk" ELSE "undefined"
  /\ current' = to
  /\ UNCHANGED <<graph, queue, distance, previous, path>>

Walk ==
  /\ stage = "walk" /\ previous[current] # 0
  /\ path' = <<current>> \o path
  /\ current' = previous[current]
  /\ UNCHANGED <<graph, stage, queue, distance, previous>>

Return ==
  /\ stage = "walk" /\ previous[current] = 0
  /\ stage' = "done"
  /\ UNCHANGED <<graph, queue, distance, previous, current, path>>

Next == (\E q \in queue : Skip(q) \/ Visit(q)) \/ Found \/ Walk \/ Return

Spec == Init /\ [][Next]_vars

\* The thread that runs path() goes on.
FairSpec == Spec /\ WF_vars(Next)

-----------------------------------------------------------------------------
(* Dispatcher::timeout() *)

\* What an edge adds.  The difference is unsigned: it is 0 or positive.
\* Mutant: an edge without retries adds nothing.
EdgeTime_NoBase(p) ==
  LET spread == (p.good + Width - p.retries) % Width
  IN (p.delay * (p.retries \div (IF spread > 0 THEN spread ELSE 1))) % Width
EdgeTime(p) ==
  LET spread == (p.good + Width - p.retries) % Width
  IN (p.delay * (1 + p.retries \div (IF spread > 0 THEN spread ELSE 1))) % Width

\* The edges of a route that starts at Self.
Step(route, i) == Edge(IF i = 1 THEN Self ELSE route[i - 1], route[i])
SumOf(f) ==
  LET sum[i \in 0..Len(f)] == IF i = 0 THEN 0 ELSE sum[i - 1] + f[i] IN sum[Len(f)]

\* A number kept in a signed integer of the same width.
Signed(n) == LET m == n % Width IN IF 2 * m < Width THEN m ELSE m - Width

Timeout(route, relay) ==
  LET time == [i \in 1..Len(route) |-> EdgeTime(params[Step(route, i)])]
      t == Signed(((SumOf(time) % Width) + tv * Len(route))
                  * c * RetransmissionMax)
  IN IF relay THEN Signed(t * TimeoutMultiplier) ELSE t

-----------------------------------------------------------------------------
(* Properties *)

TypeOK ==
  /\ net \in Networks(Nodes)
  /\ DOMAIN params = {e \in net.neighbours : e[1] < e[2]} /\ DOMAIN written = DOMAIN params
  /\ \A e \in DOMAIN params : params[e] \in Parameters /\ written[e] \in Parameters
  /\ to \in 1..254 /\ visited \subseteq Nodes
  /\ stage \in {"search", "walk", "done", "undefined"}
  /\ queue \subseteq Nat \X Nodes
  /\ distance \in [Slots -> Nat] /\ previous \in [Slots -> Nodes \cup {0}]
  /\ current \in 0..254 /\ path \in Seq(Nodes)

\* No set of nodes ever leads only to itself: the loop that reads the route off
\* `previous' ends, although the costs change under the search and many are equal, 0 for
\* every edge that was never used (network.cpp:203-219).
NoLoop == \A S \in SUBSET (Slots \ {0}) : S # {} => \E v \in S : previous[v] \notin S

\* The route that is returned leads from this node to the destination over edges of the
\* graph, visits no node twice and none that the packet has visited, and starts with a
\* neighbour whose MAC is known: the frame can be addressed (dispatcher.cpp:42).
CleanPath == stage = "done" /\ path # <<>> =>
  /\ path[1] \in Row(Self) /\ path[1] \in net.macs
  /\ \A i \in 2..Len(path) : path[i] \in Row(path[i - 1])
  /\ path[Len(path)] = to
  /\ \A i \in 1..Len(path) : path[i] \notin visited /\ path[i] # Self
  /\ \A i, j \in 1..Len(path) : path[i] = path[j] => i = j

\* The routes path() may return.
CleanRoutes ==
  {r \in UNION {[1..n -> Nodes \ (visited \cup {Self})] : n \in 1..Cardinality(Nodes)} :
     /\ r[1] \in Row(Self) \cap net.macs
     /\ \A i \in 2..Len(r) : r[i] \in Row(r[i - 1])
     /\ r[Len(r)] = to
     /\ \A i, j \in 1..Len(r) : r[i] = r[j] => i = j}
Cost(r) == SumOf([i \in 1..Len(r) |-> Antireliability(params[Step(r, i)])])

\* Unless an update is in progress, the route returned is one of the cheapest clean ones
\* (network.h:254-258), and none is returned exactly if each of them costs too much: there
\* is no other way out, not even the ones network.h:260-263 names.  Only a destination
\* that the graph does not know is looked for beyond the vectors.
Cheapest ==
  /\ stage = "done" /\ written = params =>
       /\ path # <<>> => path \in CleanRoutes /\ \A r \in CleanRoutes : Cost(path) <= Cost(r)
       /\ path = <<>> => \A r \in CleanRoutes : Cost(r) >= Infinite
  /\ stage = "undefined" => to \notin net.nodes

\* As long as no counter wraps, a failure never makes an edge look better, and a
\* delivery without retries never makes it look worse (network.cpp:111-113).
StatusCounts == \A e \in DOMAIN params :
  LET p == params[e]  w == written[e] IN
  p.good <= w.good /\ w.good + 1 < Width /\ p.errors <= w.errors /\ p.retries <= w.retries
    /\ w.retries * (w.errors + 1) < Width =>
    /\ w.errors > p.errors => Antireliability(w) >= Antireliability(p)
    /\ w.errors = p.errors /\ w.retries = p.retries => Antireliability(w) <= Antireliability(p)

\* Unless the time does not fit its 32 bits, a packet waits for its ACK at least as long
\* as it takes all frames of all its transmissions to cross the route, also where there
\* were more retries than deliveries (dispatcher.cpp:290-299).
TimeoutCovers == stage = "done" /\ path # <<>> =>
  LET edge(i) == params[Step(path, i)]
      delay == [i \in 1..Len(path) |-> edge(i).delay]
      slack == [i \in 1..Len(path) |-> edge(i).delay * (1 + edge(i).retries)]
      most == (SumOf(slack) + tv * Len(path)) * c * RetransmissionMax
                * TimeoutMultiplier
  IN 2 * most < Width => \A relay \in BOOLEAN :
       Timeout(path, relay) >= SumOf(delay) * c * RetransmissionMax

\* path() returns, also when the costs change while it runs.
Returns == <>(stage \in {"done", "undefined"})

=============================================================================
