------------------------------ MODULE Network ------------------------------
(***************************************************************************)
(* The graph a node keeps of the network (class Network), as a value and   *)
(* its operations.  A network is a record:                                 *)
(*   nodes        keys of Network::nodes                                   *)
(*   macs         those whose Node::mac is known, that is, not 0           *)
(*   fresh        those whose Node::last_tick is less than 20 s old        *)
(*   rows         keys of Network::neighbours; a row that has become empty *)
(*                is never removed                                         *)
(*   neighbours   <<a, b>> for every b in the row of a: each edge is there *)
(*                twice, and the code keeps the two in step by hand        *)
(*   max_address  Network::max_address, which bounds the vectors of path() *)
(* The parameters of an edge are left out, and so is the MAC of the node   *)
(* itself, which no operation looks at.                                    *)
(***************************************************************************)
EXTENDS Integers

\* Networks of the given addresses; 0 and 255 are never added (network.cpp:60, 123).
Networks(addresses) ==
  [nodes : SUBSET addresses, macs : SUBSET addresses, fresh : SUBSET addresses,
   rows : SUBSET addresses, neighbours : SUBSET (addresses \X addresses),
   max_address : 0..254]

Bigger(x, y) == IF x > y THEN x ELSE y

\* The two entries of an edge.
Both(a, b) == {<<a, b>>, <<b, a>>}

AddNode(net, a) ==
  IF a \in net.nodes THEN net
  ELSE [net EXCEPT !.nodes = @ \union {a},
                   !.fresh = @ \union {a},
                   !.max_address = Bigger(a, @)]

\* Network::Network(self), before Router finds out the MAC of self.
NewNetwork(self) ==
  AddNode([nodes |-> {}, macs |-> {}, fresh |-> {}, rows |-> {}, neighbours |-> {},
           max_address |-> 0], self)

\* The result of add_edge is true if any of the three is new.
NewEdge(net, a, b) ==
  a # b /\ (a \notin net.rows \/ b \notin net.rows \/ <<a, b>> \notin net.neighbours)

AddEdge(net, a, b) ==
  IF a = b THEN net
  ELSE LET known == AddNode(AddNode(net, a), b)
       IN [known EXCEPT
             !.rows = @ \union {a, b},
             !.neighbours = IF <<a, b>> \in @ THEN @ ELSE @ \union Both(a, b)]

\* Edges that takes two rows for an edge.
Edges_OfRows(net) == {e \in net.rows \X net.rows : e[1] < e[2]}

\* graph(): every edge once.
Edges(net) == {e \in net.neighbours : e[1] < e[2]}

\* merge() adds the edges one by one; as each only adds what is missing, the order
\* does not show in the result.
Highest(S) == CHOOSE m \in S : \A x \in S : x <= m
Ends(edges) == {e[1] : e \in edges} \union {e[2] : e \in edges}
AddsNothing(net, edges) == \A e \in edges : ~NewEdge(net, e[1], e[2])
Merge(net, edges) ==
  LET new == Ends(edges) \ net.nodes
  IN [net EXCEPT
        !.nodes = @ \union new,
        !.fresh = @ \union new,
        !.rows = @ \union Ends(edges),
        !.neighbours = @ \union UNION {Both(e[1], e[2]) : e \in edges \ @},
        !.max_address = Highest(new \union {@})]

(***************************************************************************)
(* drop() looks both rows up.  A row it does not find is an end iterator,  *)
(* which it dereferences: no result, the process ends.  Otherwise it takes *)
(* the two entries out and then erases each end whose row is empty, be it  *)
(* since now or since long ago.                                            *)
(***************************************************************************)
CanDrop(net, a, b) == a \in net.rows /\ b \in net.rows

Drops(net, a, b) == net.neighbours \intersect Both(a, b) # {}

Lonely(net, a) == \A e \in net.neighbours : e[1] # a

\* Drop that erases the rows of both ends.
Drop_Rows(net, a, b) ==
  [net EXCEPT !.neighbours = {e \in @ : {e[1], e[2]} \intersect {a, b} = {}}]

\* Drop that erases both nodes, whatever edges they have left.
Drop_BothNodes(net, a, b) ==
  [net EXCEPT !.neighbours = @ \ Both(a, b),
              !.nodes = @ \ {a, b}, !.macs = @ \ {a, b}, !.fresh = @ \ {a, b}]

\* Drop that lowers max_address whenever a loses its last edge.
Drop_Lowers(net, a, b) ==
  LET cut == [net EXCEPT !.neighbours = @ \ Both(a, b)]
      erased == {x \in {a, b} : Lonely(cut, x)}
  IN [cut EXCEPT !.nodes = @ \ erased, !.macs = @ \ erased, !.fresh = @ \ erased,
                 !.max_address = IF a \in erased THEN @ - 1 ELSE @]

Drop(net, a, b) ==
  LET cut == [net EXCEPT !.neighbours = @ \ Both(a, b)]
      erased == {x \in {a, b} : Lonely(cut, x)}
  IN [cut EXCEPT !.nodes = @ \ erased,
                 !.macs = @ \ erased,
                 !.fresh = @ \ erased,
                 !.max_address = IF a \in erased /\ a = @ THEN @ - 1 ELSE @]

(***************************************************************************)
(* What path() takes for granted when it follows the rows of neighbours:   *)
(* each edge can be walked both ways, both of its ends have a row and a    *)
(* Node to read the MAC of, and the vectors, max_address + 1 long, have a  *)
(* place for every node.                                                   *)
(***************************************************************************)
Sound(net) ==
  /\ \A e \in net.neighbours : <<e[2], e[1]>> \in net.neighbours /\ e[1] # e[2]
  /\ \A e \in net.neighbours : e[1] \in net.rows \intersect net.nodes
  /\ \A x \in net.nodes : x <= net.max_address
=============================================================================
