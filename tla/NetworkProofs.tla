--------------------------- MODULE NetworkProofs ---------------------------
(***************************************************************************)
(* What the operations on a network keep, for every set of addresses: its  *)
(* type and that it is Sound.                                              *)
(***************************************************************************)
EXTENDS Network, WellFoundedInduction, TLAPS

\* A sound network of the given addresses.
SoundNetwork(net, N) == net \in Networks(N) /\ Sound(net)

\* A non-empty set of addresses has a highest one: the least of its upper bounds.
LEMMA HighestExists ==
  ASSUME NEW S \in SUBSET (0..254), S # {}
  PROVE  Highest(S) \in S /\ \A x \in S : x <= Highest(S)
<1> DEFINE U == {u \in Nat : \A x \in S : x <= u}
<1>1. \E m \in U : \A y \in U : ~(<<y, m>> \in OpToRel(<, Nat))
  <2>1. 254 \in U /\ U \subseteq Nat
    OBVIOUS
  <2>2. IsWellFoundedOn(OpToRel(<, Nat), Nat)
    BY NatLessThanWellFounded
  <2> HIDE DEF U
  <2> QED BY <2>1, <2>2, WFMin
<1>2. PICK m \in U : \A y \in U : ~(y < m)
  BY <1>1 DEF OpToRel
<1>3. m \in S
  <2> SUFFICES ASSUME m \notin S PROVE FALSE
    OBVIOUS
  <2>1. PICK x \in S : TRUE
    OBVIOUS
  <2>2. \A y \in S : y < m
    OBVIOUS
  <2>3. m - 1 \in U
    BY <2>1, <2>2
  <2> QED BY <2>3, <1>2
<1>4. \E h \in S : \A x \in S : x <= h
  BY <1>3
<1> QED BY <1>4 DEF Highest

LEMMA AddNodeSound ==
  ASSUME NEW N \in SUBSET (1..254), NEW net, SoundNetwork(net, N), NEW a \in N
  PROVE  /\ SoundNetwork(AddNode(net, a), N)
         /\ a \in AddNode(net, a).nodes
         /\ net.nodes \subseteq AddNode(net, a).nodes
<1>1. CASE a \in net.nodes
  BY <1>1 DEF AddNode
<1>2. CASE a \notin net.nodes
  <2> DEFINE top == Bigger(a, net.max_address)
             more == [net EXCEPT !.nodes = @ \union {a}, !.fresh = @ \union {a},
                                 !.max_address = top]
  <2>1. AddNode(net, a) = more
    BY <1>2 DEF AddNode
  <2>2. top \in 0..254 /\ a <= top /\ \A x \in net.nodes : x <= top
    BY DEF Bigger, SoundNetwork, Networks, Sound
  <2> HIDE DEF top
  <2>3. more \in Networks(N) /\ a \in more.nodes /\ net.nodes \subseteq more.nodes
    BY <2>2 DEF SoundNetwork, Networks
  <2>4. more.neighbours = net.neighbours /\ more.rows = net.rows
        /\ more.nodes = net.nodes \union {a} /\ more.max_address = top
    BY DEF SoundNetwork, Networks
  <2>5. Sound(more)
    BY <2>2, <2>4 DEF SoundNetwork, Sound
  <2> QED BY <2>1, <2>3, <2>5 DEF SoundNetwork
<1> QED BY <1>1, <1>2

LEMMA NewNetworkSound ==
  ASSUME NEW N \in SUBSET (1..254), NEW self \in N
  PROVE  SoundNetwork(NewNetwork(self), N)
<1> DEFINE empty == [nodes |-> {}, macs |-> {}, fresh |-> {}, rows |-> {}, neighbours |-> {},
                     max_address |-> 0]
<1>1. SoundNetwork(empty, N)
  BY DEF SoundNetwork, Networks, Sound
<1>2. NewNetwork(self) = AddNode(empty, self)
  BY DEF NewNetwork
<1> HIDE DEF empty
<1> QED BY <1>1, <1>2, AddNodeSound

\* Which MACs are known and which nodes are fresh does not matter to path().
LEMMA NotesSound ==
  ASSUME NEW N \in SUBSET (1..254), NEW net, SoundNetwork(net, N), NEW S \in SUBSET N
  PROVE  /\ SoundNetwork([net EXCEPT !.macs = S], N)
         /\ SoundNetwork([net EXCEPT !.fresh = S], N)
BY DEF SoundNetwork, Networks, Sound

\* Rows and neighbours change together.
LEMMA RowsSound ==
  ASSUME NEW N \in SUBSET (1..254), NEW net, SoundNetwork(net, N),
         NEW R \in SUBSET net.nodes, NEW P \in SUBSET (N \X N),
         \A e \in P : <<e[2], e[1]>> \in P /\ e[1] # e[2] /\ e[1] \in net.rows \union R,
         \A e \in P : e[1] \in net.nodes
  PROVE  SoundNetwork([net EXCEPT !.rows = @ \union R, !.neighbours = P], N)
BY DEF SoundNetwork, Networks, Sound

LEMMA AddEdgeSound ==
  ASSUME NEW N \in SUBSET (1..254), NEW net, SoundNetwork(net, N), NEW a \in N, NEW b \in N
  PROVE  SoundNetwork(AddEdge(net, a, b), N)
<1> DEFINE known == AddNode(AddNode(net, a), b)
           pairs == IF <<a, b>> \in known.neighbours THEN known.neighbours
                    ELSE known.neighbours \union Both(a, b)
<1>1. SoundNetwork(known, N) /\ a \in known.nodes /\ b \in known.nodes
  <2>1. SoundNetwork(AddNode(net, a), N) /\ a \in AddNode(net, a).nodes
    BY AddNodeSound
  <2> QED BY <2>1, AddNodeSound
<1> HIDE DEF known
<1>2. CASE a = b
  BY <1>2 DEF AddEdge
<1>3. CASE a # b
  <2>1. AddEdge(net, a, b) = [known EXCEPT !.rows = @ \union {a, b}, !.neighbours = pairs]
    BY <1>3 DEF AddEdge, known
  <2>2. /\ known.neighbours \in SUBSET (N \X N)
        /\ \A e \in known.neighbours : /\ <<e[2], e[1]>> \in known.neighbours /\ e[1] # e[2]
                                       /\ e[1] \in known.rows \intersect known.nodes
    BY <1>1 DEF SoundNetwork, Networks, Sound
  <2>3. \A e \in pairs : e \in known.neighbours \/ e = <<a, b>> \/ e = <<b, a>>
    BY DEF Both
  <2>4. pairs \in SUBSET (N \X N)
    BY <2>2, <2>3
  <2>5. known.neighbours \subseteq pairs /\ (pairs = known.neighbours \/ Both(a, b) \subseteq pairs)
    OBVIOUS
  <2> HIDE DEF pairs
  <2>6. ASSUME NEW e \in pairs
        PROVE  <<e[2], e[1]>> \in pairs /\ e[1] # e[2]
               /\ e[1] \in known.rows \union {a, b} /\ e[1] \in known.nodes
    <3>1. CASE e \in known.neighbours
      BY <2>2, <2>5, <3>1
    <3>2. CASE e \notin known.neighbours
      <4>1. Both(a, b) \subseteq pairs /\ (e = <<a, b>> \/ e = <<b, a>>)
        BY <2>3, <2>5, <3>2
      <4> QED BY <1>1, <1>3, <4>1 DEF Both
    <3> QED BY <3>1, <3>2
  <2> DEFINE R == {a, b}
  <2>7. R \in SUBSET known.nodes
    BY <1>1
  <2>8. \A e \in pairs : <<e[2], e[1]>> \in pairs /\ e[1] # e[2] /\ e[1] \in known.rows \union R
    BY <2>6
  <2>9. \A e \in pairs : e[1] \in known.nodes
    BY <2>6
  <2> HIDE DEF R
  <2>10. SoundNetwork([known EXCEPT !.rows = @ \union R, !.neighbours = pairs], N)
    BY <1>1, <2>4, <2>7, <2>8, <2>9, RowsSound
  <2> QED BY <2>1, <2>10 DEF R
<1> QED BY <1>2, <1>3

LEMMA MergeSound ==
  ASSUME NEW N \in SUBSET (1..254), NEW net, SoundNetwork(net, N),
         NEW edges \in SUBSET (N \X N), \A e \in edges : e[1] # e[2]
  PROVE  SoundNetwork(Merge(net, edges), N)
<1> DEFINE new == Ends(edges) \ net.nodes
           added == UNION {Both(e[1], e[2]) : e \in edges \ net.neighbours}
           top == Highest(new \union {net.max_address})
           merged == [net EXCEPT !.nodes = @ \union new,
                                 !.fresh = @ \union new,
                                 !.rows = @ \union Ends(edges),
                                 !.neighbours = @ \union added,
                                 !.max_address = top]
<1>1. Merge(net, edges) = merged
  BY DEF Merge
<1>2. new \subseteq N /\ Ends(edges) \subseteq N
  BY DEF Ends
<1>3. top \in 0..254 /\ \A x \in new \union {net.max_address} : x <= top
  <2>1. net.max_address \in 0..254 /\ N \subseteq 0..254
    BY DEF SoundNetwork, Networks
  <2> HIDE DEF new
  <2>2. new \union {net.max_address} \in SUBSET (0..254)
    BY <1>2, <2>1
  <2> QED BY <2>2, HighestExists
<1>4. /\ added \subseteq N \X N
      /\ \A e \in added : /\ <<e[2], e[1]>> \in added /\ e[1] # e[2]
                          /\ e[1] \in Ends(edges)
  BY DEF Both, Ends
<1> HIDE DEF new, added, top
<1>5. merged \in Networks(N)
  BY <1>2, <1>3, <1>4 DEF SoundNetwork, Networks
<1>6. /\ merged.nodes = net.nodes \union new
      /\ merged.rows = net.rows \union Ends(edges)
      /\ merged.neighbours = net.neighbours \union added
      /\ merged.max_address = top
  BY DEF SoundNetwork, Networks
<1> HIDE DEF merged
<1>7. \A x \in merged.nodes : x <= merged.max_address
  <2>1. PICK m \in Int : m = net.max_address
    BY DEF SoundNetwork, Networks
  <2>2. m <= top /\ top \in Int
    BY <1>3, <2>1
  <2>3. \A x \in net.nodes : x \in Int /\ x <= m
    BY <2>1 DEF SoundNetwork, Networks, Sound
  <2>4. \A x \in net.nodes : x <= top
    BY <2>2, <2>3
  <2> QED BY <2>4, <1>3, <1>6
<1>8. \A e \in merged.neighbours : <<e[2], e[1]>> \in merged.neighbours /\ e[1] # e[2]
  BY <1>4, <1>6 DEF SoundNetwork, Sound
<1>9. \A e \in merged.neighbours : e[1] \in merged.rows \intersect merged.nodes
  BY <1>4, <1>6 DEF SoundNetwork, Sound, new
<1> QED BY <1>1, <1>5, <1>7, <1>8, <1>9 DEF SoundNetwork, Sound

\* drop() erases a node that has no edge left, and lowers max_address past that node only.
LEMMA DropSound ==
  ASSUME NEW N \in SUBSET (1..254), NEW net, SoundNetwork(net, N), NEW a \in N, NEW b \in N
  PROVE  SoundNetwork(Drop(net, a, b), N)
<1> DEFINE cut == [net EXCEPT !.neighbours = @ \ Both(a, b)]
           erased == {x \in {a, b} : Lonely(cut, x)}
           top == IF a \in erased /\ a = cut.max_address
                  THEN cut.max_address - 1 ELSE cut.max_address
           lower == [cut EXCEPT !.nodes = @ \ erased,
                                !.macs = @ \ erased,
                                !.fresh = @ \ erased,
                                !.max_address = top]
<1>1. Drop(net, a, b) = lower
  BY DEF Drop
<1>2. cut \in Networks(N) /\ Sound(cut)
  BY DEF SoundNetwork, Networks, Sound, Both
<1>3. \A e \in cut.neighbours : e[1] \notin erased
  BY DEF Lonely
<1> HIDE DEF cut, erased
<1>4. /\ cut.max_address \in 0..254
      /\ cut.nodes \subseteq 1..254
      /\ \A x \in cut.nodes : x <= cut.max_address
  <2>1. cut.max_address \in 0..254 /\ cut.nodes \subseteq N
    BY <1>2 DEF Networks
  <2>2. \A x \in cut.nodes : x <= cut.max_address
    BY <1>2 DEF Sound
  <2> QED BY <2>1, <2>2
<1>5. top \in 0..254 /\ \A x \in cut.nodes \ erased : x <= top
  <2>1. CASE a \in erased /\ a = cut.max_address
    <3>1. a \in 1..254 /\ top = a - 1
      BY <2>1
    <3>2. \A x \in cut.nodes \ erased : x \in 1..254 /\ x <= a /\ x # a
      BY <1>4, <2>1
    <3> QED BY <3>1, <3>2
  <2>2. CASE ~(a \in erased /\ a = cut.max_address)
    BY <1>4, <2>2
  <2> QED BY <2>1, <2>2
<1> HIDE DEF top
<1>6. lower \in Networks(N)
  BY <1>2, <1>5 DEF Networks
<1>7. /\ lower.neighbours = cut.neighbours /\ lower.rows = cut.rows
      /\ lower.nodes = cut.nodes \ erased /\ lower.max_address = top
  BY <1>2 DEF Networks
<1> HIDE DEF lower
<1>8. Sound(lower)
  BY <1>2, <1>3, <1>5, <1>7 DEF Sound
<1> QED BY <1>1, <1>6, <1>8 DEF SoundNetwork
=============================================================================
