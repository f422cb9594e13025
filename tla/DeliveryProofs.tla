--------------------------- MODULE DeliveryProofs ---------------------------
(***************************************************************************)
(* Theorems about Delivery for every network, every length of the message, *)
(* every retransmission limit and every number of copies in the air.       *)
(*                                                                         *)
(* The inductive invariant says which routes the copies of the packet may  *)
(* have behind them, wherever such a route is kept: in the entry of a      *)
(* node, in a frame of its radio or in a copy that has arrived.            *)
(***************************************************************************)
EXTENDS Delivery, FiniteSetTheorems, TLAPS

\* A route a copy may have behind it when node n holds it: no node twice, the target
\* never, each hop crossed by some copy, and n at the end of it.
Distinct(r) == \A i, j \in 1..Len(r) : r[i] = r[j] => i = j
Avoids(r, n) == \A i \in 1..Len(r) : r[i] # n
Walked(r) == \A i \in 1..Len(r) : <<IF i = 1 THEN Source ELSE r[i - 1], r[i]>> \in crossed
EndsAt(r, n) == IF r = <<>> THEN n = Source ELSE r[Len(r)] = n
Behind(r, n) == Distinct(r) /\ Avoids(r, Target) /\ Walked(r) /\ EndsAt(r, n)

EntriesOK == \A n \in Nodes :
  /\ at[n].tracked => Behind(at[n].visited, n) /\ n # Target
  /\ at[n].armed => at[n].tracked
  /\ at[n].counter <= RetransmissionMax
FramesOK == \A f \in frames :
  /\ Behind(f.visited, f.node) /\ Avoids(f.visited, f.hop)
  /\ f.node # Target
  /\ f.entry = "live" => at[f.node].tracked
CopiesOK == \A c \in copies :
  /\ Behind(c.visited, c.from) /\ Avoids(c.visited, c.to)
  /\ <<c.from, c.to>> \in crossed
\* The target has published the packet or is about to; the ACKs on the way are ones that
\* may be there.
Known == delivered > 0 \/ delivering
AcksOK == \A m, n \in Nodes : acks[<<m, n>>] > 0 => Known /\ <<n, m>> \in crossed
SuccessOK == acked => Known

\* Each time the source is given the packet, it has one outcome, or has one coming.
One(b) == IF b THEN 1 ELSE 0
Settled == reported + One(acked) + One(at[Source].tracked) <= received[Source]

\* The frames sent and those an entry has left.
Left(n) == IF at[n].tracked THEN RetransmissionMax - at[n].counter ELSE 0
Budget == \A n \in Nodes : sent[n] + Left(n) <= (1 + RetransmissionMax) * received[n]

Inv == TypeOK /\ EntriesOK /\ FramesOK /\ CopiesOK /\ AcksOK /\ SuccessOK /\ Settled /\ Budget

-----------------------------------------------------------------------------
(* Types: what the helpers and then the actions assign.                      *)

LEMMA EntryType == \A n \in Nodes : TypeOK => at[n] \in Entry
BY DEF TypeOK

LEMMA WatchType ==
  ASSUME TypeOK, NEW n \in Nodes, NEW hop \in Nodes, NEW r \in Seq(Nodes),
         WatchAndSend(n, hop, r)
  PROVE  /\ at' \in [Nodes -> Entry] /\ frames' \subseteq Frame /\ sent' \in [Nodes -> Nat]
<1> DEFINE new == [tracked |-> TRUE, visited |-> r, counter |-> at[n].counter,
                   armed |-> at[n].armed, newest |-> sent[n] + 1]
           f == [node |-> n, nth |-> sent[n] + 1, hop |-> hop, visited |-> r,
                 radio |-> "busy", entry |-> "live"]
<1>1. sent[n] \in Nat /\ at[n] \in Entry
  BY DEF TypeOK
<1>2. new \in Entry
  BY <1>1 DEF Entry
<1>3. f \in Frame
  BY <1>1 DEF Frame
<1>4. at' = [at EXCEPT ![n] = new] /\ frames' = frames \cup {f}
      /\ sent' = [sent EXCEPT ![n] = @ + 1]
  BY DEF WatchAndSend, TypeOK
<1> HIDE DEF new, f
<1> QED BY <1>2, <1>3, <1>4 DEF TypeOK

LEMMA RetransmitType ==
  ASSUME TypeOK, NEW n \in Nodes, NEW hop \in Nodes, NEW rest \in SUBSET frames,
         Retransmit(n, hop, rest)
  PROVE  /\ at' \in [Nodes -> Entry] /\ frames' \subseteq Frame /\ sent' \in [Nodes -> Nat]
<1> DEFINE new == [tracked |-> TRUE, visited |-> at[n].visited,
                   counter |-> at[n].counter + 1, armed |-> FALSE, newest |-> sent[n] + 1]
           f == [node |-> n, nth |-> sent[n] + 1, hop |-> hop, visited |-> at[n].visited,
                 radio |-> "busy", entry |-> "live"]
           old == {IF g.node = n /\ g.nth = at[n].newest THEN [g EXCEPT !.entry = "none"]
                   ELSE g : g \in rest}
<1>1. sent[n] \in Nat /\ at[n] \in Entry
  BY DEF TypeOK
<1>2. new \in Entry
  BY <1>1 DEF Entry
<1>3. f \in Frame
  BY <1>1 DEF Frame, Entry
<1>4. \A g \in frames : [g EXCEPT !.entry = "none"] \in Frame
  BY DEF TypeOK, Frame
<1>5. old \subseteq Frame
  BY <1>4 DEF TypeOK
<1>6. at' = [at EXCEPT ![n] = new] /\ frames' = old \cup {f}
      /\ sent' = [sent EXCEPT ![n] = @ + 1]
  BY DEF Retransmit, TypeOK
<1> HIDE DEF new, f, old
<1> QED BY <1>2, <1>3, <1>5, <1>6 DEF TypeOK

LEMMA ForgetType ==
  ASSUME TypeOK, NEW n \in Nodes, NEW nth, NEW rest \in SUBSET frames, Forget(n, nth, rest)
  PROVE  /\ at' \in [Nodes -> Entry] /\ frames' \subseteq Frame
<1>1. Blank \in Entry
  BY DEF Blank, Entry
<1>2. \A g \in frames : \A e \in {"none", "dangling"} : [g EXCEPT !.entry = e] \in Frame
  BY DEF TypeOK, Frame
<1> QED BY <1>1, <1>2 DEF TypeOK, Forget

LEMMA HopsType == \A n \in Nodes : \A r : Hops(n, r) \subseteq Nodes
BY DeliveryAssumption DEF Hops

LEMMA ReportType == ASSUME TypeOK, NEW n, Report(n) PROVE reported' \in Nat
BY DEF TypeOK, Report

LEMMA InitType == ASSUME Init PROVE TypeOK
<1>1. Blank \in Entry
  BY DEF Blank, Entry
<1>2. length \in Byte
  BY DEF Init, Byte
<1> QED BY <1>1, <1>2 DEF Init, TypeOK

LEMMA StartType == ASSUME TypeOK, NEW l \in MessageLengths, Start(l) PROVE TypeOK'
<1>1. Source \in Nodes /\ <<>> \in Seq(Nodes) /\ l % 256 \in Byte
  BY DeliveryAssumption DEF Byte
<1>2. received' \in [Nodes -> Nat]
  BY DEF Start, TypeOK
<1>3. at' \in [Nodes -> Entry] /\ frames' \subseteq Frame /\ sent' \in [Nodes -> Nat]
      /\ reported' \in Nat
  BY <1>1, WatchType, HopsType, ReportType DEF Start, TypeOK
<1> QED BY <1>1, <1>2, <1>3 DEF Start, TypeOK, air

LEMMA RelayType == ASSUME TypeOK, NEW c \in copies, Relay(c) PROVE TypeOK'
<1>1. c.to \in Nodes /\ Append(c.visited, c.to) \in Seq(Nodes)
  BY DEF TypeOK, Copy
<1>2. received' \in [Nodes -> Nat] /\ copies' \subseteq Copy
  BY <1>1 DEF Relay, TypeOK
<1>3. at' \in [Nodes -> Entry] /\ frames' \subseteq Frame /\ sent' \in [Nodes -> Nat]
      /\ reported' \in Nat
  BY <1>1, WatchType, HopsType, ReportType DEF Relay, TypeOK
<1> QED BY <1>2, <1>3 DEF Relay, TypeOK, air

LEMMA EndsType == ASSUME TypeOK, NEW n \in Nodes, Ends(n)
  PROVE crashed' \subseteq Nodes
BY DEF Ends, TypeOK

\* The last element of a sequence and the one before it.
LEMMA Indices ==
  ASSUME NEW S, NEW r \in Seq(S), r # <<>>
  PROVE  /\ Len(r) \in 1..Len(r) /\ r[Len(r)] \in S
         /\ Len(r) # 1 => Len(r) - 1 \in 1..Len(r) /\ r[Len(r) - 1] \in S
<1>1. Len(r) \in Nat /\ Len(r) # 0 /\ \A i \in 1..Len(r) : r[i] \in S
  OBVIOUS
<1>2. \A k \in Nat : k # 0 => k \in 1..k /\ (k # 1 => k - 1 \in 1..k)
  OBVIOUS
<1> QED BY <1>1, <1>2

\* The node an ACK goes on to.
LEMMA PassedToType ==
  ASSUME TypeOK, EntriesOK, NEW n \in Nodes, at[n].tracked, n # Source
  PROVE  PassedTo(n) \in Nodes
<1>1. at[n].visited \in Seq(Nodes) /\ at[n].visited # <<>>
  BY EntryType DEF Entry, EntriesOK, Behind, EndsAt
<1> QED BY <1>1, Indices, DeliveryAssumption DEF PassedTo

LEMMA AcksType ==
  ASSUME TypeOK, NEW m \in Nodes, NEW n \in Nodes, NEW k \in Nodes, acks[<<m, n>>] > 0
  PROVE  /\ [acks EXCEPT ![<<m, n>>] = @ - 1] \in [Nodes \X Nodes -> Nat]
         /\ [acks EXCEPT ![<<m, n>>] = @ - 1, ![<<n, k>>] = @ + 1] \in [Nodes \X Nodes -> Nat]
         /\ [acks EXCEPT ![<<n, k>>] = @ + 1] \in [Nodes \X Nodes -> Nat]
BY DEF TypeOK

LEMMA TargetAcksType ==
  ASSUME TypeOK, CopiesOK, NEW c \in copies, TargetAcks(c) PROVE TypeOK'
<1> DEFINE previous == IF c.visited = <<>> THEN Source ELSE c.visited[Len(c.visited)]
<1>1. previous \in Nodes /\ Target \in Nodes
  BY DeliveryAssumption DEF TypeOK, Copy
<1>2. acks' = [acks EXCEPT ![<<Target, previous>>] = @ + 1]
  BY DEF TargetAcks
<1> HIDE DEF previous
<1>3. acks' \in [Nodes \X Nodes -> Nat]
  BY <1>1, <1>2 DEF TypeOK
<1>4. received' \in [Nodes -> Nat] /\ copies' \subseteq Copy /\ delivering' \in BOOLEAN
  BY <1>1 DEF TypeOK, TargetAcks
<1> QED BY <1>3, <1>4 DEF TypeOK, TargetAcks, air, counts

LEMMA TargetDeliversType == ASSUME TypeOK, TargetDelivers PROVE TypeOK'
<1>1. delivering' \in BOOLEAN
  BY DEF TargetDelivers
<1>2. delivered' \in Nat
  BY DEF TargetDelivers, TypeOK
<1>3. UNCHANGED <<length, at, frames, copies, acks, errors, crashed, received, sent>>
  BY DEF TargetDelivers
<1>4. reported' = reported /\ acked' = acked /\ crossed' = crossed /\ carried' = carried
  BY DEF TargetDelivers, air
<1> QED BY <1>1, <1>2, <1>3, <1>4 DEF TypeOK

LEMMA NextType == ASSUME TypeOK, EntriesOK, CopiesOK, [Next]_vars PROVE TypeOK'
<1>1. ASSUME NEW l \in MessageLengths, StartOverrun(l) PROVE TypeOK'
  BY <1>1, EndsType, DeliveryAssumption DEF StartOverrun, Ends, TypeOK, air, counts
<1>2. CASE TargetDelivers
  BY <1>2, TargetDeliversType
<1>3. ASSUME NEW f \in frames, HandleStatus(f) PROVE TypeOK'
  <2>1. f \in Frame /\ f.node \in Nodes /\ frames \ {f} \in SUBSET frames
    BY DEF TypeOK, Frame
  <2>2. CASE StatusUnknown(f)
    BY <2>2 DEF StatusUnknown, TypeOK, air, counts
  <2>3. CASE StatusSuccess(f)
    <3>1. [at[f.node] EXCEPT !.armed = TRUE] \in Entry
      BY <2>1, EntryType DEF Entry
    <3> QED BY <2>1, <2>3, <3>1 DEF StatusSuccess, TypeOK, air, counts
  <2>4. CASE StatusRetry(f)
    BY <2>1, <2>4, RetransmitType, HopsType DEF StatusRetry, TypeOK, air, counts
  <2>5. CASE StatusGiveUp(f)
    <3>1. errors' \subseteq Nodes
      BY <2>1, <2>5, DeliveryAssumption DEF StatusGiveUp, TypeOK
    <3>2. reported' \in Nat /\ at' \in [Nodes -> Entry] /\ frames' \subseteq Frame
      BY <2>1, <2>5, ForgetType, ReportType DEF StatusGiveUp
    <3> QED BY <2>5, <3>1, <3>2 DEF StatusGiveUp, TypeOK, air
  <2>6. CASE StatusDangling(f)
    BY <2>1, <2>6, EndsType DEF StatusDangling, Ends, TypeOK, air, counts
  <2> QED BY <1>3, <2>2, <2>3, <2>4, <2>5, <2>6 DEF HandleStatus
<1>4. ASSUME NEW f \in frames, Radio(f) PROVE TypeOK'
  <2>1. f \in Frame /\ \A x \in {"ok", "error"} : [f EXCEPT !.radio = x] \in Frame
    BY DEF TypeOK, Frame
  <2>2. CASE RadioDelivers(f)
    <3>1. [to |-> f.hop, from |-> f.node, nth |-> f.nth, visited |-> f.visited] \in Copy
      BY <2>1 DEF Frame, Copy
    <3>2. <<f.node, f.hop>> \in Nodes \X Nodes
      BY <2>1 DEF Frame
    <3>3. frames' \subseteq Frame /\ copies' \subseteq Copy
      BY <2>1, <2>2, <3>1 DEF RadioDelivers, TypeOK
    <3>4. crossed' \subseteq Nodes \X Nodes /\ carried' \in Nat
      BY <2>2, <3>2 DEF RadioDelivers, TypeOK
    <3> QED BY <2>2, <3>3, <3>4 DEF RadioDelivers, TypeOK, counts
  <2>3. CASE RadioFails(f)
    BY <2>1, <2>3 DEF RadioFails, TypeOK, counts, air
  <2>4. CASE Overrun(f)
    <3>1. crashed' \subseteq Nodes
      BY <2>1, <2>4 DEF Overrun, TypeOK, Frame
    <3> QED BY <2>1, <2>4, <3>1 DEF Overrun, TypeOK, counts, air
  <2> QED BY <1>4, <2>2, <2>3, <2>4 DEF Radio
<1>5. ASSUME NEW m \in Nodes, NEW n \in Nodes, AckPassedOn(m, n) PROVE TypeOK'
  <2>1. PassedTo(n) \in Nodes
    BY <1>5, PassedToType DEF AckPassedOn
  <2>2. acks' \in [Nodes \X Nodes -> Nat]
    BY <1>5, <2>1, AcksType DEF AckPassedOn, AckArrives
  <2>3. at' \in [Nodes -> Entry] /\ frames' \subseteq Frame
    BY <1>5, ForgetType DEF AckPassedOn
  <2> QED BY <1>5, <2>2, <2>3 DEF AckPassedOn, TypeOK, counts, air
<1>6. ASSUME NEW m \in Nodes, NEW n \in Nodes, AckFault(m, n) PROVE TypeOK'
  BY <1>6, EndsType DEF AckFault, Ends, TypeOK, counts, air
<1>7. ASSUME NEW m \in Nodes, NEW n \in Nodes, AckLost(m, n) PROVE TypeOK'
  BY <1>7, AcksType DEF AckLost, TypeOK, counts, air
<1>8. ASSUME NEW m \in Nodes, AckSettles(m) PROVE TypeOK'
  <2>1. acks' \in [Nodes \X Nodes -> Nat]
    BY <1>8, AcksType, DeliveryAssumption DEF AckSettles, AckArrives
  <2>2. at' \in [Nodes -> Entry] /\ frames' \subseteq Frame
    BY <1>8, ForgetType, DeliveryAssumption DEF AckSettles
  <2> QED BY <1>8, <2>1, <2>2 DEF AckSettles, TypeOK, air
<1>9. ASSUME NEW n \in Nodes, TickErase(n) PROVE TypeOK'
  <2>1. reported' \in Nat /\ at' \in [Nodes -> Entry] /\ frames' \subseteq Frame
    BY <1>9, ForgetType, ReportType DEF TickErase
  <2> QED BY <1>9, <2>1 DEF TickErase, TypeOK, air
<1>10. CASE TickRetransmit
  BY <1>10, RetransmitType, HopsType, DeliveryAssumption
     DEF TickRetransmit, TypeOK, air, counts
<1>11. ASSUME NEW n \in Nodes, ErrorAckArrives(n) PROVE TypeOK'
  BY <1>11, EndsType DEF ErrorAckArrives, Ends, TypeOK, counts, air
<1>12. CASE UNCHANGED vars
  BY <1>12 DEF vars, TypeOK, counts, air
<1> QED
  BY <1>1, <1>2, <1>3, <1>4, <1>5, <1>6, <1>7, <1>8, <1>9, <1>10, <1>11, <1>12,
     StartType, RelayType, TargetAcksType DEF Next, Tick

-----------------------------------------------------------------------------
(* Routes.                                                                   *)

LEMMA StillBehind ==
  ASSUME crossed \subseteq crossed'
  PROVE  \A r, n : Behind(r, n) => Behind(r, n)'
BY DEF Behind, Distinct, Avoids, Walked, EndsAt

LEMMA HopsAvoid == \A n \in Nodes : \A r : \A h \in Hops(n, r) : h \in Nodes /\ Avoids(r, h)
BY DeliveryAssumption DEF Hops, Avoids

LEMMA EmptyBehind == Behind(<<>>, Source)
BY DEF Behind, Distinct, Avoids, Walked, EndsAt

\* A copy that reaches a relay goes on with the relay at the end of its route.
LEMMA Longer ==
  ASSUME NEW r \in Seq(Nodes), NEW m \in Nodes, NEW n \in Nodes, Behind(r, m), Avoids(r, n),
         n # Target, <<m, n>> \in crossed
  PROVE  Behind(Append(r, n), n)
<1> DEFINE s == Append(r, n)
           k == Len(r)
<1>1. Len(s) = k + 1 /\ s[k + 1] = n /\ \A i \in 1..k : s[i] = r[i]
  OBVIOUS
<1>2. s # <<>>
  OBVIOUS
<1>3. k \in Nat /\ Len(r) = k
  OBVIOUS
<1> HIDE DEF s, k
<1>4. Len(s) = k + 1 /\ s[k + 1] = n /\ \A i \in 1..k : s[i] = r[i]
  BY <1>1, <1>3
<1>5. \A i \in 1..(k + 1) : i \in 1..k \/ i = k + 1
  BY <1>3
<1>6. Distinct(s)
  BY <1>3, <1>4, <1>5 DEF Behind, Distinct, Avoids
<1>7. Avoids(s, Target)
  BY <1>3, <1>4, <1>5 DEF Behind, Avoids
<1>8. <<IF k + 1 = 1 THEN Source ELSE s[k], s[k + 1]>> \in crossed
  <2>1. CASE k = 0
    BY <2>1, <1>3, <1>4 DEF Behind, EndsAt
  <2>2. CASE k # 0
    <3>1. r # <<>> /\ k \in 1..k
      BY <2>2, <1>3
    <3> QED BY <2>2, <3>1, <1>3, <1>4 DEF Behind, EndsAt
  <2> QED BY <2>1, <2>2
<1>9. Walked(s)
  <2> SUFFICES ASSUME NEW i \in 1..Len(s)
               PROVE <<IF i = 1 THEN Source ELSE s[i - 1], s[i]>> \in crossed
    BY DEF Walked
  <2>1. CASE i \in 1..k
    <3>1. i # 1 => i - 1 \in 1..k
      BY <2>1, <1>3
    <3> QED BY <2>1, <3>1, <1>3, <1>4 DEF Behind, Walked
  <2>2. CASE i = k + 1
    <3>1. (i = 1 <=> k + 1 = 1) /\ i - 1 = k
      BY <2>2, <1>3
    <3> QED BY <2>2, <3>1, <1>8
  <2> QED BY <2>1, <2>2, <1>4, <1>5
<1>10. EndsAt(s, n)
  BY <1>1, <1>2, <1>3 DEF EndsAt
<1> QED BY <1>6, <1>7, <1>9, <1>10 DEF Behind, s

LEMMA WatchRoutes ==
  ASSUME TypeOK, EntriesOK, FramesOK, crossed' = crossed,
         NEW n \in Nodes, NEW hop \in Nodes, NEW r \in Seq(Nodes),
         Behind(r, n), Avoids(r, hop), n # Target, WatchAndSend(n, hop, r)
  PROVE  EntriesOK' /\ FramesOK'
<1>1. \A q, m : Behind(q, m) => Behind(q, m)'
  BY StillBehind
<1>2. /\ at'[n].tracked = TRUE /\ at'[n].visited = r /\ at'[n].counter = at[n].counter
      /\ at'[n].armed = at[n].armed
      /\ \A m \in Nodes : m # n => at'[m] = at[m]
  BY DEF WatchAndSend, TypeOK
<1>3. EntriesOK'
  BY <1>1, <1>2 DEF EntriesOK
<1>4. ASSUME NEW f \in frames'
      PROVE  f \in frames \/ (f.node = n /\ f.hop = hop /\ f.visited = r)
  BY DEF WatchAndSend
<1>5. \A m \in Nodes : at[m].tracked => at'[m].tracked
  BY <1>2
<1>6. FramesOK'
  <2> SUFFICES ASSUME NEW f \in frames'
               PROVE  /\ Behind(f.visited, f.node)' /\ Avoids(f.visited, f.hop)
                      /\ f.node # Target
                      /\ f.entry = "live" => at'[f.node].tracked
    BY DEF FramesOK, Avoids
  <2>1. CASE f \in frames
    BY <2>1, <1>1, <1>5 DEF FramesOK, TypeOK, Frame
  <2>2. CASE f.node = n /\ f.hop = hop /\ f.visited = r
    BY <2>2, <1>1, <1>2
  <2> QED BY <2>1, <2>2, <1>4
<1> QED BY <1>3, <1>6

LEMMA RetransmitRoutes ==
  ASSUME TypeOK, EntriesOK, FramesOK, crossed' = crossed,
         NEW n \in Nodes, NEW hop \in Hops(n, at[n].visited), NEW rest \in SUBSET frames,
         at[n].tracked, RetriesLeft(n), Retransmit(n, hop, rest)
  PROVE  EntriesOK' /\ FramesOK'
<1>1. \A q, m : Behind(q, m) => Behind(q, m)'
  BY StillBehind
<1>2. /\ at'[n].tracked = TRUE /\ at'[n].visited = at[n].visited
      /\ at'[n].counter = at[n].counter + 1 /\ at'[n].armed = FALSE
      /\ \A m \in Nodes : m # n => at'[m] = at[m]
  BY DEF Retransmit, TypeOK
<1>3. Behind(at[n].visited, n) /\ n # Target /\ Avoids(at[n].visited, hop)
  BY HopsAvoid DEF EntriesOK
<1>4. at'[n].counter <= RetransmissionMax
  <2>1. at[n].counter \in Nat /\ at[n].counter < RetransmissionMax
    BY EntryType DEF Entry, RetriesLeft
  <2> QED BY <1>2, <2>1, DeliveryAssumption
<1>5. EntriesOK'
  BY <1>1, <1>2, <1>3, <1>4 DEF EntriesOK
<1>6. ASSUME NEW f \in frames'
      PROVE  \/ f.node = n /\ f.hop = hop /\ f.visited = at[n].visited
             \/ \E g \in frames : /\ f.node = g.node /\ f.hop = g.hop /\ f.visited = g.visited
                                  /\ f.entry = "live" => g.entry = "live"
  <2>1. CASE f.node = n /\ f.hop = hop /\ f.visited = at[n].visited
    BY <2>1
  <2>2. CASE \E g \in rest : f = IF g.node = n /\ g.nth = at[n].newest
                                 THEN [g EXCEPT !.entry = "none"] ELSE g
    <3>1. PICK g \in rest : f = IF g.node = n /\ g.nth = at[n].newest
                                THEN [g EXCEPT !.entry = "none"] ELSE g
      BY <2>2
    <3>2. g \in frames /\ g \in Frame
      BY <3>1 DEF TypeOK
    <3> QED BY <3>1, <3>2 DEF Frame
  <2> QED BY <2>1, <2>2 DEF Retransmit
<1>7. \A m \in Nodes : at[m].tracked => at'[m].tracked
  BY <1>2
<1>8. \A g \in frames : g.node \in Nodes
  BY DEF TypeOK, Frame
<1>9. FramesOK'
  BY <1>1, <1>2, <1>3, <1>6, <1>7, <1>8 DEF FramesOK, Avoids
<1> QED BY <1>5, <1>9

LEMMA ForgetRoutes ==
  ASSUME TypeOK, EntriesOK, FramesOK, crossed' = crossed,
         NEW n \in Nodes, NEW nth, NEW rest \in SUBSET frames, Forget(n, nth, rest)
  PROVE  EntriesOK' /\ FramesOK'
<1>1. \A q, m : Behind(q, m) => Behind(q, m)'
  BY StillBehind
<1>2. /\ at'[n].tracked = FALSE /\ at'[n].counter = 0 /\ at'[n].armed = FALSE
      /\ \A m \in Nodes : m # n => at'[m] = at[m]
  BY DEF Forget, TypeOK, Blank
<1>3. EntriesOK'
  BY <1>1, <1>2, DeliveryAssumption DEF EntriesOK
<1>4. ASSUME NEW f \in frames'
      PROVE  \E g \in frames : /\ f.node = g.node /\ f.hop = g.hop /\ f.visited = g.visited
                               /\ f.entry = "live" => g.entry = "live" /\ g.node # n
  <2>1. PICK g \in rest : f = IF g.node # n \/ g.entry = "none" THEN g
               ELSE [g EXCEPT !.entry = IF g.nth = nth THEN "none" ELSE "dangling"]
    BY DEF Forget
  <2>2. g \in frames /\ g \in Frame
    BY <2>1 DEF TypeOK
  <2> QED BY <2>1, <2>2 DEF Frame
<1>5. \A g \in frames : g.node \in Nodes
  BY DEF TypeOK, Frame
<1>6. FramesOK'
  BY <1>1, <1>2, <1>4, <1>5 DEF FramesOK, Avoids
<1> QED BY <1>3, <1>6

LEMMA CopiesStay ==
  ASSUME CopiesOK, crossed' = crossed, copies' \subseteq copies PROVE CopiesOK'
<1>1. \A q, m : Behind(q, m) => Behind(q, m)'
  BY StillBehind
<1> QED BY <1>1 DEF CopiesOK, Avoids

LEMMA RoutesStay ==
  ASSUME EntriesOK, FramesOK, crossed' = crossed, at' = at, frames' = frames
  PROVE  EntriesOK' /\ FramesOK'
<1>1. \A q, m : Behind(q, m) => Behind(q, m)'
  BY StillBehind
<1> QED BY <1>1 DEF EntriesOK, FramesOK, Avoids

\* A frame leaves the radio, or only its answer changes.
LEMMA FramesAnswered ==
  ASSUME TypeOK, EntriesOK, FramesOK, crossed \subseteq crossed', at' = at, NEW f \in frames,
         \/ frames' = frames \ {f}
         \/ \E x : frames' = (frames \ {f}) \cup {[f EXCEPT !.radio = x]}
  PROVE  EntriesOK' /\ FramesOK'
<1>1. \A q, m : Behind(q, m) => Behind(q, m)'
  BY StillBehind
<1>2. ASSUME NEW g \in frames'
      PROVE  \E h \in frames : /\ g.node = h.node /\ g.hop = h.hop /\ g.visited = h.visited
                               /\ g.entry = h.entry
  BY DEF TypeOK, Frame
<1>3. FramesOK'
  BY <1>1, <1>2 DEF FramesOK, Avoids
<1>4. EntriesOK'
  BY <1>1 DEF EntriesOK
<1> QED BY <1>3, <1>4

LEMMA StartRoutes ==
  ASSUME TypeOK, EntriesOK, FramesOK, CopiesOK, NEW l, Start(l)
  PROVE  EntriesOK' /\ FramesOK' /\ CopiesOK'
<1>1. crossed' = crossed /\ copies' = copies
  BY DEF Start, air
<1>2. CASE \E hop \in Hops(Source, <<>>) : WatchAndSend(Source, hop, <<>>)
  <2>1. <<>> \in Seq(Nodes)
    OBVIOUS
  <2> QED
    BY <1>1, <1>2, <2>1, WatchRoutes, EmptyBehind, HopsAvoid, CopiesStay, DeliveryAssumption
<1>3. CASE UNCHANGED <<at, frames, sent>>
  BY <1>1, <1>3, RoutesStay, CopiesStay
<1> QED BY <1>2, <1>3 DEF Start

LEMMA RelayRoutes ==
  ASSUME TypeOK, EntriesOK, FramesOK, CopiesOK, NEW c \in copies, Relay(c)
  PROVE  EntriesOK' /\ FramesOK' /\ CopiesOK'
<1> DEFINE r == Append(c.visited, c.to)
<1>1. crossed' = crossed /\ copies' \subseteq copies
  BY DEF Relay, air
<1>2. c.to \in Nodes /\ c.from \in Nodes /\ c.visited \in Seq(Nodes) /\ c.to # Target
  BY DEF TypeOK, Copy, Relay
<1>3. r \in Seq(Nodes)
  BY <1>2
<1>4. Behind(r, c.to)
  BY <1>2, Longer DEF CopiesOK
<1> HIDE DEF r
<1>5. CASE \E hop \in Hops(c.to, r) : WatchAndSend(c.to, hop, r)
  BY <1>1, <1>2, <1>3, <1>4, <1>5, WatchRoutes, HopsAvoid, CopiesStay
<1>6. CASE UNCHANGED <<at, frames, sent>>
  BY <1>1, <1>6, RoutesStay, CopiesStay
<1> QED BY <1>5, <1>6 DEF Relay, r

LEMMA NextRoutes ==
  ASSUME TypeOK, EntriesOK, FramesOK, CopiesOK, [Next]_vars
  PROVE  EntriesOK' /\ FramesOK' /\ CopiesOK'
<1> USE CopiesStay DEF air
<1>1. ASSUME NEW l, StartOverrun(l) PROVE EntriesOK' /\ FramesOK' /\ CopiesOK'
  BY <1>1, RoutesStay DEF StartOverrun, Ends
<1>2. CASE TargetDelivers
  BY <1>2, RoutesStay DEF TargetDelivers
<1>3. ASSUME NEW c \in copies, TargetAcks(c) PROVE EntriesOK' /\ FramesOK' /\ CopiesOK'
  BY <1>3, RoutesStay DEF TargetAcks
<1>4. ASSUME NEW f \in frames, HandleStatus(f) PROVE EntriesOK' /\ FramesOK' /\ CopiesOK'
  <2>1. f \in Frame /\ f.node \in Nodes /\ frames \ {f} \in SUBSET frames
    BY DEF TypeOK, Frame
  <2>2. CASE StatusUnknown(f)
    BY <2>2, FramesAnswered DEF StatusUnknown
  <2>3. CASE StatusSuccess(f)
    <3>1. \A q, m : Behind(q, m) => Behind(q, m)'
      BY <2>3, StillBehind DEF StatusSuccess
    <3>2. at[f.node].tracked
      BY <2>3 DEF StatusSuccess, FramesOK
    <3>3. \A n \in Nodes : /\ at'[n].tracked = at[n].tracked /\ at'[n].counter = at[n].counter
                           /\ at'[n].visited = at[n].visited
                           /\ at'[n].armed = IF n = f.node THEN TRUE ELSE at[n].armed
      BY <2>3 DEF StatusSuccess, TypeOK, Entry
    <3>4. frames' \subseteq frames
      BY <2>3 DEF StatusSuccess
    <3>5. EntriesOK'
      BY <3>1, <3>2, <3>3 DEF EntriesOK
    <3>6. FramesOK'
      <4>1. \A g \in frames : g.node \in Nodes
        BY DEF TypeOK, Frame
      <4> QED BY <3>1, <3>3, <3>4, <4>1 DEF FramesOK, Avoids
    <3> QED BY <2>3, <3>5, <3>6 DEF StatusSuccess
  <2>4. CASE StatusRetry(f)
    <3>1. at[f.node].tracked
      BY <2>4 DEF StatusRetry, FramesOK
    <3> QED BY <2>1, <2>4, <3>1, RetransmitRoutes, HopsAvoid DEF StatusRetry
  <2>5. CASE StatusGiveUp(f)
    BY <2>1, <2>5, ForgetRoutes DEF StatusGiveUp
  <2>6. CASE StatusDangling(f)
    BY <2>6, RoutesStay DEF StatusDangling, Ends
  <2> QED BY <1>4, <2>2, <2>3, <2>4, <2>5, <2>6 DEF HandleStatus
<1>5. ASSUME NEW f \in frames, Radio(f) PROVE EntriesOK' /\ FramesOK' /\ CopiesOK'
  <2>1. CASE RadioDelivers(f)
    <3> DEFINE c == [to |-> f.hop, from |-> f.node, nth |-> f.nth, visited |-> f.visited]
    <3>1. crossed' = crossed \cup {<<f.node, f.hop>>} /\ copies' = copies \cup {c}
      BY <2>1 DEF RadioDelivers
    <3>2. \A q, m : Behind(q, m) => Behind(q, m)'
      BY <3>1, StillBehind
    <3>3. Behind(f.visited, f.node) /\ Avoids(f.visited, f.hop)
      BY DEF FramesOK
    <3>4. c.to = f.hop /\ c.from = f.node /\ c.visited = f.visited
      OBVIOUS
    <3> HIDE DEF c
    <3>5. CopiesOK'
      BY <3>1, <3>2, <3>3, <3>4 DEF CopiesOK, Avoids
    <3>6. EntriesOK' /\ FramesOK'
      BY <2>1, <3>1, FramesAnswered DEF RadioDelivers
    <3> QED BY <3>5, <3>6
  <2>2. CASE RadioFails(f)
    BY <2>2, FramesAnswered DEF RadioFails
  <2>3. CASE Overrun(f)
    BY <2>3, FramesAnswered DEF Overrun
  <2> QED BY <1>5, <2>1, <2>2, <2>3 DEF Radio
<1>6. ASSUME NEW m \in Nodes, NEW n \in Nodes, AckPassedOn(m, n)
      PROVE  EntriesOK' /\ FramesOK' /\ CopiesOK'
  BY <1>6, ForgetRoutes DEF AckPassedOn
<1>7. ASSUME NEW m \in Nodes, NEW n \in Nodes, AckFault(m, n)
      PROVE  EntriesOK' /\ FramesOK' /\ CopiesOK'
  BY <1>7, RoutesStay DEF AckFault, Ends
<1>8. ASSUME NEW m \in Nodes, NEW n \in Nodes, AckLost(m, n)
      PROVE  EntriesOK' /\ FramesOK' /\ CopiesOK'
  BY <1>8, RoutesStay DEF AckLost
<1>9. ASSUME NEW m \in Nodes, AckSettles(m) PROVE EntriesOK' /\ FramesOK' /\ CopiesOK'
  BY <1>9, ForgetRoutes, DeliveryAssumption DEF AckSettles
<1>10. ASSUME NEW n \in Nodes, TickErase(n) PROVE EntriesOK' /\ FramesOK' /\ CopiesOK'
  BY <1>10, ForgetRoutes DEF TickErase
<1>11. CASE TickRetransmit
  <2>1. at[Source].tracked
    BY <1>11, DeliveryAssumption DEF TickRetransmit, EntriesOK
  <2> QED BY <1>11, <2>1, RetransmitRoutes, HopsAvoid, DeliveryAssumption
          DEF TickRetransmit
<1>12. ASSUME NEW n \in Nodes, ErrorAckArrives(n) PROVE EntriesOK' /\ FramesOK' /\ CopiesOK'
  BY <1>12, RoutesStay DEF ErrorAckArrives, Ends
<1>13. CASE UNCHANGED vars
  BY <1>13, RoutesStay DEF vars
<1> QED
  BY <1>1, <1>2, <1>3, <1>4, <1>5, <1>6, <1>7, <1>8, <1>9, <1>10, <1>11, <1>12, <1>13,
     StartRoutes, RelayRoutes DEF Next, Tick

-----------------------------------------------------------------------------
(* ACKs.                                                                     *)

LEMMA NextKnown == ASSUME TypeOK, Known, [Next]_vars PROVE Known'
<1>1. CASE delivered > 0
  <2>1. delivered' = delivered \/ delivered' = delivered + 1
    BY DEF Next, vars, Start, StartOverrun, Ends, Relay, TargetAcks, TargetDelivers,
           HandleStatus, StatusUnknown, StatusSuccess, StatusRetry, StatusGiveUp,
           StatusDangling, Radio, RadioDelivers, RadioFails, Overrun, AckPassedOn, AckFault,
           AckLost, AckSettles, Tick, TickErase, TickRetransmit, ErrorAckArrives, counts
  <2> QED BY <1>1, <2>1 DEF Known, TypeOK
<1>2. CASE delivering
  <2>1. delivering' \/ delivered' = delivered + 1
    BY <1>2
       DEF Next, vars, Start, StartOverrun, Ends, Relay, TargetAcks, TargetDelivers,
           HandleStatus, StatusUnknown, StatusSuccess, StatusRetry, StatusGiveUp,
           StatusDangling, Radio, RadioDelivers, RadioFails, Overrun, AckPassedOn, AckFault,
           AckLost, AckSettles, Tick, TickErase, TickRetransmit, ErrorAckArrives
  <2> QED BY <2>1 DEF Known, TypeOK
<1> QED BY <1>1, <1>2 DEF Known

LEMMA AcksStay ==
  ASSUME TypeOK, AcksOK, SuccessOK, [Next]_vars, acks' = acks, acked' = acked
  PROVE  AcksOK' /\ SuccessOK'
<1>1. crossed \subseteq crossed'
  BY DEF Next, vars, Start, StartOverrun, Ends, Relay, TargetAcks, TargetDelivers,
         HandleStatus, StatusUnknown, StatusSuccess, StatusRetry, StatusGiveUp,
         StatusDangling, Radio, RadioDelivers, RadioFails, Overrun, AckPassedOn, AckFault,
         AckLost, AckSettles, Tick, TickErase, TickRetransmit, ErrorAckArrives, air
<1>2. Known => Known'
  BY NextKnown
<1> QED BY <1>1, <1>2 DEF AcksOK, SuccessOK

LEMMA NextAcks ==
  ASSUME TypeOK, EntriesOK, CopiesOK, AcksOK, SuccessOK, [Next]_vars
  PROVE  AcksOK' /\ SuccessOK'
<1>1. ASSUME NEW c \in copies, TargetAcks(c) PROVE AcksOK' /\ SuccessOK'
  <2> DEFINE back == IF c.visited = <<>> THEN Source ELSE c.visited[Len(c.visited)]
  <2>1. c.from \in Nodes /\ c.visited \in Seq(Nodes) /\ c.to = Target /\ Target \in Nodes
    BY <1>1, DeliveryAssumption DEF TypeOK, Copy, TargetAcks
  <2>2. back = c.from /\ <<back, Target>> \in crossed
    BY <2>1 DEF CopiesOK, Behind, EndsAt
  <2>3. acks' = [acks EXCEPT ![<<Target, back>>] = @ + 1]
    BY <1>1 DEF TargetAcks
  <2>4. crossed' = crossed /\ acked' = acked
    BY <1>1 DEF TargetAcks, air, counts
  <2>5. delivering' = TRUE
    BY <1>1 DEF TargetAcks
  <2>6. Known'
    BY <2>5 DEF Known
  <2> HIDE DEF back
  <2>7. \A m, n \in Nodes : acks'[<<m, n>>] = acks[<<m, n>>] \/ (m = Target /\ n = back)
    BY <2>1, <2>2, <2>3 DEF TypeOK
  <2> QED BY <2>2, <2>4, <2>6, <2>7 DEF AcksOK, SuccessOK
<1>2. ASSUME NEW m \in Nodes, NEW n \in Nodes, AckPassedOn(m, n) PROVE AcksOK' /\ SuccessOK'
  <2> DEFINE back == PassedTo(n)
  <2>1. acks[<<m, n>>] > 0 /\ n # Source /\ at[n].tracked
    BY <1>2 DEF AckPassedOn, AckArrives
  <2>2. Known
    BY <2>1 DEF AcksOK
  <2>3. back \in Nodes
    BY <2>1, PassedToType
  <2>4. <<back, n>> \in crossed
    <3> DEFINE r == at[n].visited
    <3>1. r \in Seq(Nodes) /\ r # <<>>
      BY <2>1, EntryType DEF Entry, EntriesOK, Behind, EndsAt
    <3>2. r[Len(r)] = n /\ Walked(r)
      BY <2>1, <3>1 DEF EntriesOK, Behind, EndsAt
    <3>3. Len(r) \in 1..Len(r)
      BY <3>1, Indices
    <3>4. <<IF Len(r) = 1 THEN Source ELSE r[Len(r) - 1], n>> \in crossed
      BY <3>2, <3>3 DEF Walked
    <3> QED BY <3>4 DEF PassedTo
  <2>5. acks' = [acks EXCEPT ![<<m, n>>] = @ - 1, ![<<n, back>>] = @ + 1]
    BY <1>2 DEF AckPassedOn
  <2>6. crossed' = crossed /\ acked' = acked /\ delivered' = delivered
        /\ delivering' = delivering
    BY <1>2 DEF AckPassedOn, air, counts
  <2> HIDE DEF back
  <2>7. \A j, k \in Nodes : acks'[<<j, k>>] > 0 => acks[<<j, k>>] > 0 \/ (j = n /\ k = back)
    BY <2>3, <2>5 DEF TypeOK
  <2> QED BY <2>2, <2>4, <2>6, <2>7 DEF AcksOK, SuccessOK, Known
<1>3. ASSUME NEW m \in Nodes, AckSettles(m) PROVE AcksOK' /\ SuccessOK'
  <2>1. acks[<<m, Source>>] > 0 /\ Source \in Nodes
    BY <1>3, DeliveryAssumption DEF AckSettles, AckArrives
  <2>2. Known
    BY <2>1 DEF AcksOK
  <2>3. acks' = [acks EXCEPT ![<<m, Source>>] = @ - 1]
    BY <1>3 DEF AckSettles
  <2>4. crossed' = crossed /\ delivered' = delivered /\ delivering' = delivering
    BY <1>3 DEF AckSettles, air
  <2>5. \A j, k \in Nodes : acks'[<<j, k>>] > 0 => acks[<<j, k>>] > 0
    BY <2>3 DEF TypeOK
  <2> QED BY <2>2, <2>4, <2>5 DEF AcksOK, SuccessOK, Known
<1>4. ASSUME NEW m \in Nodes, NEW n \in Nodes, AckLost(m, n) PROVE AcksOK' /\ SuccessOK'
  <2>1. acks' = [acks EXCEPT ![<<m, n>>] = @ - 1]
    BY <1>4 DEF AckLost
  <2>2. crossed' = crossed /\ acked' = acked /\ delivered' = delivered
        /\ delivering' = delivering
    BY <1>4 DEF AckLost, air, counts
  <2>3. \A j, k \in Nodes : acks'[<<j, k>>] > 0 => acks[<<j, k>>] > 0
    BY <2>1 DEF TypeOK
  <2> QED BY <2>2, <2>3 DEF AcksOK, SuccessOK, Known
<1>5. \/ \E c \in copies : TargetAcks(c)
      \/ \E m, n \in Nodes : AckPassedOn(m, n) \/ AckLost(m, n)
      \/ \E m \in Nodes : AckSettles(m)
      \/ acks' = acks /\ acked' = acked
  BY DEF Next, vars, Start, StartOverrun, Ends, Relay, TargetDelivers,
         HandleStatus, StatusUnknown, StatusSuccess, StatusRetry, StatusGiveUp,
         StatusDangling, Radio, RadioDelivers, RadioFails, Overrun, AckFault,
         Tick, TickErase, TickRetransmit, ErrorAckArrives, counts
<1> QED BY <1>1, <1>2, <1>3, <1>4, <1>5, AcksStay

-----------------------------------------------------------------------------
(* Outcomes and frames.                                                      *)

LEMMA Times == \A k \in Nat : /\ (1 + RetransmissionMax) * k \in Nat
                             /\ (1 + RetransmissionMax) * (k + 1)
                                  = (1 + RetransmissionMax) * k + (1 + RetransmissionMax)
BY DeliveryAssumption

LEMMA OneType == \A b : One(b) \in {0, 1}
BY DEF One

LEMMA LeftType ==
  ASSUME TypeOK, EntriesOK, NEW n \in Nodes PROVE Left(n) \in 0..RetransmissionMax
<1>1. at[n].counter \in Nat /\ at[n].counter <= RetransmissionMax
  BY EntryType DEF Entry, EntriesOK
<1>2. RetransmissionMax - at[n].counter \in 0..RetransmissionMax
  BY <1>1, DeliveryAssumption
<1>3. 0 \in 0..RetransmissionMax
  BY DeliveryAssumption
<1> QED BY <1>2, <1>3 DEF Left

\* What the helpers do to the node they are called for, and to the others.
LEMMA WatchCounts ==
  ASSUME TypeOK, EntriesOK, NEW n \in Nodes, NEW hop, NEW r, WatchAndSend(n, hop, r)
  PROVE  /\ sent'[n] = sent[n] + 1 /\ at'[n].tracked = TRUE
         /\ Left(n)' <= Left(n) + RetransmissionMax
         /\ \A m \in Nodes : m # n =>
              sent'[m] = sent[m] /\ at'[m] = at[m] /\ Left(m)' = Left(m)
<1>1. /\ at'[n].tracked = TRUE /\ at'[n].counter = at[n].counter /\ sent'[n] = sent[n] + 1
      /\ \A m \in Nodes : m # n => at'[m] = at[m] /\ sent'[m] = sent[m]
  BY DEF WatchAndSend, TypeOK
<1>2. Left(n)' = RetransmissionMax - at[n].counter
  BY <1>1 DEF Left
<1>3. at[n].counter \in Nat
  BY EntryType DEF Entry
<1>4. Left(n) \in Nat
  BY LeftType, DeliveryAssumption
<1>5. Left(n)' <= Left(n) + RetransmissionMax
  BY <1>2, <1>3, <1>4, DeliveryAssumption
<1>6. \A m \in Nodes : m # n => Left(m)' = Left(m)
  BY <1>1 DEF Left
<1> QED BY <1>1, <1>5, <1>6

LEMMA RetransmitCounts ==
  ASSUME TypeOK, EntriesOK, NEW n \in Nodes, NEW hop, NEW rest, Retransmit(n, hop, rest),
         at[n].tracked
  PROVE  /\ sent'[n] = sent[n] + 1 /\ at'[n].tracked = TRUE
         /\ Left(n)' = Left(n) - 1
         /\ \A m \in Nodes : m # n =>
              sent'[m] = sent[m] /\ at'[m] = at[m] /\ Left(m)' = Left(m)
<1>1. /\ at'[n].tracked = TRUE /\ at'[n].counter = at[n].counter + 1
      /\ sent'[n] = sent[n] + 1
      /\ \A m \in Nodes : m # n => at'[m] = at[m] /\ sent'[m] = sent[m]
  BY DEF Retransmit, TypeOK
<1>2. Left(n)' = RetransmissionMax - (at[n].counter + 1)
  BY <1>1 DEF Left
<1>3. Left(n) = RetransmissionMax - at[n].counter
  BY DEF Left
<1>4. at[n].counter \in Nat
  BY EntryType DEF Entry
<1>5. \A c \in Nat : RetransmissionMax - (c + 1) = RetransmissionMax - c - 1
  BY DeliveryAssumption
<1>6. Left(n)' = Left(n) - 1
  BY <1>2, <1>3, <1>4, <1>5
<1>7. \A m \in Nodes : m # n => Left(m)' = Left(m)
  BY <1>1 DEF Left
<1> QED BY <1>1, <1>6, <1>7

LEMMA ForgetCounts ==
  ASSUME TypeOK, EntriesOK, NEW n \in Nodes, NEW nth, NEW rest, Forget(n, nth, rest)
  PROVE  /\ at'[n].tracked = FALSE /\ Left(n)' = 0
         /\ \A m \in Nodes : m # n => at'[m] = at[m] /\ Left(m)' = Left(m)
<1>1. /\ at'[n].tracked = FALSE
      /\ \A m \in Nodes : m # n => at'[m] = at[m]
  BY DEF Forget, TypeOK, Blank
<1> QED BY <1>1 DEF Left

\* Frames of one node, with or without another copy it is given.
LEMMA BudgetOf ==
  ASSUME TypeOK, EntriesOK, EntriesOK', TypeOK', Budget, NEW n \in Nodes,
         \/ sent'[n] + Left(n)' <= sent[n] + Left(n) /\ received'[n] = received[n]
         \/ /\ sent'[n] + Left(n)' <= sent[n] + Left(n) + 1 + RetransmissionMax
            /\ received'[n] = received[n] + 1
  PROVE  sent'[n] + Left(n)' <= (1 + RetransmissionMax) * received'[n]
<1>1. sent[n] \in Nat /\ sent'[n] \in Nat /\ received[n] \in Nat
  BY DEF TypeOK
<1>2. Left(n) \in Nat /\ Left(n)' \in Nat
  <2>1. Left(n) \in 0..RetransmissionMax
    BY LeftType
  <2>2. Left(n)' \in 0..RetransmissionMax
    <3>1. at'[n].counter \in Nat /\ at'[n].counter <= RetransmissionMax
      BY DEF TypeOK, Entry, EntriesOK
    <3>2. RetransmissionMax - at'[n].counter \in 0..RetransmissionMax
      BY <3>1, DeliveryAssumption
    <3>3. 0 \in 0..RetransmissionMax
      BY DeliveryAssumption
    <3> QED BY <3>2, <3>3 DEF Left
  <2> QED BY <2>1, <2>2, DeliveryAssumption
<1>3. sent[n] + Left(n) <= (1 + RetransmissionMax) * received[n]
  BY DEF Budget
<1>4. (1 + RetransmissionMax) * received[n] \in Nat
      /\ (1 + RetransmissionMax) * (received[n] + 1)
           = (1 + RetransmissionMax) * received[n] + (1 + RetransmissionMax)
  BY <1>1, Times
<1> DEFINE b == (1 + RetransmissionMax) * received[n]
           l == Left(n)
           lp == Left(n)'
<1> HIDE DEF b, l, lp
<1>5. CASE sent'[n] + lp <= sent[n] + l /\ received'[n] = received[n]
  <2>1. sent'[n] + lp <= b
    BY <1>1, <1>2, <1>3, <1>4, <1>5 DEF l, lp, b
  <2> QED BY <2>1, <1>5 DEF b, lp
<1>6. CASE sent'[n] + lp <= sent[n] + l + 1 + RetransmissionMax
           /\ received'[n] = received[n] + 1
  <2>1. sent[n] + l <= b /\ b \in Nat /\ l \in Nat /\ lp \in Nat
    BY <1>2, <1>3, <1>4 DEF b, l, lp
  <2>2. sent'[n] + lp <= b + (1 + RetransmissionMax)
    BY <2>1, <1>1, <1>6, DeliveryAssumption
  <2>3. b + (1 + RetransmissionMax) = (1 + RetransmissionMax) * received'[n]
    BY <1>4, <1>6 DEF b
  <2> QED BY <2>2, <2>3 DEF lp
<1> QED BY <1>5, <1>6 DEF l, lp

LEMMA BudgetStays ==
  ASSUME Budget, sent' = sent, at' = at, received' = received PROVE Budget'
BY DEF Budget, Left

LEMMA SettledStays ==
  ASSUME Settled, reported' = reported, acked' = acked, at'[Source].tracked = at[Source].tracked,
         received'[Source] = received[Source]
  PROVE  Settled'
BY DEF Settled, One

\* The source is given the packet.
LEMMA SettledMore ==
  ASSUME TypeOK, Settled, acked' = acked, received'[Source] = received[Source] + 1,
         \/ reported' = reported
         \/ reported' = reported + 1 /\ at'[Source].tracked = at[Source].tracked
  PROVE  Settled'
<1>1. One(at'[Source].tracked) \in {0, 1} /\ One(at[Source].tracked) \in {0, 1}
      /\ One(acked) \in {0, 1}
  BY OneType
<1>2. reported \in Nat /\ received[Source] \in Nat
  BY DeliveryAssumption DEF TypeOK
<1> DEFINE x == One(at[Source].tracked)
           xp == One(at'[Source].tracked)
           a == One(acked)
<1>3. /\ x \in {0, 1} /\ xp \in {0, 1} /\ a \in {0, 1}
      /\ reported + a + x <= received[Source]
      /\ reported' = reported \/ (reported' = reported + 1 /\ xp = x)
  BY <1>1 DEF Settled
<1> HIDE DEF x, xp, a
<1>4. reported' + a + xp <= received[Source] + 1
  BY <1>2, <1>3
<1> QED BY <1>4 DEF Settled, x, xp, a

\* The entry of the source ends with an outcome.
LEMMA SettledOnce ==
  ASSUME TypeOK, Settled, at[Source].tracked, at'[Source].tracked = FALSE,
         received'[Source] = received[Source],
         \/ reported' = reported + 1 /\ acked' = acked
         \/ reported' = reported /\ acked' = TRUE
  PROVE  Settled'
<1> DEFINE a == One(acked)
           ap == One(acked')
<1>1. reported \in Nat /\ received[Source] \in Nat
  BY DeliveryAssumption DEF TypeOK
<1>2. One(at'[Source].tracked) = 0 /\ One(at[Source].tracked) = 1
  BY DEF One
<1>3. a \in {0, 1} /\ ap \in {0, 1}
  BY OneType
<1>4. reported + a + 1 <= received[Source]
  BY <1>2 DEF Settled
<1>5. (reported' = reported + 1 /\ ap = a) \/ reported' = reported
  OBVIOUS
<1> HIDE DEF a, ap
<1>6. reported' + ap + 0 <= received[Source]
  BY <1>1, <1>3, <1>4, <1>5
<1> QED BY <1>2, <1>6 DEF Settled, ap

LEMMA BudgetMore ==
  ASSUME TypeOK, TypeOK', EntriesOK, EntriesOK', Budget, NEW n \in Nodes,
         received' = [received EXCEPT ![n] = @ + 1],
         (\E hop, r : WatchAndSend(n, hop, r)) \/ (at' = at /\ sent' = sent)
  PROVE  Budget'
<1>1. received'[n] = received[n] + 1 /\ \A m \in Nodes : m # n => received'[m] = received[m]
  BY DEF TypeOK
<1>2. \A m \in Nodes : sent[m] \in Nat /\ Left(m) \in Nat
  BY LeftType, DeliveryAssumption DEF TypeOK
<1>3. CASE at' = at /\ sent' = sent
  <2>1. \A m \in Nodes : sent'[m] + Left(m)' = sent[m] + Left(m)
    BY <1>3 DEF Left
  <2>2. \A m \in Nodes : sent[m] + Left(m) <= sent[m] + Left(m) + 1 + RetransmissionMax
                        /\ sent[m] + Left(m) <= sent[m] + Left(m)
    BY <1>2, DeliveryAssumption
  <2> SUFFICES ASSUME NEW m \in Nodes
               PROVE sent'[m] + Left(m)' <= (1 + RetransmissionMax) * received'[m]
    BY DEF Budget
  <2>3. CASE m = n
    BY <1>1, <2>1, <2>2, <2>3, BudgetOf
  <2>4. CASE m # n
    BY <1>1, <2>1, <2>2, <2>4, BudgetOf
  <2> QED BY <2>3, <2>4
<1>4. CASE \E hop, r : WatchAndSend(n, hop, r)
  <2>1. /\ sent'[n] = sent[n] + 1
        /\ Left(n)' <= Left(n) + RetransmissionMax
        /\ \A m \in Nodes : m # n => sent'[m] = sent[m] /\ Left(m)' = Left(m)
    BY <1>4, WatchCounts
  <2> SUFFICES ASSUME NEW m \in Nodes
               PROVE sent'[m] + Left(m)' <= (1 + RetransmissionMax) * received'[m]
    BY DEF Budget
  <2>2. CASE m = n
    <3>1. Left(n)' \in Int
      <4>1. at'[n].counter \in Nat
        BY DEF TypeOK, Entry
      <4> QED BY <4>1, DeliveryAssumption DEF Left
    <3>2. \A s, l \in Nat, k \in Int : k <= l + RetransmissionMax
            => s + 1 + k <= s + l + 1 + RetransmissionMax
      BY DeliveryAssumption
    <3>3. sent'[n] + Left(n)' <= sent[n] + Left(n) + 1 + RetransmissionMax
      BY <1>2, <2>1, <3>1, <3>2
    <3> QED BY <1>1, <2>2, <3>3, BudgetOf
  <2>3. CASE m # n
    <3>1. sent'[m] + Left(m)' <= sent[m] + Left(m)
      BY <1>2, <2>1, <2>3
    <3> QED BY <1>1, <2>3, <3>1, BudgetOf
  <2> QED BY <2>2, <2>3
<1> QED BY <1>3, <1>4

LEMMA BudgetSpent ==
  ASSUME TypeOK, TypeOK', EntriesOK, EntriesOK', Budget, NEW n \in Nodes,
         received' = received,
         \/ at[n].tracked /\ \E hop, rest : Retransmit(n, hop, rest)
         \/ sent' = sent /\ \E nth, rest : Forget(n, nth, rest)
  PROVE  Budget'
<1>1. \A m \in Nodes : sent[m] \in Nat /\ Left(m) \in Nat
  BY LeftType, DeliveryAssumption DEF TypeOK
<1>2. \A s, l \in Nat : s + 1 + (l - 1) <= s + l /\ s + l <= s + l /\ s + 0 <= s + l
  OBVIOUS
<1>3. \A m \in Nodes : sent'[m] + Left(m)' <= sent[m] + Left(m)
  <2>1. CASE at[n].tracked /\ \E hop, rest : Retransmit(n, hop, rest)
    <3>1. /\ sent'[n] = sent[n] + 1 /\ Left(n)' = Left(n) - 1
          /\ \A m \in Nodes : m # n => sent'[m] = sent[m] /\ Left(m)' = Left(m)
      BY <2>1, RetransmitCounts
    <3> QED BY <1>1, <1>2, <3>1
  <2>2. CASE sent' = sent /\ \E nth, rest : Forget(n, nth, rest)
    <3>1. Left(n)' = 0 /\ \A m \in Nodes : m # n => Left(m)' = Left(m)
      BY <2>2, ForgetCounts
    <3> QED BY <1>1, <1>2, <2>2, <3>1
  <2> QED BY <2>1, <2>2
<1> QED BY <1>3, BudgetOf DEF Budget

LEMMA NextCounts ==
  ASSUME TypeOK, TypeOK', EntriesOK, EntriesOK', FramesOK, Settled, Budget, [Next]_vars
  PROVE  Settled' /\ Budget'
<1> USE DEF counts
<1>1. Source \in Nodes /\ Target \in Nodes /\ Source # Target
  BY DeliveryAssumption
<1>2. ASSUME NEW l, Start(l) PROVE Settled' /\ Budget'
  <2>1. received' = [received EXCEPT ![Source] = @ + 1]
    BY <1>2 DEF Start, TypeOK
  <2>2. received'[Source] = received[Source] + 1
    BY <1>1, <2>1 DEF TypeOK
  <2>3. \/ (\E hop : WatchAndSend(Source, hop, <<>>)) /\ reported' = reported
        \/ at' = at /\ sent' = sent /\ reported' = reported + 1
    BY <1>2 DEF Start, Report
  <2>4. acked' = acked
    BY <1>2 DEF Start
  <2> QED BY <1>1, <2>1, <2>2, <2>3, <2>4, BudgetMore, SettledMore
<1>3. ASSUME NEW c \in copies, Relay(c) PROVE Settled' /\ Budget'
  <2>1. c.to \in Nodes /\ received' = [received EXCEPT ![c.to] = @ + 1] /\ acked' = acked
    BY <1>3 DEF Relay, TypeOK, Copy
  <2>2. \/ (\E hop, r : WatchAndSend(c.to, hop, r)) /\ reported' = reported
        \/ at' = at /\ sent' = sent /\ Report(c.to)
    BY <1>3 DEF Relay
  <2>3. Budget'
    BY <2>1, <2>2, BudgetMore
  <2>4. CASE c.to = Source
    <3>1. received'[Source] = received[Source] + 1
      BY <1>1, <2>1, <2>4 DEF TypeOK
    <3> QED BY <2>1, <2>2, <2>3, <2>4, <3>1, SettledMore DEF Report
  <2>5. CASE c.to # Source
    <3>1. received'[Source] = received[Source] /\ reported' = reported
      BY <1>1, <2>1, <2>2, <2>5 DEF TypeOK, Report
    <3>2. at'[Source] = at[Source]
      BY <1>1, <2>1, <2>2, <2>5, WatchCounts
    <3> QED BY <2>1, <2>3, <3>1, <3>2, SettledStays
  <2> QED BY <2>4, <2>5
<1>4. ASSUME NEW c \in copies, TargetAcks(c) PROVE Settled' /\ Budget'
  <2>1. received' = [received EXCEPT ![Target] = @ + 1] /\ at' = at /\ sent' = sent
        /\ reported' = reported /\ acked' = acked
    BY <1>4 DEF TargetAcks
  <2>2. received'[Source] = received[Source]
    BY <1>1, <2>1 DEF TypeOK
  <2> QED BY <1>1, <2>1, <2>2, BudgetMore, SettledStays
<1>5. ASSUME NEW f \in frames, HandleStatus(f) PROVE Settled' /\ Budget'
  <2>1. f.node \in Nodes
    BY DEF TypeOK, Frame
  <2>2. CASE StatusUnknown(f)
    BY <2>2, BudgetStays, SettledStays DEF StatusUnknown
  <2>3. CASE StatusSuccess(f)
    <3>1. /\ at' = [at EXCEPT ![f.node].armed = TRUE] /\ sent' = sent
          /\ received' = received /\ reported' = reported /\ acked' = acked
      BY <2>3 DEF StatusSuccess
    <3>2. \A n \in Nodes : at'[n].tracked = at[n].tracked /\ at'[n].counter = at[n].counter
      BY <3>1 DEF TypeOK, Entry
    <3>3. Budget'
      BY <3>1, <3>2 DEF Budget, Left
    <3> QED BY <1>1, <3>1, <3>2, <3>3, SettledStays
  <2>4. CASE StatusRetry(f)
    <3>1. at[f.node].tracked
      BY <2>4 DEF StatusRetry, FramesOK
    <3>2. /\ received' = received /\ reported' = reported /\ acked' = acked
          /\ \E hop, rest : Retransmit(f.node, hop, rest)
      BY <2>4 DEF StatusRetry
    <3>3. at'[Source].tracked = at[Source].tracked
      BY <1>1, <2>1, <3>1, <3>2, RetransmitCounts, EntryType DEF Entry
    <3> QED BY <2>1, <3>1, <3>2, <3>3, BudgetSpent, SettledStays
  <2>5. CASE StatusGiveUp(f)
    <3>1. /\ received' = received /\ sent' = sent /\ acked' = acked /\ Report(f.node)
          /\ \E nth, rest : Forget(f.node, nth, rest)
      BY <2>5 DEF StatusGiveUp
    <3>2. at[f.node].tracked
      BY <2>5 DEF StatusGiveUp, FramesOK
    <3>3. Budget'
      BY <2>1, <3>1, BudgetSpent
    <3>4. CASE f.node = Source
      BY <1>1, <3>1, <3>2, <3>3, <3>4, ForgetCounts, SettledOnce DEF Report
    <3>5. CASE f.node # Source
      BY <1>1, <2>1, <3>1, <3>3, <3>5, ForgetCounts, SettledStays DEF Report
    <3> QED BY <3>4, <3>5
  <2>6. CASE StatusDangling(f)
    BY <2>6, BudgetStays, SettledStays DEF StatusDangling, Ends
  <2> QED BY <1>5, <2>2, <2>3, <2>4, <2>5, <2>6 DEF HandleStatus
<1>6. ASSUME NEW m \in Nodes, NEW n \in Nodes, AckPassedOn(m, n) PROVE Settled' /\ Budget'
  <2>1. /\ received' = received /\ sent' = sent /\ acked' = acked /\ reported' = reported
        /\ n # Source /\ \E nth, rest : Forget(n, nth, rest)
    BY <1>6 DEF AckPassedOn
  <2> QED BY <1>1, <2>1, ForgetCounts, BudgetSpent, SettledStays
<1>7. ASSUME NEW m \in Nodes, AckSettles(m) PROVE Settled' /\ Budget'
  <2>1. /\ received' = received /\ sent' = sent /\ acked' = TRUE /\ reported' = reported
        /\ \E nth, rest : Forget(Source, nth, rest)
    BY <1>7 DEF AckSettles
  <2>2. at[Source].tracked
    BY <1>7 DEF AckSettles
  <2> QED BY <1>1, <2>1, <2>2, ForgetCounts, BudgetSpent, SettledOnce
<1>8. ASSUME NEW n \in Nodes, TickErase(n) PROVE Settled' /\ Budget'
  <2>1. /\ received' = received /\ sent' = sent /\ acked' = acked /\ Report(n)
        /\ \E nth, rest : Forget(n, nth, rest)
    BY <1>8 DEF TickErase
  <2>2. at[n].tracked
    BY <1>8 DEF TickErase, EntriesOK
  <2>3. CASE n = Source
    BY <1>1, <2>1, <2>2, <2>3, ForgetCounts, BudgetSpent, SettledOnce DEF Report
  <2>4. CASE n # Source
    BY <1>1, <2>1, <2>4, ForgetCounts, BudgetSpent, SettledStays DEF Report
  <2> QED BY <2>3, <2>4
<1>9. CASE TickRetransmit
  <2>1. /\ received' = received /\ reported' = reported /\ acked' = acked
        /\ \E hop, rest : Retransmit(Source, hop, rest)
    BY <1>9 DEF TickRetransmit
  <2>2. at[Source].tracked
    BY <1>1, <1>9 DEF TickRetransmit, EntriesOK
  <2>3. at'[Source].tracked = at[Source].tracked
    BY <1>1, <2>1, <2>2, RetransmitCounts, EntryType DEF Entry
  <2> QED BY <1>1, <2>1, <2>2, <2>3, BudgetSpent, SettledStays
<1>10. ASSUME /\ received' = received /\ sent' = sent /\ acked' = acked
              /\ reported' = reported /\ at' = at
       PROVE  Settled' /\ Budget'
  BY <1>10, BudgetStays, SettledStays
<1>11. \/ \E l \in MessageLengths : Start(l)
       \/ \E c \in copies : Relay(c) \/ TargetAcks(c)
       \/ \E f \in frames : HandleStatus(f)
       \/ \E m, n \in Nodes : AckPassedOn(m, n)
       \/ \E m \in Nodes : AckSettles(m)
       \/ \E n \in Nodes : TickErase(n)
       \/ TickRetransmit
       \/ /\ received' = received /\ sent' = sent /\ acked' = acked
          /\ reported' = reported /\ at' = at
  BY DEF Next, vars, StartOverrun, Ends, TargetDelivers, Radio, RadioDelivers, RadioFails,
         Overrun, AckFault, AckLost, Tick, ErrorAckArrives
<1> QED BY <1>2, <1>3, <1>4, <1>5, <1>6, <1>7, <1>8, <1>9, <1>10, <1>11

-----------------------------------------------------------------------------
(* The theorems.                                                             *)

LEMMA InitInv == ASSUME Init PROVE Inv
<1>1. Source \in Nodes /\ RetransmissionMax \in Nat
  BY DeliveryAssumption
<1>2. \A n \in Nodes : at[n].tracked = FALSE /\ at[n].armed = FALSE /\ at[n].counter = 0
  BY DEF Init, Blank
<1>3. EntriesOK /\ FramesOK /\ CopiesOK
  BY <1>1, <1>2 DEF Init, EntriesOK, FramesOK, CopiesOK
<1>4. AcksOK /\ SuccessOK
  BY DEF Init, AcksOK, SuccessOK
<1>5. Settled
  <2>1. One(acked) = 0 /\ One(at[Source].tracked) = 0
    BY <1>1, <1>2 DEF Init, One
  <2>2. reported = 0 /\ received[Source] = 0
    BY <1>1 DEF Init
  <2> QED BY <2>1, <2>2 DEF Settled
<1>6. Budget
  <2>1. \A n \in Nodes : sent[n] = 0 /\ received[n] = 0 /\ Left(n) = 0
    BY <1>2 DEF Init, Left
  <2>2. (1 + RetransmissionMax) * 0 = 0
    BY <1>1
  <2> QED BY <2>1, <2>2 DEF Budget
<1> QED BY <1>3, <1>4, <1>5, <1>6, InitType DEF Inv

LEMMA NextInv == Inv /\ [Next]_vars => Inv'
BY NextType, NextRoutes, NextAcks, NextCounts DEF Inv

\* The strengthened invariant, from which the theorems below follow.
THEOREM Invariance == Spec => []Inv
BY InitInv, NextInv, PTL DEF Spec

\* TypeOK: whatever a node does with a copy, an answer or an ACK, the state stays one of
\* Histories, frames and routes; in particular the ACK a relay passes on has a receiver
\* (dispatcher.cpp:183-185 reads the one but last element of `visited').
THEOREM TypeCorrect == Spec => []TypeOK
BY Invariance, PTL DEF Inv

\* No copy is sent to a node it has visited, in a network of any size (router.cpp:152).
THEOREM NeverRevisited == Spec => []NoRevisit
<1>1. Inv => NoRevisit
  BY DEF Inv, FramesOK, Behind, Distinct, Avoids, EndsAt, NoRevisit
<1> QED BY <1>1, Invariance, PTL

\* A route is at most as long as there are nodes to visit.
LEMMA ShortRoutes ==
  ASSUME NEW r \in Seq(Nodes), Distinct(r), Avoids(r, Target)
  PROVE  Len(r) <= Cardinality(Nodes) - 1
<1> DEFINE others == Nodes \ {Target}
<1>1. IsFiniteSet(others) /\ Cardinality(others) = Cardinality(Nodes) - 1
  BY FS_RemoveElement, DeliveryAssumption
<1>2. r \in Injection(1..Len(r), others)
  <2>1. r \in [1..Len(r) -> others]
    BY DEF Avoids
  <2> QED BY <2>1 DEF Injection, IsInjective, Distinct
<1>3. Cardinality(1..Len(r)) <= Cardinality(others)
  BY <1>1, <1>2, FS_Injection
<1>4. Len(r) \in Nat
  OBVIOUS
<1>5. Cardinality(1..Len(r)) = IF 1 > Len(r) THEN 0 ELSE Len(r) - 1 + 1
  <2>1. 1 \in Int /\ Len(r) \in Int
    BY <1>4
  <2> QED BY <2>1, FS_Interval
<1> QED BY <1>1, <1>3, <1>4, <1>5

\* A message that leaves room for the other nodes fits on every route (packet.cpp:143-161).
THEOREM RoutesFit == Spec => []RouteFits
<1>1. ASSUME Inv, NEW f \in frames, Fits(DataSize(Cardinality(Nodes) - 1, length))
      PROVE  Fits(DataSize(Len(f.visited), length))
  <2>1. f.visited \in Seq(Nodes)
    BY <1>1 DEF Inv, TypeOK, Frame
  <2>2. Len(f.visited) <= Cardinality(Nodes) - 1
    BY <1>1, <2>1, ShortRoutes DEF Inv, FramesOK, Behind
  <2>3. length \in Nat /\ Len(f.visited) \in Nat
    BY <1>1, <2>1 DEF Inv, TypeOK, Byte
  <2>4. Cardinality(Nodes) \in Nat
    BY FS_CardinalityType, DeliveryAssumption
  <2> QED BY <1>1, <2>2, <2>3, <2>4 DEF Fits, DataSize
<1>2. Inv => RouteFits
  BY <1>1 DEF RouteFits
<1> QED BY <1>2, Invariance, PTL

\* An ACK at the source is the word of the target (router.cpp:128-135).
THEOREM AcksAreHonest == Spec => []HonestSuccess
<1>1. Inv => HonestSuccess
  BY DEF Inv, SuccessOK, Known, HonestSuccess
<1> QED BY <1>1, Invariance, PTL

\* An ACK never travels a hop that no copy has crossed (dispatcher.cpp:183-185).
THEOREM AcksRetrace == Spec => []AckRetraces
<1>1. Inv => AckRetraces
  BY DEF Inv, AcksOK, AckRetraces
<1> QED BY <1>1, Invariance, PTL

\* The frames a node spends are bounded by the copies it is given (history.cpp:55-58).
THEOREM FramesBounded == Spec => []FrameBudget
<1>1. ASSUME Inv, NEW n \in Nodes PROVE sent[n] <= (1 + RetransmissionMax) * received[n]
  <2>1. Left(n) \in 0..RetransmissionMax
    BY <1>1, LeftType DEF Inv
  <2>2. Left(n) \in Nat /\ sent[n] \in Nat /\ received[n] \in Nat
    BY <1>1, <2>1, DeliveryAssumption DEF Inv, TypeOK
  <2>3. (1 + RetransmissionMax) * received[n] \in Nat
    BY <2>2, Times
  <2>4. sent[n] + Left(n) <= (1 + RetransmissionMax) * received[n]
    BY <1>1 DEF Inv, Budget
  <2> DEFINE b == (1 + RetransmissionMax) * received[n]
             l == Left(n)
  <2> HIDE DEF b, l
  <2>5. sent[n] + l <= b /\ l \in Nat /\ b \in Nat
    BY <2>2, <2>3, <2>4 DEF b, l
  <2>6. sent[n] <= b
    BY <2>2, <2>5
  <2> QED BY <2>6 DEF b
<1>2. Inv => FrameBudget
  BY <1>1 DEF FrameBudget
<1> QED BY <1>2, Invariance, PTL

\* The application hears of one outcome (driver.cpp:113, dispatcher.cpp:233-247).
THEOREM OutcomesOnce == Spec => []OneOutcome
<1>1. ASSUME Inv, reported > 1 \/ (acked /\ reported > 0) PROVE received[Source] > 1
  <2> DEFINE a == One(acked)
             x == One(at[Source].tracked)
  <2>1. a \in {0, 1} /\ x \in {0, 1}
    BY OneType
  <2>2. acked => a = 1
    BY DEF One
  <2>3. reported \in Nat /\ received[Source] \in Nat
    BY <1>1, DeliveryAssumption DEF Inv, TypeOK
  <2>4. reported + a + x <= received[Source]
    BY <1>1 DEF Inv, Settled
  <2> HIDE DEF a, x
  <2>5. reported > 1 \/ (a = 1 /\ reported > 0)
    BY <1>1, <2>2
  <2> QED BY <2>1, <2>3, <2>4, <2>5
<1>2. Inv => OneOutcome
  BY <1>1 DEF OneOutcome
<1> QED BY <1>2, Invariance, PTL
=============================================================================
