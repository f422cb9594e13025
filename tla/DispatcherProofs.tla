-------------------------- MODULE DispatcherProofs --------------------------
(***************************************************************************)
(* Theorems about Dispatcher for every set of packets, every number of     *)
(* frame ids and every retransmission limit: its types, its frame ids, and *)
(* its accounts, how often a packet is sent and how often it is given back *)
(* to its application, ids exhausted or not, and for packets that share a  *)
(* Packet::id().                                                           *)
(***************************************************************************)
EXTENDS Dispatcher, TLAPS

-----------------------------------------------------------------------------
(* Type correctness, one lemma per action that assigns more than a field.   *)

LEMMA ReservableType == Reservable \subseteq FrameIds
BY DEF Reservable, FreeIds, FrameIds

LEMMA IdType == ASSUME TypeOK, NEW p \in Packets PROVE Id(p) \in PacketIds
BY ConstantsAssumption DEF TypeOK, Id, PacketIds

LEMMA TypeInit == ASSUME Init PROVE TypeOK
<1>1. meta \in [Packets -> Metadata]
  <2>1. 1 \in FrameIds
    BY ConstantsAssumption DEF FrameIds
  <2> QED BY <2>1 DEF Init, Metadata
<1>2. packet_id \in [Packets -> 0..BitSetSize] /\ outbox \in [Packets -> 0..BitSetSize]
  BY ConstantsAssumption DEF Init
<1> QED
  BY <1>1, <1>2 DEF Init, TypeOK, Faults

LEMMA TypeDeliverNoRoute ==
  ASSUME TypeOK, NEW p \in Packets, DeliverNoRoute(p) PROVE TypeOK'
BY DEF TypeOK, DeliverNoRoute, Report, tables, world

LEMMA TypeWatch ==
  ASSUME TypeOK, NEW p \in Packets, Watch(p) PROVE TypeOK'
<1> DEFINE found == packets[Id(p)]
           m == IF found = Null THEN p ELSE found
           pid(id) == IF packet_id[p] = 0 THEN id ELSE packet_id[p]
           new(id) == [packet |-> p, frame_id |-> id,
                       check_timeout |-> IF found = Null THEN FALSE ELSE meta[m].check_timeout,
                       counter |-> IF found = Null THEN 0 ELSE meta[m].counter]
<1>1. PICK id \in Reservable :
            /\ packet_id' = [packet_id EXCEPT ![p] = pid(id)]
            /\ packets' = [packets EXCEPT ![<<Destination[p], Source[p], pid(id)>>] = m]
            /\ frames' = [frames EXCEPT ![id] = m]
            /\ meta' = [meta EXCEPT ![m] = new(id)]
            /\ id_occupation' = id_occupation \cup {id}
            /\ outbox' = [outbox EXCEPT ![p] = id]
  BY DEF Watch
<1>2. id \in FrameIds /\ id \in 0..BitSetSize
  BY ReservableType, ConstantsAssumption DEF FrameIds
<1>3. m \in Packets /\ meta[m] \in Metadata
  BY IdType DEF TypeOK
<1>4. new(id) \in Metadata
  BY <1>2, <1>3 DEF Metadata
<1>5. pid(id) \in 0..BitSetSize
  BY <1>2 DEF TypeOK
<1> HIDE DEF m, new, pid
<1>6. /\ live' \subseteq Packets /\ taken' \subseteq Packets /\ exhausted' \in BOOLEAN
      /\ UNCHANGED <<freed, air, world, fault, reported, relayed, sent>>
  BY DEF Watch, TypeOK
<1> QED
  BY <1>1, <1>2, <1>3, <1>4, <1>5, <1>6 DEF TypeOK, world

LEMMA TypeSend ==
  ASSUME TypeOK, NEW p \in Packets, Send(p) PROVE TypeOK'
<1>1. outbox[p] \in FrameIds
  BY ConstantsAssumption DEF TypeOK, Send, FrameIds
<1> QED
  BY <1>1, ConstantsAssumption DEF TypeOK, Send, tables, world, Frame, Faults

LEMMA ReportType ==
  ASSUME TypeOK, NEW p \in Packets, Report(p) PROVE reported' \in [Packets -> Nat]
BY DEF TypeOK, Report

LEMMA EraseType ==
  ASSUME TypeOK, NEW k \in PacketIds, packets[k] # Null, Erase(k)
  PROVE  /\ packets' \in [PacketIds -> Packets \cup {Null}]
         /\ live' \subseteq Packets /\ freed' \subseteq Packets
BY DEF TypeOK, Erase, Metadata

LEMMA RetransmitType ==
  ASSUME TypeOK, NEW m \in Packets, NEW id \in FrameIds, Retransmit(m, id)
  PROVE  /\ frames' \in [FrameIds -> Packets \cup {Null}]
         /\ meta' \in [Packets -> Metadata]
         /\ sent' \in [Packets -> Nat]
         /\ NewFrame(m, id) \in Frame
<1>1. meta[m] \in Metadata
  BY DEF TypeOK
<1> DEFINE new == [packet |-> meta[m].packet, frame_id |-> id, check_timeout |-> FALSE,
                   counter |-> meta[m].counter + 1]
<1>2. new \in Metadata
  BY <1>1 DEF Metadata
<1>3. meta' = [meta EXCEPT ![m] = new]
  BY DEF Retransmit
<1>4. meta[m].packet \in Packets
  BY <1>1 DEF Metadata
<1>5. NewFrame(m, id) \in Frame
  BY <1>4 DEF TypeOK, NewFrame, Frame
<1> QED
  BY <1>2, <1>3, <1>4, <1>5 DEF TypeOK, Retransmit

LEMMA TypeStatusUnknown ==
  ASSUME TypeOK, NEW f \in air, StatusUnknown(f) PROVE TypeOK'
BY DEF TypeOK, StatusUnknown, world

LEMMA TypeStatusSuccess ==
  ASSUME TypeOK, NEW f \in air, StatusSuccess(f) PROVE TypeOK'
<1>1. meta' \in [Packets -> Metadata]
  BY DEF TypeOK, StatusSuccess, Metadata
<1> QED BY <1>1 DEF TypeOK, StatusSuccess, world

LEMMA TypeStatusRetry ==
  ASSUME TypeOK, NEW f \in air, StatusRetry(f) PROVE TypeOK'
<1> DEFINE m == frames[f.id]
<1>1. m \in Packets
  BY DEF TypeOK, StatusRetry
<1>2. PICK id \in Reservable : /\ Retransmit(m, id)
                               /\ air' = (air \ {f}) \cup {NewFrame(m, id)}
                               /\ id_occupation' = (id_occupation \cup {id}) \ {f.id}
  BY DEF StatusRetry
<1>3. id \in FrameIds
  BY ReservableType
<1> HIDE DEF m
<1> QED
  BY <1>1, <1>2, <1>3, RetransmitType DEF TypeOK, StatusRetry, world

LEMMA TypeStatusGiveUp ==
  ASSUME TypeOK, NEW f \in air, StatusGiveUp(f) PROVE TypeOK'
<1> DEFINE p == meta[frames[f.id]].packet
<1>1. p \in Packets
  BY DEF TypeOK, StatusGiveUp, Metadata
<1>2. Id(p) \in PacketIds /\ packets[Id(p)] # Null /\ Report(p) /\ Erase(Id(p))
  BY <1>1, IdType DEF StatusGiveUp
<1> HIDE DEF p
<1>3. /\ packets' \in [PacketIds -> Packets \cup {Null}]
      /\ live' \subseteq Packets /\ freed' \subseteq Packets
      /\ reported' \in [Packets -> Nat]
  BY <1>1, <1>2, EraseType, ReportType
<1> QED
  BY <1>3 DEF TypeOK, StatusGiveUp, world

LEMMA TypeStatusFault ==
  ASSUME TypeOK, NEW f \in air, StatusFault(f) PROVE TypeOK'
<1>1. reported' \in [Packets -> Nat] /\ fault' \in Faults
  BY ReportType DEF TypeOK, StatusFault, Faults, Metadata
<1> QED
  BY <1>1 DEF TypeOK, StatusFault, tables, world

LEMMA TypeHandleAck ==
  ASSUME TypeOK, NEW c \in beyond, HandleAck(c) PROVE TypeOK'
<1> DEFINE k == Id(c.packet)
           m == packets[k]
<1>1. k \in PacketIds /\ m \in Packets
  BY IdType DEF TypeOK, HandleAck, Copy
<1>2. meta[m].packet \in Packets
  BY <1>1 DEF TypeOK, Metadata
<1>3. relayed' \subseteq Packets
  BY <1>2 DEF TypeOK, HandleAck
<1>4. /\ packets' \in [PacketIds -> Packets \cup {Null}]
      /\ live' \subseteq Packets /\ freed' \subseteq Packets
  BY <1>1, EraseType DEF HandleAck
<1> QED
  BY <1>3, <1>4 DEF TypeOK, HandleAck

LEMMA TypeAckFaults ==
  ASSUME TypeOK, NEW c \in beyond, LateAck(c) \/ AckFromUnknown(c) \/ ErrorAck(c)
  PROVE  TypeOK'
BY DEF TypeOK, LateAck, AckFromUnknown, ErrorAck, tables, world, Faults

LEMMA TypeTickRetransmit ==
  ASSUME TypeOK, NEW k \in PacketIds, TickRetransmit(k) PROVE TypeOK'
<1> DEFINE m == packets[k]
<1>1. m \in Packets
  BY DEF TypeOK, TickRetransmit, Due
<1>2. PICK id \in Reservable : /\ Retransmit(m, id)
                               /\ air' = air \cup {NewFrame(m, id)}
                               /\ id_occupation' = id_occupation \cup {id}
  BY DEF TickRetransmit
<1>3. id \in FrameIds
  BY ReservableType
<1> HIDE DEF m
<1> QED
  BY <1>1, <1>2, <1>3, RetransmitType DEF TypeOK, TickRetransmit, world

LEMMA TypeTickErase ==
  ASSUME TypeOK, NEW k \in PacketIds, TickErase(k), packets[Id(meta[packets[k]].packet)] # Null
  PROVE  TypeOK'
<1> DEFINE p == meta[packets[k]].packet
<1>1. p \in Packets
  BY DEF TypeOK, TickErase, Due, Metadata
<1>2. Id(p) \in PacketIds /\ Report(p) /\ Erase(Id(p))
  BY <1>1, IdType DEF TickErase
<1> HIDE DEF p
<1>3. /\ packets' \in [PacketIds -> Packets \cup {Null}]
      /\ live' \subseteq Packets /\ freed' \subseteq Packets
      /\ reported' \in [Packets -> Nat]
  BY <1>1, <1>2, EraseType, ReportType DEF p
<1> QED
  BY <1>3 DEF TypeOK, TickErase, world, Faults

LEMMA TypeRadio ==
  ASSUME TypeOK, NEW f \in air, Radio(f) PROVE TypeOK'
<1>1. f \in Frame
  BY DEF TypeOK
<1>2. [f EXCEPT !.radio = "ok"] \in Frame /\ [f EXCEPT !.radio = "error"] \in Frame
  BY <1>1 DEF Frame
<1>3. \A through \in BOOLEAN :
        [packet |-> f.packet, nth |-> f.nth, through |-> through] \in Copy
  BY <1>1 DEF Frame, Copy
<1>4. f.packet \in Packets
  BY <1>1 DEF Frame
<1>5. CASE RadioDelivers(f)
  BY <1>5, <1>2, <1>3, <1>4 DEF TypeOK, RadioDelivers, tables
<1>6. CASE RadioFails(f)
  BY <1>6, <1>2 DEF TypeOK, RadioFails, tables, world
<1> QED BY <1>5, <1>6 DEF Radio

-----------------------------------------------------------------------------
(* packets_history is keyed by Packet::id().  erase() relies on it: it finds the *)
(* entry under the id of the packet it is given.                                 *)

KeyInv == \A k \in PacketIds : packets[k] # Null =>
  LET p == meta[packets[k]].packet IN
  packets[k] \in taken /\ p \in taken /\ packet_id[p] # 0 /\ Id(p) = k

TypeInv == TypeOK /\ KeyInv

LEMMA KeyWatch ==
  ASSUME TypeInv, NEW p \in Packets, Watch(p) PROVE KeyInv'
<1> USE DEF TypeInv
<1> DEFINE found == packets[Id(p)]
           m == IF found = Null THEN p ELSE found
           pid(id) == IF packet_id[p] = 0 THEN id ELSE packet_id[p]
           key(id) == <<Destination[p], Source[p], pid(id)>>
<1>0. m \in Packets
  BY IdType DEF TypeOK
<1> DEFINE new(id) == [packet |-> p, frame_id |-> id,
                       check_timeout |-> IF found = Null THEN FALSE ELSE meta[m].check_timeout,
                       counter |-> IF found = Null THEN 0 ELSE meta[m].counter]
<1>a. PICK id \in Reservable :
            /\ packet_id' = [packet_id EXCEPT ![p] = pid(id)]
            /\ packets' = [packets EXCEPT ![key(id)] = m]
            /\ meta' = [meta EXCEPT ![m] = new(id)]
  BY DEF Watch
<1>1. /\ packet_id' = [packet_id EXCEPT ![p] = pid(id)]
      /\ packets' = [packets EXCEPT ![key(id)] = m]
      /\ meta'[m].packet = p
      /\ \A n \in Packets : n # m => meta'[n] = meta[n]
  BY <1>0, <1>a DEF TypeOK
<1>2. id \in FrameIds /\ id # 0
  BY ReservableType DEF FrameIds
<1>3. p \notin taken /\ taken' = taken \cup {p}
  BY DEF Watch
<1>4. m \in Packets /\ pid(id) \in Nat \ {0}
  BY <1>2, IdType, ConstantsAssumption DEF TypeOK, FrameIds
<1>5. \A q \in taken : packet_id'[q] = packet_id[q]
  BY <1>1, <1>3 DEF TypeOK, Id
<1>6. <<Destination[p], Source[p], packet_id'[p]>> = key(id) /\ packet_id'[p] # 0
  BY <1>1, <1>4 DEF TypeOK, Id
<1>7. ASSUME NEW k \in PacketIds, packets[k] = m, found # Null PROVE k = key(id)
  BY <1>7, IdType DEF KeyInv, TypeOK, Id
<1>8. ASSUME NEW k \in PacketIds, packets[k] # Null, found = Null PROVE packets[k] # m
  BY <1>3, <1>8 DEF KeyInv
<1> SUFFICES ASSUME NEW k \in PacketIds, packets'[k] # Null
             PROVE  LET q == meta'[packets'[k]].packet IN
                    /\ packets'[k] \in taken' /\ q \in taken' /\ packet_id'[q] # 0
                    /\ <<Destination[q], Source[q], packet_id'[q]>> = k
  BY DEF KeyInv, Id
<1>9. CASE k = key(id)
  <2>1. packets'[k] = m
    BY <1>1, <1>9 DEF TypeOK
  <2>2. m \in taken'
    BY <1>3, IdType DEF KeyInv, TypeOK
  <2> QED BY <1>1, <1>3, <1>6, <1>9, <2>1, <2>2
<1>10. CASE k # key(id)
  <2>1. packets'[k] = packets[k] /\ packets[k] \in Packets
    BY <1>1, <1>10 DEF TypeOK
  <2>2. packets[k] # m
    BY <1>7, <1>8, <1>10, <2>1
  <2> QED BY <1>1, <1>3, <1>5, <2>1, <2>2 DEF KeyInv, Id
<1> QED BY <1>9, <1>10

LEMMA KeyErase ==
  ASSUME TypeInv, NEW k \in PacketIds, packets' = [packets EXCEPT ![k] = Null],
         UNCHANGED <<meta, packet_id, taken>>
  PROVE  KeyInv'
BY DEF TypeInv, TypeOK, KeyInv, Id

LEMMA KeyRetransmit ==
  ASSUME TypeInv, NEW m \in Packets, NEW id, Retransmit(m, id),
         UNCHANGED <<packets, packet_id, taken>>
  PROVE  KeyInv'
<1>1. \A n \in Packets : meta'[n].packet = meta[n].packet
  BY DEF TypeInv, TypeOK, Retransmit
<1> QED BY <1>1 DEF TypeInv, TypeOK, KeyInv, Id

LEMMA KeyUnchanged ==
  ASSUME TypeInv, UNCHANGED <<packets, meta, packet_id>>, taken \subseteq taken'
  PROVE  KeyInv'
BY DEF TypeInv, KeyInv, Id

LEMMA TypeNext == ASSUME TypeInv, [Next]_vars PROVE TypeInv'
<1> USE DEF TypeInv
<1>1. ASSUME NEW p \in Packets, DeliverNoRoute(p) PROVE TypeInv'
  BY <1>1, TypeDeliverNoRoute, KeyUnchanged DEF DeliverNoRoute, tables
<1>2. ASSUME NEW p \in Packets, Watch(p) PROVE TypeInv'
  BY <1>2, TypeWatch, KeyWatch
<1>3. ASSUME NEW p \in Packets, Send(p) PROVE TypeInv'
  BY <1>3, TypeSend, KeyUnchanged DEF Send, tables
<1>4. ASSUME NEW f \in air, HandleStatus(f) PROVE TypeInv'
  <2>1. CASE StatusUnknown(f)
    BY <2>1, TypeStatusUnknown, KeyUnchanged DEF StatusUnknown
  <2>2. CASE StatusSuccess(f)
    <3>1. \A n \in Packets : meta'[n].packet = meta[n].packet
      BY <2>2 DEF StatusSuccess, TypeOK
    <3>2. KeyInv'
      BY <2>2, <3>1 DEF StatusSuccess, TypeOK, KeyInv, Id
    <3> QED BY <2>2, <3>2, TypeStatusSuccess
  <2>3. CASE StatusRetry(f)
    <3>1. frames[f.id] \in Packets
      BY <2>3 DEF StatusRetry, TypeOK
    <3> QED BY <2>3, <3>1, TypeStatusRetry, KeyRetransmit DEF StatusRetry
  <2>4. CASE StatusGiveUp(f)
    <3>1. Id(meta[frames[f.id]].packet) \in PacketIds
      BY <2>4, IdType DEF StatusGiveUp, TypeOK, Metadata
    <3> QED BY <2>4, <3>1, TypeStatusGiveUp, KeyErase DEF StatusGiveUp, Erase
  <2>5. CASE StatusFault(f)
    BY <2>5, TypeStatusFault, KeyUnchanged DEF StatusFault, tables
  <2> QED BY <1>4, <2>1, <2>2, <2>3, <2>4, <2>5 DEF HandleStatus
<1>5. ASSUME NEW f \in air, Radio(f) PROVE TypeInv'
  BY <1>5, TypeRadio, KeyUnchanged DEF Radio, RadioDelivers, RadioFails, tables
<1>6. ASSUME NEW c \in beyond, HandleAck(c) PROVE TypeInv'
  <2>1. Id(c.packet) \in PacketIds
    BY IdType DEF TypeOK, Copy
  <2> QED BY <1>6, <2>1, TypeHandleAck, KeyErase DEF HandleAck, Erase
<1>7. ASSUME NEW c \in beyond, LateAck(c) \/ AckFromUnknown(c) \/ ErrorAck(c)
      PROVE TypeInv'
  BY <1>7, TypeAckFaults, KeyUnchanged DEF LateAck, AckFromUnknown, ErrorAck, tables
<1>8. ASSUME NEW k \in PacketIds, TickVisit(k) PROVE TypeInv'
  <2>1. packets[k] \in Packets /\ Id(meta[packets[k]].packet) = k
    BY <1>8 DEF TickVisit, TickRetransmit, TickErase, Due, TypeOK, KeyInv
  <2>2. CASE TickRetransmit(k)
    BY <2>1, <2>2, TypeTickRetransmit, KeyRetransmit DEF TickRetransmit
  <2>3. CASE TickErase(k)
    BY <2>1, <2>3, TypeTickErase, KeyErase, ConstantsAssumption DEF TickErase, Erase
  <2> QED BY <1>8, <2>2, <2>3 DEF TickVisit
<1>9. CASE UNCHANGED vars
  BY <1>9 DEF vars, TypeOK, KeyInv, Id
<1> QED BY <1>1, <1>2, <1>3, <1>4, <1>5, <1>6, <1>7, <1>8, <1>9 DEF Next

\* Type correctness: in particular no table ever names anything but a packet, and ids
\* stay in the range of History::id_occupation.
THEOREM TypeCorrect == Spec => []TypeOK
<1>1. Init => TypeInv
  BY TypeInit, ConstantsAssumption DEF TypeInv, KeyInv, Init
<1>2. TypeInv /\ [Next]_vars => TypeInv'
  BY TypeNext
<1>3. TypeInv => TypeOK
  BY DEF TypeInv
<1> QED
  BY <1>1, <1>2, <1>3, PTL DEF Spec

-----------------------------------------------------------------------------
(* Frame ids.  FrameIdsUnique is inductive: an id is free exactly if no frame  *)
(* holds it, reserve_id() hands out free ids only, and the StatusFrame releases *)
(* the id of its own frame.                                                     *)

LEMMA ReservableIsFree ==
  ASSUME NEW id \in Reservable, FreeIds # {}
  PROVE  id \in FrameIds /\ id \notin id_occupation /\ id # 0
BY DEF Reservable, FreeIds, FrameIds

LEMMA IdsUnchanged ==
  ASSUME FrameIdsUnique, UNCHANGED <<air, outbox, id_occupation, exhausted>>
  PROVE  FrameIdsUnique'
BY DEF FrameIdsUnique

LEMMA IdsRelease ==
  ASSUME FrameIdsUnique, NEW f \in air, air' = air \ {f},
         id_occupation' = id_occupation \ {f.id}, UNCHANGED <<outbox, exhausted>>
  PROVE  FrameIdsUnique'
<1> SUFFICES ASSUME ~ exhausted PROVE FrameIdsUnique'
  BY DEF FrameIdsUnique
<1>1. \A i \in FrameIds : i \in id_occupation' <=>
        (\E g \in air' : g.id = i) \/ (\E p \in Packets : outbox'[p] = i)
  BY DEF FrameIdsUnique
<1> QED BY <1>1 DEF FrameIdsUnique

\* One frame is answered and another one takes a new id.
LEMMA IdsRetry ==
  ASSUME FrameIdsUnique, NEW f \in air, NEW id \in Reservable, NEW new, new.id = id,
         air' = (air \ {f}) \cup {new},
         id_occupation' = (id_occupation \cup {id}) \ {f.id},
         exhausted' = (exhausted \/ FreeIds = {}), UNCHANGED outbox
  PROVE  FrameIdsUnique'
<1> SUFFICES ASSUME ~ exhausted' PROVE FrameIdsUnique'
  BY DEF FrameIdsUnique
<1>1. id \in FrameIds /\ id \notin id_occupation /\ id # 0
  BY ReservableIsFree
<1>2. \A g \in air : g.id # id
  BY <1>1 DEF FrameIdsUnique
<1>3. \A p \in Packets : outbox[p] # id
  BY <1>1 DEF FrameIdsUnique
<1>4. \A i \in FrameIds : i \in id_occupation' <=>
        (\E g \in air' : g.id = i) \/ (\E p \in Packets : outbox'[p] = i)
  BY <1>2, <1>3 DEF FrameIdsUnique
<1> QED BY <1>2, <1>3, <1>4 DEF FrameIdsUnique

LEMMA IdsTick ==
  ASSUME FrameIdsUnique, NEW id \in Reservable, NEW new, new.id = id,
         air' = air \cup {new}, id_occupation' = id_occupation \cup {id},
         exhausted' = (exhausted \/ FreeIds = {}), UNCHANGED outbox
  PROVE  FrameIdsUnique'
<1> SUFFICES ASSUME ~ exhausted' PROVE FrameIdsUnique'
  BY DEF FrameIdsUnique
<1>1. id \in FrameIds /\ id \notin id_occupation /\ id # 0
  BY ReservableIsFree
<1>2. \A g \in air : g.id # id
  BY <1>1 DEF FrameIdsUnique
<1>3. \A p \in Packets : outbox[p] # id
  BY <1>1 DEF FrameIdsUnique
<1>4. \A i \in FrameIds : i \in id_occupation' <=>
        (\E g \in air' : g.id = i) \/ (\E p \in Packets : outbox'[p] = i)
  BY <1>1 DEF FrameIdsUnique
<1> QED BY <1>2, <1>3, <1>4 DEF FrameIdsUnique

LEMMA IdsWatch ==
  ASSUME TypeOK, FrameIdsUnique, NEW p \in Packets, Watch(p) PROVE FrameIdsUnique'
<1>1. PICK id \in Reservable : /\ id_occupation' = id_occupation \cup {id}
                               /\ outbox' = [outbox EXCEPT ![p] = id]
  BY DEF Watch
<1>2. air' = air /\ exhausted' = (exhausted \/ FreeIds = {}) /\ outbox[p] = 0
  BY DEF Watch, Idle, RedisIdle, MainIdle
<1> SUFFICES ASSUME ~ exhausted' PROVE FrameIdsUnique'
  BY DEF FrameIdsUnique
<1>3. id \in FrameIds /\ id \notin id_occupation /\ id # 0
  BY <1>1, <1>2, ReservableIsFree
<1>4. outbox'[p] = id /\ \A q \in Packets : q # p => outbox'[q] = outbox[q]
  BY <1>1 DEF TypeOK
<1>5. (\A f \in air : f.id # id) /\ \A q \in Packets : outbox[q] # id
  BY <1>2, <1>3 DEF FrameIdsUnique
<1>6. ~ exhausted /\ 0 \notin FrameIds
  <2>1. ~ exhausted
    BY <1>2
  <2>2. 0 \notin FrameIds
    BY DEF FrameIds
  <2> QED BY <2>1, <2>2
<1>7. ASSUME NEW i \in FrameIds
      PROVE  i \in id_occupation' <=>
               (\E f \in air' : f.id = i) \/ (\E q \in Packets : outbox'[q] = i)
  <2>1. i \in id_occupation <=>
          (\E f \in air : f.id = i) \/ (\E q \in Packets : outbox[q] = i)
    BY <1>6 DEF FrameIdsUnique
  <2>2. CASE i = id
    BY <1>1, <1>4, <2>2
  <2>3. CASE i # id
    <3>1. (\E q \in Packets : outbox'[q] = i) <=> \E q \in Packets : outbox[q] = i
      BY <1>2, <1>4, <1>6, <2>3
    <3> QED BY <1>1, <1>2, <2>1, <2>3, <3>1
  <2> QED BY <2>2, <2>3
<1>8. \A f, g \in air' : f.id = g.id => f = g
  BY <1>2, <1>6 DEF FrameIdsUnique
<1>9. \A f \in air', q \in Packets : outbox'[q] # f.id
  BY <1>2, <1>4, <1>5, <1>6 DEF FrameIdsUnique
<1>10. \A q, t \in Packets : outbox'[q] = outbox'[t] /\ q # t => outbox'[q] = 0
  BY <1>4, <1>5, <1>6 DEF FrameIdsUnique
<1> QED BY <1>7, <1>8, <1>9, <1>10 DEF FrameIdsUnique

LEMMA IdsSend ==
  ASSUME TypeOK, FrameIdsUnique, NEW p \in Packets, Send(p) PROVE FrameIdsUnique'
<1>1. CASE p \in freed
  BY <1>1, IdsUnchanged DEF Send, tables
<1>2. CASE p \notin freed
  <2> DEFINE new == [id |-> outbox[p], packet |-> p, nth |-> sent[p] + 1, radio |-> "busy"]
  <2>1. /\ air' = air \cup {new} /\ new.id = outbox[p] /\ outbox[p] # 0
        /\ UNCHANGED <<id_occupation, exhausted>>
    BY <1>2 DEF Send, tables
  <2>2. outbox'[p] = 0 /\ \A q \in Packets : q # p => outbox'[q] = outbox[q]
    BY <1>2 DEF Send, TypeOK
  <2> HIDE DEF new
  <2> SUFFICES ASSUME ~ exhausted PROVE FrameIdsUnique'
    BY <2>1 DEF FrameIdsUnique
  <2>3. 0 \notin FrameIds
    BY DEF FrameIds
  <2>4. ASSUME NEW i \in FrameIds
        PROVE  i \in id_occupation' <=>
                 (\E f \in air' : f.id = i) \/ (\E q \in Packets : outbox'[q] = i)
    <3>1. i \in id_occupation <=>
            (\E f \in air : f.id = i) \/ (\E q \in Packets : outbox[q] = i)
      BY DEF FrameIdsUnique
    <3>2. CASE i = outbox[p]
      BY <2>1, <3>1, <3>2
    <3>3. CASE i # outbox[p]
      <4>1. (\E q \in Packets : outbox'[q] = i) <=> \E q \in Packets : outbox[q] = i
        BY <2>2, <2>3, <3>3
      <4> QED BY <2>1, <3>1, <3>3, <4>1
    <3> QED BY <3>2, <3>3
  <2>5. \A f, g \in air' : f.id = g.id => f = g
    BY <2>1 DEF FrameIdsUnique
  <2>6. \A f \in air', q \in Packets : outbox'[q] # f.id
    <3>1. \A f \in air, q \in Packets : outbox[q] # f.id
      BY DEF FrameIdsUnique
    <3>2. \A f \in air : f.id # 0
      BY <2>3 DEF TypeOK, Frame
    <3>3. \A q \in Packets : q # p => outbox[q] # outbox[p]
      BY <2>1 DEF FrameIdsUnique
    <3> QED BY <2>1, <2>2, <3>1, <3>2, <3>3
  <2>7. \A q, t \in Packets : outbox'[q] = outbox'[t] /\ q # t => outbox'[q] = 0
    BY <2>2 DEF FrameIdsUnique
  <2> QED BY <2>4, <2>5, <2>6, <2>7 DEF FrameIdsUnique
<1> QED BY <1>1, <1>2

LEMMA IdsRadio ==
  ASSUME TypeOK, FrameIdsUnique, NEW f \in air, Radio(f) PROVE FrameIdsUnique'
<1>1. PICK g : air' = (air \ {f}) \cup {g} /\ g.id = f.id
  <2>1. f \in Frame
    BY DEF TypeOK
  <2>2. [f EXCEPT !.radio = "ok"].id = f.id /\ [f EXCEPT !.radio = "error"].id = f.id
    BY <2>1 DEF Frame
  <2> QED BY <2>2 DEF Radio, RadioDelivers, RadioFails
<1>2. UNCHANGED <<outbox, id_occupation, exhausted>>
  BY DEF Radio, RadioDelivers, RadioFails, tables
<1> SUFFICES ASSUME ~ exhausted PROVE FrameIdsUnique'
  BY <1>2 DEF FrameIdsUnique
<1>3. \A i \in FrameIds : i \in id_occupation' <=>
        (\E h \in air' : h.id = i) \/ (\E q \in Packets : outbox'[q] = i)
  BY <1>1, <1>2 DEF FrameIdsUnique
<1> QED BY <1>1, <1>2, <1>3 DEF FrameIdsUnique

LEMMA IdsNext ==
  ASSUME TypeInv, FrameIdsUnique, [Next]_vars PROVE FrameIdsUnique'
<1> USE DEF TypeInv
<1>1. ASSUME NEW p \in Packets, DeliverNoRoute(p) \/ Watch(p) \/ Send(p)
      PROVE FrameIdsUnique'
  BY <1>1, IdsWatch, IdsSend, IdsUnchanged DEF DeliverNoRoute, tables
<1>2. ASSUME NEW f \in air, HandleStatus(f) PROVE FrameIdsUnique'
  <2>1. CASE StatusUnknown(f) \/ StatusSuccess(f) \/ StatusGiveUp(f)
    BY <2>1, IdsRelease DEF StatusUnknown, StatusSuccess, StatusGiveUp
  <2>2. CASE StatusRetry(f)
    <3>1. \A id : NewFrame(frames[f.id], id).id = id
      BY DEF NewFrame
    <3> QED BY <2>2, <3>1, IdsRetry DEF StatusRetry
  <2>3. CASE StatusFault(f)
    BY <2>3, IdsUnchanged DEF StatusFault, tables
  <2> QED BY <1>2, <2>1, <2>2, <2>3 DEF HandleStatus
<1>3. ASSUME NEW f \in air, Radio(f) PROVE FrameIdsUnique'
  BY <1>3, IdsRadio
<1>4. ASSUME NEW c \in beyond, HandleAck(c) \/ LateAck(c) \/ AckFromUnknown(c) \/ ErrorAck(c)
      PROVE FrameIdsUnique'
  BY <1>4, IdsUnchanged DEF HandleAck, LateAck, AckFromUnknown, ErrorAck, tables
<1>5. ASSUME NEW k \in PacketIds, TickVisit(k) PROVE FrameIdsUnique'
  <2>1. CASE TickRetransmit(k)
    <3>1. \A id : NewFrame(packets[k], id).id = id
      BY DEF NewFrame
    <3> QED BY <2>1, <3>1, IdsTick DEF TickRetransmit
  <2>2. CASE TickErase(k)
    BY <2>2, IdsUnchanged DEF TickErase
  <2> QED BY <1>5, <2>1, <2>2 DEF TickVisit
<1>6. CASE UNCHANGED vars
  BY <1>6, IdsUnchanged DEF vars
<1> QED BY <1>1, <1>2, <1>3, <1>4, <1>5, <1>6 DEF Next

\* Until reserve_id() finds all ids taken, no frame id stands for two frames, and no id
\* is lost: whatever the interleaving of the threads, StatusFrames and ACKs.
THEOREM FrameIds_Unique == Spec => []FrameIdsUnique
<1>1. Init => TypeInv /\ FrameIdsUnique
  <2> SUFFICES ASSUME Init PROVE TypeInv /\ FrameIdsUnique
    OBVIOUS
  <2>1. TypeInv
    BY TypeInit, ConstantsAssumption DEF TypeInv, KeyInv, Init
  <2>2. FrameIdsUnique
    BY DEF Init, FrameIdsUnique, FrameIds
  <2> QED BY <2>1, <2>2
<1>2. TypeInv /\ FrameIdsUnique /\ [Next]_vars => (TypeInv /\ FrameIdsUnique)'
  BY TypeNext, IdsNext
<1> QED
  BY <1>1, <1>2, PTL DEF Spec

-----------------------------------------------------------------------------
(* How often a packet is sent and how often it is given back to its        *)
(* application.  Neither RetryBound nor ReportedOnce is inductive.  A      *)
(* packet is sent and reported on behalf of the Metadata that refers to    *)
(* it, and Metadata is reached through two tables, so the strengthening    *)
(* says which Metadata speaks for which packet, and which tables can still *)
(* lead to it.                                                             *)

\* Nothing has happened to a packet before deliver() is called with it; Metadata in
\* packets_history is allocated; a packet is spoken for by one Metadata at most, and a
\* local one by the Metadata allocated for it.
AccountInv ==
  /\ \A p \in Packets \ taken : /\ packet_id[p] = WireId[p]
                                /\ sent[p] = 0 /\ outbox[p] = 0 /\ reported[p] = 0
  /\ \A k \in PacketIds : packets[k] # Null => packets[k] \in live
  /\ \A m \in live :
       /\ m \in taken /\ meta[m].packet \in taken
       /\ packet_id[meta[m].packet] # 0
       /\ meta[m].packet = m \/ (m \notin Local /\ meta[m].packet \notin Local)
  /\ \A m, n \in live : meta[m].packet = meta[n].packet => m = n

\* What deliver() still owes the radio for p.
Waiting(p) == IF outbox[p] = 0 THEN 0 ELSE 1

\* Frames sent or about to be sent are counted by the Metadata of the packet; a packet
\* whose Metadata was taken over by a later copy, or deleted, is within the bound too.
RetryInv ==
  /\ \A p \in Packets : sent[p] + Waiting(p) <= 1 + RetransmissionMax
  /\ \A m \in live : /\ meta[m].counter <= RetransmissionMax
                     /\ sent[meta[m].packet] + Waiting(meta[m].packet) <= 1 + meta[m].counter

\* Metadata of a local packet is in frames_history under its own frame_id only, and in
\* neither table once the packet has been reported.
ReportInv ==
  /\ \A i \in FrameIds : frames[i] # Null => frames[i] \in taken
  /\ \A i \in FrameIds : frames[i] \in Local => meta[frames[i]].frame_id = i
  /\ \A p \in Local : reported[p] <= 1
  /\ \A p \in Local : reported[p] = 1 /\ fault = "none" =>
       (\A i \in FrameIds : frames[i] # p) /\ (\A k \in PacketIds : packets[k] # p)

Ledger == TypeInv /\ AccountInv

-----------------------------------------------------------------------------
(* What the composite actions do to the tables. *)

LEMMA LocalFacts ==
  ASSUME NEW p \in Packets
  PROVE  (p \in Local <=> WireId[p] = 0) /\ Null \notin Packets
BY ConstantsAssumption DEF Local

\* watch() gave p the frame id and the Metadata m: one of its own, or that of an
\* earlier copy, which a local packet never finds.
Watched(p, m, id) ==
  /\ \/ m = p /\ live' = live \cup {p} /\ meta'[m].counter = 0
     \/ /\ m \in live /\ m \notin Local /\ p \notin Local /\ live' = live
        /\ meta'[m].counter = meta[m].counter
  /\ meta'[m].packet = p /\ meta'[m].frame_id = id
  /\ \A n \in Packets : n # m => meta'[n] = meta[n]
  /\ frames' = [frames EXCEPT ![id] = m]
  /\ \A k \in PacketIds : packets'[k] = m \/ packets'[k] = packets[k]
  /\ outbox' = [outbox EXCEPT ![p] = id]
  /\ packet_id'[p] # 0
  /\ \A q \in Packets : q # p => packet_id'[q] = packet_id[q]

LEMMA WatchEffect ==
  ASSUME Ledger, NEW p \in Packets, Watch(p)
  PROVE  \E m \in Packets, id \in FrameIds : Watched(p, m, id)
<1> USE DEF Ledger, TypeInv
<1> DEFINE found == packets[Id(p)]
           m == IF found = Null THEN p ELSE found
           pid(id) == IF packet_id[p] = 0 THEN id ELSE packet_id[p]
           new(id) == [packet |-> p, frame_id |-> id,
                       check_timeout |-> IF found = Null THEN FALSE ELSE meta[m].check_timeout,
                       counter |-> IF found = Null THEN 0 ELSE meta[m].counter]
<1>1. PICK id \in Reservable :
            /\ packet_id' = [packet_id EXCEPT ![p] = pid(id)]
            /\ packets' = [packets EXCEPT ![<<Destination[p], Source[p], pid(id)>>] = m]
            /\ frames' = [frames EXCEPT ![id] = m]
            /\ meta' = [meta EXCEPT ![m] = new(id)]
            /\ outbox' = [outbox EXCEPT ![p] = id]
  BY DEF Watch
<1>2. id \in FrameIds /\ id # 0
  BY ReservableType DEF FrameIds
<1>3. m \in Packets /\ Id(p) \in PacketIds
  BY IdType DEF TypeOK
<1>4. meta' [m] = new(id) /\ \A n \in Packets : n # m => meta'[n] = meta[n]
  BY <1>1, <1>3 DEF TypeOK
<1>5. /\ packet_id'[p] # 0
      /\ \A q \in Packets : q # p => packet_id'[q] = packet_id[q]
  BY <1>1, <1>2 DEF TypeOK
<1>6. \A k \in PacketIds : packets'[k] = m \/ packets'[k] = packets[k]
  BY <1>1 DEF TypeOK
<1>7. /\ found = Null => live' = live \cup {p}
      /\ found # Null => live' = live
      /\ p \notin taken
  BY DEF Watch
<1>8. CASE found = Null
  <2>1. m = p /\ live' = live \cup {p} /\ new(id).counter = 0
    BY <1>7, <1>8
  <2>2. new(id).packet = p /\ new(id).frame_id = id
    OBVIOUS
  <2> HIDE DEF new, found, m, pid
  <2>3. Watched(p, m, id)
    BY <1>1, <1>4, <1>5, <1>6, <2>1, <2>2 DEF Watched
  <2> QED BY <1>2, <1>3, <2>3
<1>9. CASE found # Null
  <2>1. m = found /\ m \in live
    BY <1>3, <1>9 DEF AccountInv
  <2>2. PICK q \in Packets : q = meta[m].packet
    BY <1>3 DEF TypeOK, Metadata
  <2>3. Id(q) = Id(p) /\ packet_id[q] # 0
    BY <1>3, <1>9, <2>1, <2>2 DEF KeyInv
  <2>4. packet_id[p] # 0 /\ Source[p] = Source[q]
    BY <2>3 DEF Id
  <2>5. p \notin Local
    BY <1>7, <2>4, LocalFacts DEF AccountInv
  <2>6. q \notin Local
    BY <2>4, <2>5 DEF Local
  <2>7. m \notin Local
    BY <2>1, <2>2, <2>6 DEF AccountInv
  <2>8. new(id).packet = p /\ new(id).frame_id = id /\ new(id).counter = meta[m].counter
    BY <1>9
  <2>9. live' = live
    BY <1>7, <1>9
  <2> HIDE DEF new, found, m, pid
  <2>10. Watched(p, m, id)
    BY <1>1, <1>4, <1>5, <1>6, <2>1, <2>5, <2>7, <2>8, <2>9 DEF Watched
  <2> QED BY <1>2, <1>3, <2>10
<1> QED BY <1>8, <1>9

LEMMA RetransmitEffect ==
  ASSUME TypeOK, NEW m \in Packets, NEW id \in FrameIds, Retransmit(m, id)
  PROVE  /\ meta[m].packet \in Packets /\ meta[m].frame_id \in FrameIds
         /\ meta'[m].packet = meta[m].packet /\ meta'[m].frame_id = id
         /\ meta'[m].counter = meta[m].counter + 1
         /\ \A n \in Packets : n # m => meta'[n] = meta[n]
         /\ frames' = [frames EXCEPT ![meta[m].frame_id] = Null, ![id] = m]
         /\ sent' = [sent EXCEPT ![meta[m].packet] = @ + 1]
<1>1. meta[m] \in Metadata
  BY DEF TypeOK
<1> DEFINE new == [packet |-> meta[m].packet, frame_id |-> id, check_timeout |-> FALSE,
                   counter |-> meta[m].counter + 1]
<1>2. meta' = [meta EXCEPT ![m] = new]
  BY DEF Retransmit
<1>3. meta'[m] = new /\ \A n \in Packets : n # m => meta'[n] = meta[n]
  BY <1>2 DEF TypeOK
<1> QED BY <1>1, <1>3 DEF Retransmit, Metadata

-----------------------------------------------------------------------------
(* AccountInv is inductive. *)

\* The steps that leave packets_history, the packets of Metadata and the id of every
\* packet alone, and whose counters move for accepted packets only.
LEMMA AccountSame ==
  ASSUME Ledger, UNCHANGED <<packets, live, packet_id>>, taken \subseteq taken',
         \A n \in Packets : meta'[n].packet = meta[n].packet,
         \A q \in Packets \ taken' : /\ sent'[q] = sent[q] /\ outbox'[q] = outbox[q]
                                     /\ reported'[q] = reported[q]
  PROVE  AccountInv'
<1> USE DEF Ledger, TypeInv
<1>1. \A q \in Packets \ taken' : /\ packet_id'[q] = WireId[q]
                                  /\ sent'[q] = 0 /\ outbox'[q] = 0 /\ reported'[q] = 0
  BY DEF AccountInv
<1>2. \A m \in live' :
       /\ m \in taken' /\ meta'[m].packet \in taken'
       /\ packet_id'[meta'[m].packet] # 0
       /\ meta'[m].packet = m \/ (m \notin Local /\ meta'[m].packet \notin Local)
  BY DEF AccountInv, TypeOK
<1>3. \A m, n \in live' : meta'[m].packet = meta'[n].packet => m = n
  BY DEF AccountInv, TypeOK
<1> QED BY <1>1, <1>2, <1>3 DEF AccountInv

LEMMA AccountWatch ==
  ASSUME Ledger, NEW p \in Packets, Watch(p) PROVE AccountInv'
<1> USE DEF Ledger, TypeInv
<1>1. PICK m \in Packets, id \in FrameIds : Watched(p, m, id)
  BY WatchEffect
<1>2. p \notin taken /\ taken' = taken \cup {p} /\ UNCHANGED <<sent, reported>>
  BY DEF Watch
<1>3. live \subseteq live' /\ live' \subseteq live \cup {m} /\ m \in live'
  BY <1>1 DEF Watched
<1>4. \A q \in Packets \ taken' : /\ packet_id'[q] = WireId[q]
                                  /\ sent'[q] = 0 /\ outbox'[q] = 0 /\ reported'[q] = 0
  BY <1>1, <1>2 DEF AccountInv, Watched, TypeOK
<1>5. \A k \in PacketIds : packets'[k] # Null => packets'[k] \in live'
  BY <1>1, <1>3 DEF AccountInv, Watched
<1>6. \A n \in live : n # m => /\ meta'[n] = meta[n] /\ meta[n].packet \in taken
                               /\ meta[n].packet # p /\ meta[n].packet \in Packets
  BY <1>1, <1>2 DEF AccountInv, Watched, TypeOK
<1>7. ASSUME NEW n \in live'
      PROVE  /\ n \in taken' /\ meta'[n].packet \in taken'
             /\ packet_id'[meta'[n].packet] # 0
             /\ meta'[n].packet = n \/ (n \notin Local /\ meta'[n].packet \notin Local)
  <2>1. CASE n = m
    BY <1>1, <1>2, <2>1 DEF AccountInv, Watched
  <2>2. CASE n # m
    BY <1>1, <1>2, <1>3, <1>6, <2>2 DEF AccountInv, Watched
  <2> QED BY <2>1, <2>2
<1>8. \A n, l \in live' : meta'[n].packet = meta'[l].packet => n = l
  BY <1>1, <1>3, <1>6 DEF AccountInv, Watched
<1> QED BY <1>4, <1>5, <1>7, <1>8 DEF AccountInv

\* erase() deletes the Metadata that no other entry refers to.
LEMMA AccountErase ==
  ASSUME Ledger, NEW k \in PacketIds, packets[k] # Null, Erase(k),
         UNCHANGED <<meta, packet_id, taken, sent, outbox>>,
         \A q \in Packets \ taken : reported'[q] = reported[q]
  PROVE  AccountInv'
<1> USE DEF Ledger, TypeInv
<1>1. \A j \in PacketIds : packets'[j] = IF j = k THEN Null ELSE packets[j]
  BY DEF Erase, TypeOK
<1>2. \A j \in PacketIds : j # k /\ packets[j] # Null => packets[j] # packets[k]
  BY DEF KeyInv
<1>3. \A j \in PacketIds : packets'[j] # Null => packets'[j] \in live'
  BY <1>1, <1>2 DEF AccountInv, Erase
<1>4. live' \subseteq live
  BY DEF Erase
<1> QED BY <1>3, <1>4 DEF AccountInv

LEMMA AccountNext == ASSUME Ledger, [Next]_vars PROVE AccountInv'
<1> USE DEF Ledger, TypeInv
<1>1. ASSUME NEW p \in Packets, DeliverNoRoute(p) PROVE AccountInv'
  <2>1. \A q \in Packets \ taken' : reported'[q] = reported[q]
    BY <1>1 DEF DeliverNoRoute, Report, TypeOK
  <2> QED BY <1>1, <2>1, AccountSame DEF DeliverNoRoute, tables
<1>2. ASSUME NEW p \in Packets, Watch(p) PROVE AccountInv'
  BY <1>2, AccountWatch
<1>3. ASSUME NEW p \in Packets, Send(p) PROVE AccountInv'
  <2>1. p \in taken
    BY <1>3 DEF Send, AccountInv
  <2>2. \A q \in Packets \ taken : sent'[q] = sent[q] /\ outbox'[q] = outbox[q]
    BY <1>3, <2>1 DEF Send, TypeOK
  <2> QED BY <1>3, <2>2, AccountSame DEF Send, tables
<1>4. ASSUME NEW m \in Packets, NEW id \in FrameIds, Retransmit(m, id), m \in live,
             UNCHANGED <<packets, live, packet_id, taken, outbox, reported>>
      PROVE  AccountInv'
  <2>1. \A n \in Packets : meta'[n].packet = meta[n].packet
    BY <1>4, RetransmitEffect
  <2>2. \A q \in Packets \ taken : sent'[q] = sent[q]
    BY <1>4, RetransmitEffect DEF AccountInv, TypeOK
  <2> QED BY <1>4, <2>1, <2>2, AccountSame
<1>5. ASSUME NEW f \in air, HandleStatus(f) PROVE AccountInv'
  <2>1. CASE StatusUnknown(f)
    BY <2>1, AccountSame DEF StatusUnknown
  <2>2. CASE StatusSuccess(f)
    <3>1. \A n \in Packets : meta'[n].packet = meta[n].packet
      BY <2>2 DEF StatusSuccess, TypeOK
    <3> QED BY <2>2, <3>1, AccountSame DEF StatusSuccess
  <2>3. CASE StatusRetry(f)
    <3>1. frames[f.id] \in Packets /\ frames[f.id] \in live
      BY <2>3 DEF StatusRetry, TypeOK
    <3> QED BY <2>3, <3>1, <1>4, ReservableType DEF StatusRetry
  <2>4. CASE StatusGiveUp(f)
    <3>1. /\ meta[frames[f.id]].packet \in Packets
          /\ meta[frames[f.id]].packet \in taken
      BY <2>4 DEF StatusGiveUp, TypeOK, Metadata, AccountInv
    <3>2. Id(meta[frames[f.id]].packet) \in PacketIds
      BY <3>1, IdType
    <3>3. \A q \in Packets \ taken : reported'[q] = reported[q]
      BY <2>4, <3>1 DEF StatusGiveUp, Report, TypeOK
    <3> QED BY <2>4, <3>2, <3>3, AccountErase DEF StatusGiveUp
  <2>5. CASE StatusFault(f)
    <3>1. \A q \in Packets \ taken : reported'[q] = reported[q]
      BY <2>5 DEF StatusFault, Report, TypeOK, Metadata, AccountInv
    <3> QED BY <2>5, <3>1, AccountSame DEF StatusFault, tables
  <2> QED BY <1>5, <2>1, <2>2, <2>3, <2>4, <2>5 DEF HandleStatus
<1>6. ASSUME NEW f \in air, Radio(f) PROVE AccountInv'
  BY <1>6, AccountSame DEF Radio, RadioDelivers, RadioFails, tables
<1>7. ASSUME NEW c \in beyond, HandleAck(c) PROVE AccountInv'
  <2>1. Id(c.packet) \in PacketIds
    BY IdType DEF TypeOK, Copy
  <2> QED BY <1>7, <2>1, AccountErase DEF HandleAck
<1>8. ASSUME NEW c \in beyond, LateAck(c) \/ AckFromUnknown(c) \/ ErrorAck(c)
      PROVE  AccountInv'
  BY <1>8, AccountSame DEF LateAck, AckFromUnknown, ErrorAck, tables
<1>9. ASSUME NEW k \in PacketIds, TickVisit(k) PROVE AccountInv'
  <2>1. /\ packets[k] \in Packets /\ packets[k] \in live
        /\ Id(meta[packets[k]].packet) = k /\ meta[packets[k]].packet \in taken
    BY <1>9 DEF TickVisit, TickRetransmit, TickErase, Due, TypeOK, KeyInv, AccountInv
  <2>2. CASE TickRetransmit(k)
    BY <2>1, <2>2, <1>4, ReservableType DEF TickRetransmit
  <2>3. CASE TickErase(k)
    <3>1. \A q \in Packets \ taken : reported'[q] = reported[q]
      BY <2>1, <2>3 DEF TickErase, Report, TypeOK
    <3> QED BY <2>1, <2>3, <3>1, AccountErase, ConstantsAssumption DEF TickErase
  <2> QED BY <1>9, <2>2, <2>3 DEF TickVisit
<1>10. CASE UNCHANGED vars
  BY <1>10, AccountSame DEF vars
<1> QED BY <1>1, <1>2, <1>3, <1>5, <1>6, <1>7, <1>8, <1>9, <1>10 DEF Next

LEMMA LedgerInit == Init => Ledger
<1> SUFFICES ASSUME Init PROVE Ledger
  OBVIOUS
<1>1. TypeInv
  BY TypeInit, ConstantsAssumption DEF TypeInv, KeyInv, Init
<1>2. AccountInv
  BY ConstantsAssumption DEF AccountInv, Init
<1> QED BY <1>1, <1>2 DEF Ledger

LEMMA LedgerNext == Ledger /\ [Next]_vars => Ledger'
BY TypeNext, AccountNext DEF Ledger

-----------------------------------------------------------------------------
(* The retransmission budget. *)

LEMMA RetrySame ==
  ASSUME Ledger, RetryInv, UNCHANGED <<sent, outbox>>, live' \subseteq live,
         \A n \in Packets : /\ meta'[n].packet = meta[n].packet
                            /\ meta'[n].counter = meta[n].counter
  PROVE  RetryInv'
BY DEF Ledger, TypeInv, TypeOK, RetryInv, Waiting

LEMMA RetryWatch ==
  ASSUME Ledger, RetryInv, NEW p \in Packets, Watch(p) PROVE RetryInv'
<1> USE DEF Ledger, TypeInv
<1> DEFINE Waits(q) == IF outbox'[q] = 0 THEN 0 ELSE 1
<1>1. PICK m \in Packets, id \in FrameIds : Watched(p, m, id)
  BY WatchEffect
<1>2. p \notin taken /\ sent' = sent
  BY DEF Watch
<1>3. sent'[p] = 0 /\ Waits(p) = 1
  BY <1>1, <1>2 DEF AccountInv, Watched, Waiting, TypeOK, FrameIds
<1>4. \A q \in Packets : q # p => sent'[q] = sent[q] /\ Waits(q) = Waiting(q)
  BY <1>1, <1>2 DEF Watched, Waiting, TypeOK
<1>5. \A q \in Packets : sent'[q] + Waits(q) <= 1 + RetransmissionMax
  BY <1>3, <1>4, ConstantsAssumption DEF RetryInv
<1>6. ASSUME NEW n \in live'
      PROVE  /\ meta'[n].counter <= RetransmissionMax
             /\ sent'[meta'[n].packet] + Waits(meta'[n].packet) <= 1 + meta'[n].counter
  <2>1. CASE n = m
    <3>1. meta'[n].packet = p /\ meta'[n].counter \in Nat
      BY <1>1, <2>1 DEF Watched, TypeOK, Metadata
    <3>2. meta'[n].counter <= RetransmissionMax
      BY <1>1, <2>1, ConstantsAssumption DEF Watched, RetryInv
    <3>3. sent'[meta'[n].packet] = 0 /\ Waits(meta'[n].packet) = 1
      BY <1>3, <3>1 DEF Waiting
    <3> QED BY <3>1, <3>2, <3>3
  <2>2. CASE n # m
    <3>1. n \in live /\ meta'[n] = meta[n]
      BY <1>1, <2>2 DEF Watched, TypeOK
    <3>2. PICK q \in Packets : q = meta[n].packet /\ q # p
      BY <1>2, <3>1 DEF AccountInv, TypeOK
    <3>3. sent'[q] = sent[q] /\ Waits(q) = Waiting(q)
      BY <1>4, <3>2
    <3>4. /\ meta[n].counter <= RetransmissionMax
          /\ sent[q] + Waiting(q) <= 1 + meta[n].counter
      BY <3>1, <3>2 DEF RetryInv
    <3>5. meta'[n].packet = q /\ meta'[n].counter = meta[n].counter
      BY <3>1, <3>2
    <3> QED BY <3>3, <3>4, <3>5 DEF Waiting
  <2> QED BY <2>1, <2>2
<1> QED BY <1>5, <1>6 DEF RetryInv, Waiting

LEMMA RetrySend ==
  ASSUME Ledger, RetryInv, NEW p \in Packets, Send(p) PROVE RetryInv'
<1> USE DEF Ledger, TypeInv
<1>1. CASE p \in freed
  BY <1>1, RetrySame DEF Send, tables
<1>2. CASE p \notin freed
  <2>1. \A q \in Packets : sent'[q] + Waiting(q)' = sent[q] + Waiting(q)
    BY <1>2 DEF Send, Waiting, TypeOK
  <2>2. UNCHANGED <<meta, live>>
    BY DEF Send, tables
  <2> QED BY <2>1, <2>2 DEF RetryInv, Waiting, TypeOK, Metadata
<1> QED BY <1>1, <1>2

LEMMA RetryRetransmit ==
  ASSUME Ledger, RetryInv, NEW m \in live, NEW id \in FrameIds,
         RetriesLeft(m), Retransmit(m, id), UNCHANGED <<live, outbox>>
  PROVE  RetryInv'
<1> USE DEF Ledger, TypeInv
<1>1. m \in Packets
  BY DEF TypeOK
<1>2. PICK p \in Packets : p = meta[m].packet
  BY <1>1 DEF TypeOK, Metadata
<1>3. /\ meta[m].counter \in Nat /\ meta[m].counter < RetransmissionMax
      /\ sent[p] \in Nat /\ sent[p] + Waiting(p) <= 1 + meta[m].counter
  BY <1>1, <1>2 DEF RetryInv, RetriesLeft, TypeOK, Metadata
<1>4. /\ meta'[m].packet = p /\ meta'[m].counter = meta[m].counter + 1
      /\ \A n \in Packets : n # m => meta'[n] = meta[n]
      /\ sent'[p] = sent[p] + 1 /\ \A q \in Packets : q # p => sent'[q] = sent[q]
  BY <1>1, <1>2, RetransmitEffect DEF TypeOK
<1>5. \A q : Waiting(q)' = Waiting(q) /\ Waiting(q) \in Nat
  BY DEF Waiting
<1>6. sent'[p] + Waiting(p) <= 1 + meta'[m].counter /\ meta'[m].counter <= RetransmissionMax
  BY <1>3, <1>4, <1>5, ConstantsAssumption
<1>7. \A q \in Packets : sent'[q] + Waiting(q) <= 1 + RetransmissionMax
  <2> TAKE q \in Packets
  <2>1. CASE q = p
    BY <1>3, <1>4, <1>5, <1>6, <2>1, ConstantsAssumption
  <2>2. CASE q # p
    BY <1>4, <2>2 DEF RetryInv
  <2> QED BY <2>1, <2>2
<1>8. ASSUME NEW n \in live, n # m
      PROVE  /\ meta'[n].counter <= RetransmissionMax
             /\ sent'[meta'[n].packet] + Waiting(meta'[n].packet) <= 1 + meta'[n].counter
  <2>1. n \in Packets /\ meta[n].packet \in Packets
    BY DEF TypeOK, Metadata
  <2>2. meta[n].packet # p
    BY <1>2, <1>8 DEF AccountInv
  <2> QED BY <1>4, <1>8, <2>1, <2>2 DEF RetryInv
<1>9. \A n \in live :
        /\ meta'[n].counter <= RetransmissionMax
        /\ sent'[meta'[n].packet] + Waiting(meta'[n].packet) <= 1 + meta'[n].counter
  BY <1>4, <1>6, <1>8
<1> QED BY <1>5, <1>7, <1>9 DEF RetryInv, Waiting

LEMMA RetryNext == ASSUME Ledger, RetryInv, [Next]_vars PROVE RetryInv'
<1> USE DEF Ledger, TypeInv
<1>1. ASSUME NEW p \in Packets, DeliverNoRoute(p) \/ Watch(p) \/ Send(p) PROVE RetryInv'
  BY <1>1, RetryWatch, RetrySend, RetrySame DEF DeliverNoRoute, tables
<1>2. ASSUME NEW f \in air, HandleStatus(f) PROVE RetryInv'
  <2>1. CASE StatusSuccess(f)
    <3>1. \A n \in Packets : /\ meta'[n].packet = meta[n].packet
                             /\ meta'[n].counter = meta[n].counter
      BY <2>1 DEF StatusSuccess, TypeOK
    <3> QED BY <2>1, <3>1, RetrySame DEF StatusSuccess
  <2>2. CASE StatusRetry(f)
    BY <2>2, RetryRetransmit, ReservableType DEF StatusRetry
  <2>3. CASE StatusUnknown(f) \/ StatusGiveUp(f) \/ StatusFault(f)
    BY <2>3, RetrySame DEF StatusUnknown, StatusGiveUp, StatusFault, Erase, tables
  <2> QED BY <1>2, <2>1, <2>2, <2>3 DEF HandleStatus
<1>3. ASSUME NEW f \in air, Radio(f) PROVE RetryInv'
  BY <1>3, RetrySame DEF Radio, RadioDelivers, RadioFails, tables
<1>4. ASSUME NEW c \in beyond, HandleAck(c) \/ LateAck(c) \/ AckFromUnknown(c) \/ ErrorAck(c)
      PROVE RetryInv'
  BY <1>4, RetrySame DEF HandleAck, LateAck, AckFromUnknown, ErrorAck, Erase, tables
<1>5. ASSUME NEW k \in PacketIds, TickVisit(k) PROVE RetryInv'
  <2>1. CASE TickRetransmit(k)
    <3>1. packets[k] \in live
      BY <2>1 DEF TickRetransmit, Due, AccountInv
    <3> QED BY <2>1, <3>1, RetryRetransmit, ReservableType DEF TickRetransmit
  <2>2. CASE TickErase(k)
    BY <2>2, RetrySame DEF TickErase, Erase
  <2> QED BY <1>5, <2>1, <2>2 DEF TickVisit
<1>6. CASE UNCHANGED vars
  BY <1>6, RetrySame DEF vars
<1> QED BY <1>1, <1>2, <1>3, <1>4, <1>5, <1>6 DEF Next

\* However StatusFrames and timeouts interleave, a node never sends more than
\* 1 + retransmission_max frames with one packet.
THEOREM Retries_Bounded == Spec => []RetryBound
<1>1. Init => Ledger /\ RetryInv
  <2> SUFFICES ASSUME Init PROVE Ledger /\ RetryInv
    OBVIOUS
  <2>1. RetryInv
    BY ConstantsAssumption DEF Init, RetryInv, Waiting
  <2> QED BY <2>1, LedgerInit
<1>2. Ledger /\ RetryInv /\ [Next]_vars => (Ledger /\ RetryInv)'
  BY LedgerNext, RetryNext
<1>3. Ledger /\ RetryInv => RetryBound
  BY ConstantsAssumption DEF Ledger, TypeInv, TypeOK, RetryInv, RetryBound, Waiting
<1> QED
  BY <1>1, <1>2, <1>3, PTL DEF Spec

-----------------------------------------------------------------------------
(* Reports. *)

\* Entries disappear, nothing is reported.
LEMMA ReportSame ==
  ASSUME Ledger, ReportInv, reported' = reported, taken \subseteq taken',
         fault' = "none" => fault = "none",
         \A n \in Packets : meta'[n].frame_id = meta[n].frame_id,
         \A i \in FrameIds : frames'[i] = frames[i] \/ frames'[i] = Null,
         \A k \in PacketIds : packets'[k] = packets[k] \/ packets'[k] = Null
  PROVE  ReportInv'
BY ConstantsAssumption DEF Ledger, TypeInv, TypeOK, ReportInv, Local

LEMMA ReportDeliverNoRoute ==
  ASSUME Ledger, ReportInv, NEW p \in Packets, DeliverNoRoute(p) PROVE ReportInv'
<1> USE DEF Ledger, TypeInv
<1>1. /\ p \notin taken /\ taken' = taken \cup {p} /\ Report(p) /\ fault = "none"
      /\ UNCHANGED <<packets, frames, meta>>
  BY DEF DeliverNoRoute, tables
<1>2. (\A i \in FrameIds : frames[i] # p) /\ (\A k \in PacketIds : packets[k] # p)
  BY <1>1, LocalFacts DEF ReportInv, AccountInv
<1>3. reported[p] = 0 /\ \A q \in Packets : q # p => reported'[q] = reported[q]
  BY <1>1 DEF AccountInv, Report, TypeOK
<1>4. p \in Local => reported'[p] = 1
  BY <1>1, <1>3 DEF Report, TypeOK
<1>5. \A q \in Local : reported'[q] <= 1
  BY <1>3, <1>4 DEF ReportInv, Local
<1>6. \A q \in Local : reported'[q] = 1 =>
        (\A i \in FrameIds : frames[i] # q) /\ (\A k \in PacketIds : packets[k] # q)
  BY <1>1, <1>2, <1>3 DEF ReportInv, Local
<1> QED BY <1>1, <1>5, <1>6 DEF ReportInv

LEMMA ReportWatch ==
  ASSUME Ledger, ReportInv, NEW p \in Packets, Watch(p) PROVE ReportInv'
<1> USE DEF Ledger, TypeInv
<1>1. PICK m \in Packets, id \in FrameIds : Watched(p, m, id)
  BY WatchEffect
<1>2. /\ p \notin taken /\ taken' = taken \cup {p} /\ fault = "none" /\ fault' = fault
      /\ reported' = reported
  BY DEF Watch
<1>3. m \in taken' /\ (m = p \/ m \notin Local)
  BY <1>1, <1>2 DEF Watched, AccountInv
<1>4. \A i \in FrameIds : frames'[i] = IF i = id THEN m ELSE frames[i]
  BY <1>1 DEF Watched, TypeOK
<1>5. p \in Local => reported[p] = 0
  BY <1>2 DEF AccountInv
<1>6. \A i \in FrameIds : frames'[i] # Null => frames'[i] \in taken'
  BY <1>2, <1>3, <1>4 DEF ReportInv
<1>7. ASSUME NEW i \in FrameIds, frames'[i] \in Local PROVE meta'[frames'[i]].frame_id = i
  <2>1. CASE i = id
    BY <1>1, <1>4, <2>1 DEF Watched
  <2>2. CASE i # id
    <3>1. frames'[i] = frames[i] /\ frames[i] \in taken /\ frames[i] \in Packets
      BY <1>4, <1>7, <2>2, LocalFacts DEF ReportInv, Local
    <3>2. frames[i] # m
      BY <1>2, <1>3, <1>7, <3>1
    <3> QED BY <1>1, <1>7, <3>1, <3>2 DEF Watched, ReportInv
  <2> QED BY <2>1, <2>2
<1>8. ASSUME NEW q \in Local, reported'[q] = 1
      PROVE  (\A i \in FrameIds : frames'[i] # q) /\ (\A k \in PacketIds : packets'[k] # q)
  <2>1. q # m
    BY <1>2, <1>3, <1>5, <1>8
  <2>2. (\A i \in FrameIds : frames[i] # q) /\ (\A k \in PacketIds : packets[k] # q)
    BY <1>2, <1>8 DEF ReportInv
  <2> QED BY <1>1, <1>4, <2>1, <2>2 DEF Watched
<1> QED BY <1>2, <1>6, <1>7, <1>8 DEF ReportInv

\* Some table leads to Metadata m.
Reachable(m) == \/ \E i \in FrameIds : frames[i] = m
                \/ \E k \in PacketIds : packets[k] = m

LEMMA ReportRetransmit ==
  ASSUME Ledger, ReportInv, NEW m \in live, NEW id \in FrameIds, Retransmit(m, id),
         Reachable(m), fault = "none",
         UNCHANGED <<packets, live, packet_id, taken, reported, fault>>
  PROVE  ReportInv'
<1> USE DEF Ledger, TypeInv
<1>1. m \in Packets /\ m \in taken
  BY DEF TypeOK, AccountInv
<1>2. /\ meta'[m].frame_id = id
      /\ \A n \in Packets : n # m => meta'[n] = meta[n]
      /\ \A i \in FrameIds : frames'[i] = IF i = id THEN m
                                          ELSE IF i = meta[m].frame_id THEN Null ELSE frames[i]
  BY <1>1, RetransmitEffect DEF TypeOK
<1>3. \A i \in FrameIds : frames'[i] # Null => frames'[i] \in taken'
  BY <1>1, <1>2 DEF ReportInv
<1>4. ASSUME NEW i \in FrameIds, frames'[i] \in Local PROVE meta'[frames'[i]].frame_id = i
  <2>1. CASE i = id
    BY <1>2, <2>1
  <2>2. CASE i # id
    <3>1. i # meta[m].frame_id /\ frames'[i] = frames[i] /\ frames[i] \in Packets
      BY <1>2, <1>4, <2>2, LocalFacts DEF Local
    <3>2. meta[frames[i]].frame_id = i
      BY <1>4, <3>1 DEF ReportInv
    <3> QED BY <1>2, <3>1, <3>2
  <2> QED BY <2>1, <2>2
<1>5. ASSUME NEW q \in Local, reported[q] = 1
      PROVE  (\A i \in FrameIds : frames'[i] # q) /\ (\A k \in PacketIds : packets'[k] # q)
  <2>1. (\A i \in FrameIds : frames[i] # q) /\ (\A k \in PacketIds : packets[k] # q)
    BY <1>5 DEF ReportInv
  <2>2. q # m /\ q # Null
    BY <2>1, LocalFacts DEF Reachable, Local
  <2> QED BY <1>2, <2>1, <2>2
<1> QED BY <1>3, <1>4, <1>5 DEF ReportInv

\* A packet is given up: both entries that could lead to it go in the same step.
LEMMA ReportGivenUp ==
  ASSUME Ledger, ReportInv, NEW m \in live, Reachable(m), fault = "none",
         NEW i0 \in FrameIds, m \in Local => meta[m].frame_id = i0,
         frames' = [frames EXCEPT ![i0] = Null],
         packets' = [packets EXCEPT ![Id(meta[m].packet)] = Null],
         Report(meta[m].packet), UNCHANGED <<meta, taken>>
  PROVE  ReportInv'
<1> USE DEF Ledger, TypeInv
<1>1. PICK p \in Packets : p = meta[m].packet
  BY DEF TypeOK, Metadata
<1>2. Id(p) \in PacketIds /\ m \in Packets
  BY IdType DEF TypeOK
<1>3. /\ \A i \in FrameIds : frames'[i] = IF i = i0 THEN Null ELSE frames[i]
      /\ \A k \in PacketIds : packets'[k] = IF k = Id(p) THEN Null ELSE packets[k]
  BY <1>1, <1>2 DEF TypeOK
<1>4. \A q \in Packets : q # p => reported'[q] = reported[q]
  BY <1>1 DEF Report, TypeOK
<1>5. p \in Local => p = m
  BY <1>1 DEF AccountInv
<1>6. p \in Local => reported[p] = 0 /\ reported'[p] = 1
  <2> SUFFICES ASSUME p \in Local PROVE reported[p] = 0 /\ reported'[p] = 1
    OBVIOUS
  <2>1. reported[p] # 1
    BY <1>5 DEF ReportInv, Reachable
  <2>2. reported[p] \in Nat /\ reported[p] <= 1
    BY DEF ReportInv, TypeOK
  <2> QED BY <1>1, <2>1, <2>2 DEF Report, TypeOK
<1>7. p \in Local => \A i \in FrameIds : frames'[i] # p
  BY <1>3, <1>5, LocalFacts DEF ReportInv
<1>8. p \in Local => \A k \in PacketIds : packets'[k] # p
  BY <1>1, <1>3, <1>5, LocalFacts DEF KeyInv
<1>9. \A q \in Local : reported'[q] <= 1
  BY <1>4, <1>6 DEF ReportInv, Local
<1>10. ASSUME NEW q \in Local, reported'[q] = 1
       PROVE  (\A i \in FrameIds : frames'[i] # q) /\ (\A k \in PacketIds : packets'[k] # q)
  <2>1. CASE q = p
    BY <1>7, <1>8, <2>1
  <2>2. CASE q # p
    <3>1. (\A i \in FrameIds : frames[i] # q) /\ (\A k \in PacketIds : packets[k] # q)
      BY <1>4, <1>10, <2>2 DEF ReportInv, Local
    <3> QED BY <1>3, <3>1, LocalFacts DEF Local
  <2> QED BY <2>1, <2>2
<1>11. \A i \in FrameIds : frames'[i] # Null => frames'[i] \in taken'
  BY <1>3 DEF ReportInv
<1>12. \A i \in FrameIds : frames'[i] \in Local => meta'[frames'[i]].frame_id = i
  BY <1>3, LocalFacts DEF ReportInv, Local
<1> QED BY <1>9, <1>10, <1>11, <1>12 DEF ReportInv

\* The packet of a StatusFrame is reported, and then its entry is found missing.
LEMMA ReportStatusFault ==
  ASSUME Ledger, ReportInv, NEW f \in air, StatusFault(f) PROVE ReportInv'
<1> USE DEF Ledger, TypeInv
<1>1. fault' # "none" /\ UNCHANGED <<packets, frames, meta, taken>> /\ fault = "none"
  BY DEF StatusFault, StatusArrives, tables
<1>2. CASE reported' = reported
  BY <1>1, <1>2 DEF ReportInv
<1>3. CASE reported' # reported
  <2> DEFINE m == frames[f.id]
             p == meta[m].packet
  <2>1. f.id \in FrameIds /\ m \in live /\ Report(p) /\ m \in Packets /\ p \in Packets
    BY <1>3 DEF StatusFault, TypeOK, Frame, Metadata
  <2>2. p \in Local => p = m
    BY <2>1 DEF AccountInv
  <2>3. p \in Local => reported[p] = 0
    BY <1>1, <2>1, <2>2 DEF ReportInv, TypeOK
  <2> HIDE DEF m, p
  <2>4. \A q \in Local : reported'[q] <= 1
    BY <2>1, <2>3 DEF Report, ReportInv, TypeOK, Local
  <2> QED BY <1>1, <2>4 DEF ReportInv
<1> QED BY <1>2, <1>3

LEMMA ReportNext == ASSUME Ledger, ReportInv, [Next]_vars PROVE ReportInv'
<1> USE DEF Ledger, TypeInv
<1>1. ASSUME NEW p \in Packets, DeliverNoRoute(p) \/ Watch(p) PROVE ReportInv'
  BY <1>1, ReportDeliverNoRoute, ReportWatch
<1>2. ASSUME NEW p \in Packets, Send(p) PROVE ReportInv'
  BY <1>2, ReportSame DEF Send, tables
<1>3. ASSUME NEW f \in air, HandleStatus(f) PROVE ReportInv'
  <2>1. f.id \in FrameIds /\ fault = "none"
    BY <1>3 DEF TypeOK, Frame, HandleStatus, StatusUnknown, StatusSuccess, StatusRetry,
                StatusGiveUp, StatusFault, StatusArrives
  <2>2. CASE StatusUnknown(f)
    BY <2>2, ReportSame DEF StatusUnknown
  <2>3. CASE StatusSuccess(f)
    <3>1. \A n \in Packets : meta'[n].frame_id = meta[n].frame_id
      BY <2>3 DEF StatusSuccess, TypeOK
    <3>2. \A i \in FrameIds : frames'[i] = frames[i] \/ frames'[i] = Null
      BY <2>3 DEF StatusSuccess, TypeOK
    <3> QED BY <2>3, <3>1, <3>2, ReportSame DEF StatusSuccess
  <2>4. CASE StatusRetry(f)
    <3>1. Reachable(frames[f.id])
      BY <2>1 DEF Reachable
    <3> QED BY <2>1, <2>4, <3>1, ReportRetransmit, ReservableType DEF StatusRetry
  <2>5. CASE StatusGiveUp(f)
    <3>1. Reachable(frames[f.id])
      BY <2>1 DEF Reachable
    <3>2. frames[f.id] \in Local => meta[frames[f.id]].frame_id = f.id
      BY <2>1 DEF ReportInv
    <3> QED BY <2>1, <2>5, <3>1, <3>2, ReportGivenUp DEF StatusGiveUp, Erase
  <2>6. CASE StatusFault(f)
    BY <2>6, ReportStatusFault
  <2> QED BY <1>3, <2>2, <2>3, <2>4, <2>5, <2>6 DEF HandleStatus
<1>4. ASSUME NEW f \in air, Radio(f) PROVE ReportInv'
  BY <1>4, ReportSame DEF Radio, RadioDelivers, RadioFails, tables
<1>5. ASSUME NEW c \in beyond, HandleAck(c) PROVE ReportInv'
  <2>1. \A i \in FrameIds : frames'[i] = frames[i] \/ frames'[i] = Null
    BY <1>5 DEF HandleAck, TypeOK
  <2>2. \A k \in PacketIds : packets'[k] = packets[k] \/ packets'[k] = Null
    BY <1>5 DEF HandleAck, Erase, TypeOK
  <2> QED BY <1>5, <2>1, <2>2, ReportSame DEF HandleAck
<1>6. ASSUME NEW c \in beyond, LateAck(c) \/ AckFromUnknown(c) \/ ErrorAck(c)
      PROVE ReportInv'
  BY <1>6, ReportSame DEF LateAck, AckFromUnknown, ErrorAck, tables
<1>7. ASSUME NEW k \in PacketIds, TickVisit(k) PROVE ReportInv'
  <2>1. /\ packets[k] \in live /\ Id(meta[packets[k]].packet) = k /\ fault = "none"
        /\ Reachable(packets[k]) /\ meta[packets[k]].frame_id \in FrameIds
    BY <1>7 DEF TickVisit, TickRetransmit, TickErase, Due, TypeOK, KeyInv, AccountInv,
                Reachable, Metadata
  <2>2. CASE TickRetransmit(k)
    BY <2>1, <2>2, ReportRetransmit, ReservableType DEF TickRetransmit
  <2>3. CASE TickErase(k)
    BY <2>1, <2>3, ReportGivenUp DEF TickErase, Erase
  <2> QED BY <1>7, <2>2, <2>3 DEF TickVisit
<1>8. CASE UNCHANGED vars
  BY <1>8, ReportSame DEF vars
<1> QED BY <1>1, <1>2, <1>3, <1>4, <1>5, <1>6, <1>7, <1>8 DEF Next

\* Three threads can find a packet undeliverable; an application hears of it at most
\* once, even when two of its packets share a Packet::id() or ids are exhausted.
THEOREM Reported_Once == Spec => []ReportedOnce
<1>1. Init => Ledger /\ ReportInv
  <2> SUFFICES ASSUME Init PROVE Ledger /\ ReportInv
    OBVIOUS
  <2>1. ReportInv
    BY ConstantsAssumption DEF Init, ReportInv, Local
  <2> QED BY <2>1, LedgerInit
<1>2. Ledger /\ ReportInv /\ [Next]_vars => (Ledger /\ ReportInv)'
  BY LedgerNext, ReportNext
<1>3. Ledger /\ ReportInv => ReportedOnce
  <2> SUFFICES ASSUME Ledger, ReportInv, NEW p \in Local,
                      reported[p] = 1, fault = "none", Tracked(p)
               PROVE  FALSE
    BY DEF ReportInv, ReportedOnce
  <2>1. p \in Packets /\ Id(p) \in PacketIds
    BY IdType DEF Ledger, TypeInv, Local
  <2>2. packets[Id(p)] = p
    BY <2>1 DEF Tracked, Ledger, AccountInv
  <2> QED BY <2>1, <2>2 DEF ReportInv
<1> QED
  BY <1>1, <1>2, <1>3, PTL DEF Spec

=============================================================================
