-------------------------- MODULE DispatcherMemory --------------------------
(***************************************************************************)
(* What holds of Dispatcher as long as "ID of the packet is unique across  *)
(* whole network until packet ACK is delivered to source" (packet.h:182),  *)
(* for every number of packets and ids and every retransmission limit: no  *)
(* thread touches deleted memory, one frame of a packet is in the radio,   *)
(* no local packet is lost in silence, and the Dispatcher implements       *)
(* ReliableDelivery.                                                       *)
(*                                                                         *)
(* watch() does not make the id of a packet unique, so the theorems take   *)
(* it as a hypothesis, FreshIds, about every call of watch(); the last     *)
(* part shows that it is met by packets that differ in their destination,  *)
(* their source or the id they arrive with.                                *)
(***************************************************************************)
EXTENDS DispatcherProofs

\* Packet::id() of p can still be looked up: p is in the history, deliver() has not
\* sent it yet, or the answer to a frame or a copy of it is to come.
InUse(p) == \/ Tracked(p)
            \/ outbox[p] # 0
            \/ \E f \in air : f.packet = p
            \/ \E c \in beyond : c.packet = p

\* watch() leaves its packet with a Packet::id() that is not in use.
FreshStep == \A q \in Packets : Watch(q) => \A p \in taken : InUse(p) => Id(p) # Id(q)'
FreshIds == [][FreshStep]_vars

\* Packet::id() identifies the packets in use, and every Metadata belongs to the packet
\* it was allocated for and is found under its Packet::id().
UniqueInv ==
  /\ \A p \in Packets : InUse(p) => p \in taken /\ packet_id[p] # 0
  /\ \A p, q \in Packets : InUse(p) /\ InUse(q) /\ Id(p) = Id(q) => p = q
  /\ \A m \in live : meta[m].packet = m /\ packets[Id(m)] = m

-----------------------------------------------------------------------------
(* While identities are unique, the lookups find what they look for. *)

LEMMA LiveIsTracked ==
  ASSUME Ledger, UniqueInv, NEW m \in live
  PROVE  /\ m \in Packets /\ m \in taken /\ Id(m) \in PacketIds
         /\ meta[m].packet = m /\ packets[Id(m)] = m /\ Tracked(m) /\ InUse(m)
<1>1. m \in Packets /\ m \in taken /\ meta[m].packet = m /\ packets[Id(m)] = m
  BY DEF Ledger, TypeInv, TypeOK, AccountInv, UniqueInv
<1>2. Tracked(m)
  BY <1>1, LocalFacts DEF Tracked
<1> QED BY <1>1, <1>2, IdType DEF Ledger, TypeInv, InUse

LEMMA FoundIsLive ==
  ASSUME Ledger, UniqueInv, NEW k \in PacketIds, packets[k] # Null
  PROVE  /\ packets[k] \in live /\ packets[k] \in Packets
         /\ meta[packets[k]].packet = packets[k] /\ Id(packets[k]) = k
BY DEF Ledger, TypeInv, TypeOK, AccountInv, KeyInv, UniqueInv

LEMMA TrackedIsLive ==
  ASSUME Ledger, UniqueInv, NEW p \in Packets
  PROVE  Tracked(p) <=> p \in live
<1>1. Id(p) \in PacketIds
  BY IdType DEF Ledger, TypeInv
<1>2. Tracked(p) => p \in live
  BY <1>1, FoundIsLive DEF Tracked
<1> QED BY <1>2, LiveIsTracked

-----------------------------------------------------------------------------
(* What watch() does to a packet whose identity is not in use: it finds no *)
(* Metadata and overwrites none.                                           *)

NewId(p) == <<Destination[p], Source[p], packet_id'[p]>>

Opened(p, id) ==
  /\ p \notin taken /\ p \notin live /\ ~ InUse(p)
  /\ taken' = taken \cup {p} /\ live' = live \cup {p}
  /\ packet_id'[p] # 0 /\ \A q \in Packets : q # p => packet_id'[q] = packet_id[q]
  /\ NewId(p) \in PacketIds /\ packets[NewId(p)] = Null
  /\ packets' = [packets EXCEPT ![NewId(p)] = p]
  /\ frames' = [frames EXCEPT ![id] = p]
  /\ meta'[p].packet = p /\ meta'[p].frame_id = id /\ ~ meta'[p].check_timeout
  /\ \A n \in Packets : n # p => meta'[n] = meta[n]
  /\ outbox' = [outbox EXCEPT ![p] = id]
  /\ \A q \in Packets : InUse(q) => Id(q) # NewId(p)
  /\ exhausted' = (exhausted \/ FreeIds = {})
  /\ fault = "none"
  /\ UNCHANGED <<freed, air, beyond, fault, reported, relayed, sent, delivered>>

LEMMA UnusedBefore ==
  ASSUME Ledger, UniqueInv, NEW p \in Packets, p \notin taken
  PROVE  ~ InUse(p) /\ p \notin live
BY DEF Ledger, AccountInv, UniqueInv

LEMMA WatchOpens ==
  ASSUME Ledger, UniqueInv, NEW p \in Packets, Watch(p), FreshStep
  PROVE  \E id \in Reservable : Opened(p, id)
<1> USE DEF Ledger, TypeInv
<1> DEFINE found == packets[Id(p)]
           m == IF found = Null THEN p ELSE found
           pid(id) == IF packet_id[p] = 0 THEN id ELSE packet_id[p]
           new(id) == [packet |-> p, frame_id |-> id,
                       check_timeout |-> IF found = Null THEN FALSE ELSE meta[m].check_timeout,
                       counter |-> IF found = Null THEN 0 ELSE meta[m].counter]
<1>1. PICK id \in Reservable :
            /\ packet_id' = [packet_id EXCEPT ![p] = pid(id)]
            /\ packets' = [packets EXCEPT ![<<Destination[p], Source[p], pid(id)>>] = m]
            /\ frames' = [frames EXCEPT ![id] = m]
            /\ meta' = [meta EXCEPT ![m] = new(id)]
            /\ outbox' = [outbox EXCEPT ![p] = id]
  BY DEF Watch
<1>2. id \in FrameIds /\ id # 0 /\ id \in 0..BitSetSize
  BY ReservableType DEF FrameIds
<1>3. packet_id'[p] = pid(id) /\ pid(id) # 0 /\ pid(id) \in 0..BitSetSize
  BY <1>1, <1>2 DEF TypeOK
<1>4. NewId(p) \in PacketIds /\ NewId(p) = <<Destination[p], Source[p], pid(id)>>
  BY <1>3, ConstantsAssumption DEF NewId, PacketIds
<1>5. p \notin taken /\ ~ InUse(p) /\ p \notin live
  BY UnusedBefore DEF Watch
<1>6. \A q \in Packets : InUse(q) => Id(q) # NewId(p)
  <2>1. \A q \in taken : InUse(q) => Id(q) # Id(p)'
    BY DEF FreshStep
  <2>2. Id(p)' = NewId(p)
    BY DEF Id, NewId
  <2> QED BY <2>1, <2>2 DEF UniqueInv
<1>7. packets[NewId(p)] = Null
  <2> SUFFICES ASSUME packets[NewId(p)] # Null PROVE FALSE
    OBVIOUS
  <2>1. packets[NewId(p)] \in live /\ Id(packets[NewId(p)]) = NewId(p)
    BY <1>4, FoundIsLive
  <2> QED BY <2>1, <1>6, LiveIsTracked
<1>8. found = Null
  <2> SUFFICES ASSUME found # Null PROVE FALSE
    OBVIOUS
  <2>1. Id(p) \in PacketIds
    BY IdType
  <2>2. PICK q \in live : q = found /\ q \in Packets /\ Id(q) = Id(p)
    BY <2>1, FoundIsLive
  <2>3. packet_id[q] # 0 /\ packet_id[q] = packet_id[p]
    BY <2>2, LiveIsTracked DEF UniqueInv, Id
  <2>4. NewId(p) = Id(p)
    BY <1>4, <2>3 DEF Id
  <2> QED BY <2>2, <2>4, <1>6, LiveIsTracked
<1>9. m = p /\ new(id).packet = p /\ new(id).frame_id = id /\ new(id).check_timeout = FALSE
  BY <1>8
<1>10. live' = live \cup {p}
  BY <1>8 DEF Watch
<1> HIDE DEF found, new
<1>11. meta'[p] = new(id) /\ \A n \in Packets : n # p => meta'[n] = meta[n]
  BY <1>1, <1>9 DEF TypeOK
<1>12. packets' = [packets EXCEPT ![NewId(p)] = p] /\ frames' = [frames EXCEPT ![id] = p]
  BY <1>1, <1>4, <1>9
<1>13. \A q \in Packets : q # p => packet_id'[q] = packet_id[q]
  BY <1>1 DEF TypeOK
<1>14. /\ taken' = taken \cup {p} /\ exhausted' = (exhausted \/ FreeIds = {}) /\ fault = "none"
       /\ UNCHANGED <<freed, air, beyond, fault, reported, relayed, sent, delivered>>
  BY DEF Watch, world
<1> HIDE DEF m, pid
<1> QED BY <1>1, <1>3, <1>4, <1>5, <1>6, <1>7, <1>9, <1>10, <1>11, <1>12, <1>13, <1>14
        DEF Opened

-----------------------------------------------------------------------------
(* What the other composite steps do to the tables. *)

\* retransmit() moves the entry of m in frames_history from its frame id to id.
Resent(m, id) ==
  /\ meta'[m].packet = meta[m].packet /\ meta'[m].frame_id = id /\ ~ meta'[m].check_timeout
  /\ \A n \in Packets : n # m => meta'[n] = meta[n]
  /\ \A i \in FrameIds : frames'[i] = IF i = id THEN m
                                      ELSE IF i = meta[m].frame_id THEN Null ELSE frames[i]
  /\ \A q \in Packets : q # meta[m].packet => sent'[q] = sent[q]

LEMMA RetransmitResends ==
  ASSUME TypeOK, NEW m \in Packets, NEW id \in FrameIds, Retransmit(m, id)
  PROVE  Resent(m, id)
<1>1. meta[m].packet \in Packets /\ meta[m].frame_id \in FrameIds
  BY DEF TypeOK, Metadata
<1>2. ~ meta'[m].check_timeout
  BY DEF Retransmit, TypeOK
<1> QED BY <1>1, <1>2, RetransmitEffect DEF Resent, TypeOK

\* erase() forgets m: its entry in packets_history, its Metadata and its Packet.
Gone(m) ==
  /\ packets' = [packets EXCEPT ![Id(m)] = Null]
  /\ live' = live \ {m}
  /\ freed' = freed \cup {m}

LEMMA EraseForgets ==
  ASSUME Ledger, UniqueInv, NEW k \in PacketIds, packets[k] # Null, Erase(k)
  PROVE  Gone(packets[k])
BY FoundIsLive DEF Erase, Gone

\* The Metadata that the handlers of StatusFrames and ACKs and the Tick thread give up is
\* that of the packet the frame, the copy or the entry is about.
LEMMA StatusGivesUp ==
  ASSUME Ledger, UniqueInv, NEW f \in air, StatusGiveUp(f)
  PROVE  frames[f.id] \in live /\ Gone(frames[f.id]) /\ Report(frames[f.id])
BY LiveIsTracked, EraseForgets DEF StatusGiveUp

LEMMA TickGivesUp ==
  ASSUME Ledger, UniqueInv, NEW k \in PacketIds, TickErase(k)
  PROVE  /\ packets[k] \in live /\ Gone(packets[k]) /\ Report(packets[k])
         /\ meta[packets[k]].check_timeout
         /\ frames' = [frames EXCEPT ![meta[packets[k]].frame_id] = Null]
BY FoundIsLive, EraseForgets DEF TickErase, Due

LEMMA AckForgets ==
  ASSUME Ledger, UniqueInv, NEW c \in beyond, HandleAck(c)
  PROVE  /\ c.packet \in live /\ Gone(c.packet)
         /\ relayed' \subseteq relayed \cup {c.packet}
         /\ frames' = [frames EXCEPT ![meta[c.packet].frame_id] = Null]
<1>1. c.packet \in Packets /\ InUse(c.packet) /\ Id(c.packet) \in PacketIds
  BY IdType DEF Ledger, TypeInv, TypeOK, Copy, InUse
<1> DEFINE m == packets[Id(c.packet)]
<1>2. m # Null /\ m \in live /\ m \in Packets /\ meta[m].packet = m /\ Id(m) = Id(c.packet)
  BY <1>1, FoundIsLive DEF HandleAck
<1>3. m = c.packet
  BY <1>1, <1>2, LiveIsTracked DEF UniqueInv
<1>4. Erase(Id(c.packet))
  BY DEF HandleAck
<1>5. Gone(m)
  BY <1>1, <1>2, <1>4, EraseForgets
<1> QED BY <1>2, <1>3, <1>5 DEF HandleAck

\* The radio answers f: g is the frame with its answer.
Answered(f, g) ==
  /\ g.id = f.id /\ g.packet = f.packet /\ air' = (air \ {f}) \cup {g}
  /\ \A c \in beyond' : c \in beyond \/ (c.packet = f.packet /\ (c.through => f.packet \in delivered'))
  /\ delivered \subseteq delivered' /\ delivered' \subseteq delivered \cup {f.packet}

LEMMA RadioAnswers == ASSUME TypeOK, NEW f \in air, Radio(f) PROVE \E g : Answered(f, g)
<1>1. f \in Frame
  BY DEF TypeOK
<1> DEFINE ok == [f EXCEPT !.radio = "ok"]
           err == [f EXCEPT !.radio = "error"]
           copy(t) == [packet |-> f.packet, nth |-> f.nth, through |-> t]
<1>2. ok.id = f.id /\ ok.packet = f.packet /\ err.id = f.id /\ err.packet = f.packet
  BY <1>1 DEF Frame
<1>3. \A t \in BOOLEAN : copy(t).packet = f.packet /\ copy(t).through = t
  OBVIOUS
<1>4. CASE RadioDelivers(f)
  <2>1. PICK t \in BOOLEAN :
          /\ beyond' = beyond \cup {copy(t)}
          /\ delivered' = IF t THEN delivered \cup {f.packet} ELSE delivered
    BY <1>4 DEF RadioDelivers
  <2>2. air' = (air \ {f}) \cup {ok}
    BY <1>4 DEF RadioDelivers
  <2> HIDE DEF ok, copy
  <2>3. /\ \A c \in beyond' : c \in beyond \/ (c.packet = f.packet /\ (c.through => f.packet \in delivered'))
        /\ delivered \subseteq delivered' /\ delivered' \subseteq delivered \cup {f.packet}
    BY <1>3, <2>1
  <2>4. Answered(f, ok)
    BY <1>2, <2>2, <2>3 DEF Answered
  <2> QED BY <2>4
<1>5. CASE RadioFails(f)
  <2>1. air' = (air \ {f}) \cup {err} /\ UNCHANGED <<beyond, delivered>>
    BY <1>5 DEF RadioFails, world
  <2> HIDE DEF err
  <2>2. Answered(f, err)
    BY <1>2, <2>1 DEF Answered
  <2> QED BY <2>2
<1> QED BY <1>4, <1>5 DEF Radio

-----------------------------------------------------------------------------
(* UniqueInv is inductive under FreshStep. *)

\* Nothing comes into use and the entries that stay are the same.
LEMMA UniqueSame ==
  ASSUME Ledger, UniqueInv, packet_id' = packet_id, taken \subseteq taken', live' \subseteq live,
         \A k \in PacketIds : packets'[k] \in {packets[k], Null},
         \A n \in Packets : meta'[n].packet = meta[n].packet,
         \A m \in live' : packets'[Id(m)] = packets[Id(m)],
         \A p \in Packets : outbox'[p] \in {outbox[p], 0},
         \A f \in air' : InUse(f.packet), \A c \in beyond' : InUse(c.packet)
  PROVE  UniqueInv'
<1>1. \A p : Id(p)' = Id(p)
  BY DEF Id
<1>2. ASSUME NEW p \in Packets, Tracked(p)' PROVE Tracked(p)
  <2>1. Id(p) \in PacketIds
    BY IdType DEF Ledger, TypeInv
  <2>2. packets'[Id(p)] # Null /\ meta'[packets'[Id(p)]].packet = p
    BY <1>1, <1>2 DEF Tracked
  <2>3. packets[Id(p)] = packets'[Id(p)] /\ packets[Id(p)] \in Packets
    BY <2>1, <2>2, FoundIsLive
  <2> QED BY <2>2, <2>3 DEF Tracked
<1>3. ASSUME NEW p \in Packets, InUse(p)' PROVE InUse(p)
  <2>1. CASE \E f \in air' : f.packet = p
    BY <2>1
  <2>2. CASE \E c \in beyond' : c.packet = p
    BY <2>2
  <2>3. CASE outbox'[p] # 0
    BY <2>3 DEF InUse
  <2> QED BY <1>2, <1>3, <2>1, <2>2, <2>3 DEF InUse
<1>4. \A m \in live' : meta'[m].packet = m /\ packets'[Id(m)'] = m
  BY <1>1, LiveIsTracked
<1>5. \A p \in Packets : InUse(p)' => p \in taken' /\ packet_id'[p] # 0
  BY <1>3 DEF UniqueInv
<1>6. \A p, q \in Packets : InUse(p)' /\ InUse(q)' /\ Id(p)' = Id(q)' => p = q
  BY <1>1, <1>3 DEF UniqueInv
<1> QED BY <1>4, <1>5, <1>6 DEF UniqueInv

LEMMA UniqueGone ==
  ASSUME Ledger, UniqueInv, NEW m \in live, Gone(m),
         UNCHANGED <<packet_id, taken, outbox, meta>>, air' \subseteq air, beyond' \subseteq beyond
  PROVE  UniqueInv'
<1>1. m \in Packets /\ Id(m) \in PacketIds /\ packets[Id(m)] = m
  BY LiveIsTracked
<1>2. \A k \in PacketIds : packets'[k] = IF k = Id(m) THEN Null ELSE packets[k]
  BY <1>1 DEF Gone, Ledger, TypeInv, TypeOK
<1>3. \A n \in live : n # m => Id(n) # Id(m) /\ Id(n) \in PacketIds
  BY LiveIsTracked
<1>4. \A n \in live' : packets'[Id(n)] = packets[Id(n)]
  BY <1>2, <1>3 DEF Gone
<1>5. (\A f \in air' : InUse(f.packet)) /\ (\A c \in beyond' : InUse(c.packet))
  BY DEF InUse
<1>6. live' \subseteq live
  BY DEF Gone
<1> QED BY <1>2, <1>4, <1>5, <1>6, UniqueSame

\* Both ways to retransmit send the packet of Metadata that is in the history.
LEMMA UniqueResend ==
  ASSUME Ledger, UniqueInv, NEW m \in live, NEW id \in FrameIds, Retransmit(m, id),
         air' \subseteq air \cup {NewFrame(m, id)},
         UNCHANGED <<packets, live, packet_id, taken, outbox, beyond>>
  PROVE  UniqueInv'
<1>1. m \in Packets /\ InUse(m) /\ meta[m].packet = m
  BY LiveIsTracked
<1>2. \A n \in Packets : meta'[n].packet = meta[n].packet
  BY <1>1, RetransmitResends DEF Resent, Ledger, TypeInv
<1>3. NewFrame(m, id).packet = m
  BY <1>1 DEF NewFrame
<1>4. (\A f \in air' : InUse(f.packet)) /\ (\A c \in beyond' : InUse(c.packet))
  BY <1>1, <1>3 DEF InUse
<1> QED BY <1>2, <1>4, UniqueSame

LEMMA UniqueWatch ==
  ASSUME Ledger, UniqueInv, NEW p \in Packets, Watch(p), FreshStep PROVE UniqueInv'
<1>1. PICK id \in Reservable : Opened(p, id)
  BY WatchOpens
<1>2. \A q \in Packets : q # p => Id(q)' = Id(q)
  BY <1>1 DEF Opened, Id
<1>3. Id(p)' = NewId(p)
  BY DEF Id, NewId
<1>4. \A k \in PacketIds : packets'[k] = IF k = NewId(p) THEN p ELSE packets[k]
  BY <1>1 DEF Opened, Ledger, TypeInv, TypeOK
<1>5. ASSUME NEW q \in Packets, q # p, InUse(q)' PROVE InUse(q)
  <2>1. Id(q) \in PacketIds
    BY IdType DEF Ledger, TypeInv
  <2>2. outbox'[q] = outbox[q] /\ air' = air /\ beyond' = beyond
    BY <1>1, <1>5 DEF Opened, Ledger, TypeInv, TypeOK
  <2>3. ASSUME Tracked(q)' PROVE Tracked(q)
    <3>1. packets'[Id(q)] # Null /\ meta'[packets'[Id(q)]].packet = q
      BY <1>2, <1>5, <2>3 DEF Tracked
    <3>2. packets'[Id(q)] # p
      BY <1>1, <1>5, <3>1 DEF Opened
    <3>3. packets'[Id(q)] = packets[Id(q)] /\ packets[Id(q)] \in Packets
      BY <1>4, <2>1, <3>1, <3>2, FoundIsLive
    <3> QED BY <1>1, <3>1, <3>2, <3>3 DEF Opened, Tracked
  <2> QED BY <1>5, <2>2, <2>3 DEF InUse
<1>6. \A q \in Packets : InUse(q)' => q \in taken' /\ packet_id'[q] # 0
  BY <1>1, <1>5 DEF UniqueInv, Opened
<1>7. \A q, t \in Packets : InUse(q)' /\ InUse(t)' /\ Id(q)' = Id(t)' => q = t
  <2>1. \A q, t \in Packets : q # p /\ t # p /\ InUse(q)' /\ InUse(t)' /\ Id(q)' = Id(t)' => q = t
    BY <1>2, <1>5 DEF UniqueInv
  <2>2. \A q \in Packets : q # p /\ InUse(q)' => Id(q)' # Id(p)'
    BY <1>1, <1>2, <1>3, <1>5 DEF Opened
  <2> QED BY <2>1, <2>2
<1>8. ASSUME NEW m \in live' PROVE meta'[m].packet = m /\ packets'[Id(m)'] = m
  <2>1. CASE m = p
    BY <1>1, <1>3, <1>4, <2>1 DEF Opened
  <2>2. CASE m # p
    <3>1. m \in live
      BY <1>1, <1>8, <2>2 DEF Opened
    <3>2. Id(m) # NewId(p) /\ Id(m) \in PacketIds /\ m \in Packets
      BY <1>1, <3>1, LiveIsTracked DEF Opened
    <3> QED BY <1>1, <1>2, <1>4, <2>2, <3>1, <3>2, LiveIsTracked DEF Opened
  <2> QED BY <2>1, <2>2
<1> QED BY <1>6, <1>7, <1>8 DEF UniqueInv

LEMMA UniqueNext == ASSUME Ledger, UniqueInv, [Next]_vars, FreshStep PROVE UniqueInv'
<1> USE DEF Ledger, TypeInv
<1>0. (\A f \in air : InUse(f.packet)) /\ (\A c \in beyond : InUse(c.packet))
  BY DEF InUse
<1>1. ASSUME NEW p \in Packets, DeliverNoRoute(p) PROVE UniqueInv'
  BY <1>0, <1>1, UniqueSame DEF DeliverNoRoute, tables, world
<1>2. ASSUME NEW p \in Packets, Watch(p) PROVE UniqueInv'
  BY <1>2, UniqueWatch
<1>3. ASSUME NEW p \in Packets, Send(p) PROVE UniqueInv'
  <2>1. InUse(p)
    BY <1>3 DEF Send, InUse
  <2>2. \A f \in air' : InUse(f.packet)
    BY <1>0, <1>3, <2>1 DEF Send
  <2>3. \A q \in Packets : outbox'[q] \in {outbox[q], 0}
    BY <1>3 DEF Send, TypeOK
  <2> QED BY <1>0, <1>3, <2>2, <2>3, UniqueSame DEF Send, tables, world
<1>4. ASSUME NEW f \in air, HandleStatus(f) PROVE UniqueInv'
  <2>1. CASE StatusUnknown(f)
    BY <1>0, <2>1, UniqueSame DEF StatusUnknown, world
  <2>2. CASE StatusSuccess(f)
    <3>1. \A n \in Packets : meta'[n].packet = meta[n].packet
      BY <2>2 DEF StatusSuccess, TypeOK
    <3> QED BY <1>0, <2>2, <3>1, UniqueSame DEF StatusSuccess, world
  <2>3. CASE StatusRetry(f)
    BY <2>3, UniqueResend, ReservableType DEF StatusRetry, world
  <2>4. CASE StatusGiveUp(f)
    BY <2>4, StatusGivesUp, UniqueGone DEF StatusGiveUp, world
  <2>5. CASE StatusFault(f)
    BY <1>0, <2>5, UniqueSame DEF StatusFault, tables, world
  <2> QED BY <1>4, <2>1, <2>2, <2>3, <2>4, <2>5 DEF HandleStatus
<1>5. ASSUME NEW f \in air, Radio(f) PROVE UniqueInv'
  <2>1. PICK g : Answered(f, g)
    BY <1>5, RadioAnswers
  <2>2. \A h \in air' : InUse(h.packet)
    BY <1>0, <2>1 DEF Answered
  <2>3. \A c \in beyond' : InUse(c.packet)
    BY <1>0, <2>1 DEF Answered
  <2> QED BY <1>5, <2>2, <2>3, UniqueSame DEF Radio, RadioDelivers, RadioFails, tables
<1>6. ASSUME NEW c \in beyond, HandleAck(c) PROVE UniqueInv'
  BY <1>6, AckForgets, UniqueGone DEF HandleAck
<1>7. ASSUME NEW c \in beyond, LateAck(c) \/ AckFromUnknown(c) \/ ErrorAck(c)
      PROVE  UniqueInv'
  BY <1>0, <1>7, UniqueSame DEF LateAck, AckFromUnknown, ErrorAck, tables, world
<1>8. ASSUME NEW k \in PacketIds, TickVisit(k) PROVE UniqueInv'
  <2>1. CASE TickRetransmit(k)
    <3>1. packets[k] \in live
      BY <2>1 DEF TickRetransmit, Due, AccountInv
    <3> QED BY <2>1, <3>1, UniqueResend, ReservableType DEF TickRetransmit, world
  <2>2. CASE TickErase(k)
    BY <2>2, TickGivesUp, UniqueGone DEF TickErase, world
  <2> QED BY <1>8, <2>1, <2>2 DEF TickVisit
<1>9. CASE UNCHANGED vars
  BY <1>0, <1>9, UniqueSame DEF vars
<1> QED BY <1>1, <1>2, <1>3, <1>4, <1>5, <1>6, <1>7, <1>8, <1>9 DEF Next

-----------------------------------------------------------------------------
(* The tables lead to allocated Metadata, whether ids are exhausted or not: *)
(* Metadata has one entry in frames_history at most, under its frame_id,    *)
(* and whoever deletes it removes that entry.                               *)

MemoryInv ==
  /\ \A i \in FrameIds : frames[i] # Null =>
       frames[i] \in live /\ meta[frames[i]].frame_id = i
  /\ freed \subseteq taken /\ freed \cap live = {}
  /\ \A p \in Packets : outbox[p] # 0 /\ p \notin live => p \in freed

\* Entries go, and with Metadata goes the entry that leads to it.
LEMMA MemoryLess ==
  ASSUME Ledger, MemoryInv, taken \subseteq taken',
         \A i \in FrameIds : frames'[i] \in {frames[i], Null},
         \A n \in Packets : meta'[n].frame_id = meta[n].frame_id,
         live' \subseteq live, freed' = freed \cup (live \ live'),
         \A i \in FrameIds : frames'[i] \notin live \ live',
         \A p \in Packets : outbox'[p] \in {outbox[p], 0}
  PROVE  MemoryInv'
<1> USE DEF Ledger, TypeInv
<1>1. \A i \in FrameIds : frames'[i] # Null =>
        frames'[i] \in live' /\ meta'[frames'[i]].frame_id = i
  BY DEF MemoryInv, TypeOK
<1>2. freed' \subseteq taken' /\ freed' \cap live' = {}
  BY DEF MemoryInv, AccountInv
<1>3. \A p \in Packets : outbox'[p] # 0 /\ p \notin live' => p \in freed'
  BY DEF MemoryInv
<1> QED BY <1>1, <1>2, <1>3 DEF MemoryInv

LEMMA MemoryGone ==
  ASSUME Ledger, MemoryInv, NEW m \in live, Gone(m),
         frames' = [frames EXCEPT ![meta[m].frame_id] = Null],
         UNCHANGED <<meta, taken, outbox>>
  PROVE  MemoryInv'
<1> USE DEF Ledger, TypeInv
<1>1. meta[m].frame_id \in FrameIds /\ m \in Packets
  BY DEF TypeOK, Metadata
<1>2. \A i \in FrameIds : frames'[i] = IF i = meta[m].frame_id THEN Null ELSE frames[i]
  BY <1>1 DEF TypeOK
<1>3. \A i \in FrameIds : frames'[i] # m
  BY <1>1, <1>2, LocalFacts DEF MemoryInv
<1>4. live' \subseteq live /\ freed' = freed \cup (live \ live') /\ live \ live' = {m}
  BY DEF Gone
<1> QED BY <1>2, <1>3, <1>4, MemoryLess

LEMMA MemoryResend ==
  ASSUME Ledger, MemoryInv, NEW m \in live, NEW id \in FrameIds, Retransmit(m, id),
         UNCHANGED <<live, freed, taken, outbox>>
  PROVE  MemoryInv'
<1> USE DEF Ledger, TypeInv
<1>1. m \in Packets /\ Resent(m, id)
  BY RetransmitResends DEF TypeOK
<1>2. ASSUME NEW i \in FrameIds, frames'[i] # Null
      PROVE  frames'[i] \in live' /\ meta'[frames'[i]].frame_id = i
  <2>1. CASE i = id
    BY <1>1, <2>1 DEF Resent
  <2>2. CASE i # id
    <3>1. /\ i # meta[m].frame_id /\ frames'[i] = frames[i]
          /\ frames[i] \in live /\ meta[frames[i]].frame_id = i
      BY <1>1, <1>2, <2>2 DEF Resent, MemoryInv
    <3>2. frames[i] # m /\ frames[i] \in Packets
      BY <3>1 DEF TypeOK
    <3> QED BY <1>1, <3>1, <3>2 DEF Resent
  <2> QED BY <2>1, <2>2
<1> QED BY <1>2 DEF MemoryInv

LEMMA MemoryWatch ==
  ASSUME Ledger, MemoryInv, NEW p \in Packets, NEW id \in FrameIds, Opened(p, id)
  PROVE  MemoryInv'
<1> USE DEF Ledger, TypeInv
<1>1. \A i \in FrameIds : frames'[i] = IF i = id THEN p ELSE frames[i]
  BY DEF Opened, TypeOK
<1>2. ASSUME NEW i \in FrameIds, frames'[i] # Null
      PROVE  frames'[i] \in live' /\ meta'[frames'[i]].frame_id = i
  <2>1. CASE i = id
    BY <1>1, <2>1 DEF Opened
  <2>2. CASE i # id
    <3>1. frames'[i] = frames[i] /\ frames[i] \in live /\ meta[frames[i]].frame_id = i
      BY <1>1, <1>2, <2>2 DEF MemoryInv
    <3>2. frames[i] # p /\ frames[i] \in Packets
      BY <3>1 DEF Opened, TypeOK
    <3> QED BY <3>1, <3>2 DEF Opened
  <2> QED BY <2>1, <2>2
<1>3. \A q \in Packets : outbox'[q] # 0 /\ q \notin live' => q \in freed'
  BY DEF MemoryInv, Opened, TypeOK
<1>4. freed' \subseteq taken' /\ freed' \cap live' = {}
  BY DEF MemoryInv, Opened
<1> QED BY <1>2, <1>3, <1>4 DEF MemoryInv

LEMMA MemoryNext ==
  ASSUME Ledger, UniqueInv, MemoryInv, [Next]_vars, FreshStep PROVE MemoryInv'
<1> USE DEF Ledger, TypeInv
<1>0. \A i \in FrameIds : frames[i] \notin live \ live
  OBVIOUS
<1>1. ASSUME NEW p \in Packets, DeliverNoRoute(p) PROVE MemoryInv'
  BY <1>1, MemoryLess DEF DeliverNoRoute, tables
<1>2. ASSUME NEW p \in Packets, Watch(p) PROVE MemoryInv'
  BY <1>2, WatchOpens, MemoryWatch, ReservableType
<1>3. ASSUME NEW p \in Packets, Send(p) PROVE MemoryInv'
  <2>1. \A q \in Packets : outbox'[q] \in {outbox[q], 0}
    BY <1>3 DEF Send, TypeOK
  <2> QED BY <1>3, <2>1, MemoryLess DEF Send, tables
<1>4. ASSUME NEW f \in air, HandleStatus(f) PROVE MemoryInv'
  <2>1. f.id \in FrameIds
    BY DEF TypeOK, Frame
  <2>2. CASE StatusUnknown(f) \/ StatusFault(f)
    BY <2>2, MemoryLess DEF StatusUnknown, StatusFault, tables
  <2>3. CASE StatusSuccess(f)
    <3>1. \A n \in Packets : meta'[n].frame_id = meta[n].frame_id
      BY <2>3 DEF StatusSuccess, TypeOK
    <3>2. \A i \in FrameIds : frames'[i] \in {frames[i], Null}
      BY <2>1, <2>3 DEF StatusSuccess, TypeOK
    <3> QED BY <2>3, <3>1, <3>2, MemoryLess DEF StatusSuccess
  <2>4. CASE StatusRetry(f)
    BY <2>4, MemoryResend, ReservableType DEF StatusRetry
  <2>5. CASE StatusGiveUp(f)
    <3>1. frames[f.id] \in live /\ Gone(frames[f.id])
      BY <2>5, StatusGivesUp
    <3>2. frames[f.id] # Null
      BY <3>1, LocalFacts DEF TypeOK
    <3>3. meta[frames[f.id]].frame_id = f.id
      BY <2>1, <3>2 DEF MemoryInv
    <3> QED BY <2>5, <3>1, <3>3, MemoryGone DEF StatusGiveUp
  <2> QED BY <1>4, <2>2, <2>3, <2>4, <2>5 DEF HandleStatus
<1>5. ASSUME NEW f \in air, Radio(f) PROVE MemoryInv'
  BY <1>5, MemoryLess DEF Radio, RadioDelivers, RadioFails, tables
<1>6. ASSUME NEW c \in beyond, HandleAck(c) PROVE MemoryInv'
  BY <1>6, AckForgets, MemoryGone DEF HandleAck
<1>7. ASSUME NEW c \in beyond, LateAck(c) \/ AckFromUnknown(c) \/ ErrorAck(c)
      PROVE  MemoryInv'
  BY <1>7, MemoryLess DEF LateAck, AckFromUnknown, ErrorAck, tables
<1>8. ASSUME NEW k \in PacketIds, TickVisit(k) PROVE MemoryInv'
  <2>1. CASE TickRetransmit(k)
    <3>1. packets[k] \in live
      BY <2>1 DEF TickRetransmit, Due, AccountInv
    <3> QED BY <2>1, <3>1, MemoryResend, ReservableType DEF TickRetransmit
  <2>2. CASE TickErase(k)
    BY <2>2, TickGivesUp, MemoryGone DEF TickErase
  <2> QED BY <1>8, <2>1, <2>2 DEF TickVisit
<1>9. CASE UNCHANGED vars
  BY <1>9, MemoryLess DEF vars
<1> QED BY <1>1, <1>2, <1>3, <1>4, <1>5, <1>6, <1>7, <1>8, <1>9 DEF Next

-----------------------------------------------------------------------------
(* While ids are free: the entry under the id of a frame is that of its     *)
(* packet or gone; a packet that deliver() has yet to send is not anywhere  *)
(* beyond it; a packet has one frame in the radio, and no timeout then.     *)

EntriesMatch == \A f \in air : frames[f.id] \in {Null, f.packet}
NotSentYet == \A p \in Packets : outbox[p] # 0 =>
  /\ p \in live /\ meta[p].frame_id = outbox[p] /\ ~ meta[p].check_timeout
  /\ frames[outbox[p]] \in {Null, p}
  /\ \A f \in air : f.packet # p
  /\ \A c \in beyond : c.packet # p
OneFrame == \A f, g \in air : f.packet = g.packet => f = g
Unarmed == \A f \in air : f.packet \in live => ~ meta[f.packet].check_timeout
Sound == fault \notin {"freed_memory", "missing_entry"}

InFlight == EntriesMatch /\ NotSentYet /\ OneFrame /\ Unarmed /\ Sound
FlightInv == ~ exhausted => InFlight

\* What all lemmas about FlightInv start from.
Basis == Ledger /\ UniqueInv /\ MemoryInv /\ FrameIdsUnique

\* Frames, copies and entries go; Metadata goes when deliver() has sent its packet.
LEMMA FlightLess ==
  ASSUME Basis, InFlight, Sound', outbox' = outbox, air' \subseteq air, beyond' \subseteq beyond,
         \A i \in FrameIds : frames'[i] \in {frames[i], Null},
         \A n \in Packets : /\ meta'[n].frame_id = meta[n].frame_id
                            /\ meta'[n].check_timeout = meta[n].check_timeout,
         live' \subseteq live, \A m \in live \ live' : outbox[m] = 0
  PROVE  InFlight'
<1> USE DEF Basis, Ledger, TypeInv
<1>1. EntriesMatch'
  BY DEF InFlight, EntriesMatch, TypeOK, Frame
<1>2. NotSentYet'
  <2> SUFFICES ASSUME NEW p \in Packets, outbox[p] # 0
               PROVE  /\ p \in live' /\ meta'[p].frame_id = outbox[p]
                      /\ ~ meta'[p].check_timeout /\ frames'[outbox[p]] \in {Null, p}
                      /\ \A f \in air' : f.packet # p
                      /\ \A c \in beyond' : c.packet # p
    BY DEF NotSentYet
  <2>1. outbox[p] \in FrameIds
    BY DEF TypeOK, FrameIds
  <2> QED BY <2>1 DEF InFlight, NotSentYet
<1>3. OneFrame'
  BY DEF InFlight, OneFrame
<1>4. Unarmed'
  BY DEF InFlight, Unarmed, TypeOK
<1> QED BY <1>1, <1>2, <1>3, <1>4 DEF InFlight

\* Metadata of a packet with a frame or a copy, or with a timeout, does not wait for
\* deliver() any more.
LEMMA SentBefore ==
  ASSUME Basis, InFlight, NEW p \in Packets,
         \/ \E f \in air : f.packet = p
         \/ \E c \in beyond : c.packet = p
         \/ meta[p].check_timeout
         \/ \E f \in air : frames[f.id] = p
  PROVE  outbox[p] = 0
<1>1. CASE (\E f \in air : f.packet = p) \/ (\E c \in beyond : c.packet = p) \/ meta[p].check_timeout
  BY <1>1 DEF InFlight, NotSentYet
<1>2. CASE \E f \in air : frames[f.id] = p
  BY <1>1, <1>2, LocalFacts DEF InFlight, EntriesMatch
<1> QED BY <1>1, <1>2

LEMMA FlightGone ==
  ASSUME Basis, InFlight, Sound', NEW m \in live, Gone(m), outbox[m] = 0,
         NEW i0 \in FrameIds, frames' = [frames EXCEPT ![i0] = Null],
         UNCHANGED <<meta, outbox>>, air' \subseteq air, beyond' \subseteq beyond
  PROVE  InFlight'
<1>1. \A i \in FrameIds : frames'[i] \in {frames[i], Null}
  BY DEF Basis, Ledger, TypeInv, TypeOK
<1>2. live' \subseteq live /\ \A n \in live \ live' : outbox[n] = 0
  BY DEF Gone
<1> QED BY <1>1, <1>2, FlightLess

LEMMA FlightSend ==
  ASSUME Basis, InFlight, ~ exhausted, NEW p \in Packets, Send(p) PROVE InFlight'
<1> USE DEF Basis, Ledger, TypeInv
<1>1. p \in live /\ outbox[p] # 0 /\ outbox[p] \in FrameIds /\ p \notin freed
  BY DEF Send, InFlight, NotSentYet, MemoryInv, TypeOK, FrameIds
<1> DEFINE new == [id |-> outbox[p], packet |-> p, nth |-> sent[p] + 1, radio |-> "busy"]
<1>2. new.id = outbox[p] /\ new.packet = p /\ air' = air \cup {new}
  BY <1>1 DEF Send
<1> HIDE DEF new
<1>3. /\ outbox'[p] = 0 /\ \A q \in Packets : q # p => outbox'[q] = outbox[q]
      /\ UNCHANGED <<frames, meta, live, beyond, fault>>
  BY <1>1 DEF Send, TypeOK, tables, world
<1>4. /\ frames[outbox[p]] \in {Null, p} /\ ~ meta[p].check_timeout
      /\ \A f \in air : f.packet # p
  BY <1>1 DEF InFlight, NotSentYet
<1>5. EntriesMatch'
  BY <1>2, <1>3, <1>4 DEF InFlight, EntriesMatch
<1>6. NotSentYet'
  BY <1>2, <1>3 DEF InFlight, NotSentYet
<1>7. OneFrame'
  BY <1>2, <1>4 DEF InFlight, OneFrame
<1>8. Unarmed'
  BY <1>2, <1>3, <1>4 DEF InFlight, Unarmed
<1>9. Sound'
  BY <1>3 DEF InFlight, Sound
<1> QED BY <1>5, <1>6, <1>7, <1>8, <1>9 DEF InFlight

\* The timeout starts when the only frame of the packet has been answered.
LEMMA FlightSuccess ==
  ASSUME Basis, InFlight, NEW f \in air, StatusSuccess(f) PROVE InFlight'
<1> USE DEF Basis, Ledger, TypeInv
<1> DEFINE m == frames[f.id]
<1>1. m \in live /\ m \in Packets /\ f.id \in FrameIds /\ f \in air
  BY DEF StatusSuccess, TypeOK, Frame
<1>2. m = f.packet /\ outbox[m] = 0
  BY <1>1, LocalFacts, SentBefore DEF InFlight, EntriesMatch
<1>3. /\ \A i \in FrameIds : frames'[i] \in {frames[i], Null}
      /\ \A n \in Packets : n # m => meta'[n] = meta[n]
      /\ air' = air \ {f} /\ UNCHANGED <<live, outbox, beyond, fault>>
  BY <1>1 DEF StatusSuccess, TypeOK, world
<1> HIDE DEF m
<1>4. EntriesMatch'
  BY <1>3 DEF InFlight, EntriesMatch, TypeOK, Frame
<1>5. NotSentYet'
  <2> SUFFICES ASSUME NEW p \in Packets, outbox[p] # 0
               PROVE  /\ p \in live /\ meta'[p].frame_id = outbox[p]
                      /\ ~ meta'[p].check_timeout /\ frames'[outbox[p]] \in {Null, p}
                      /\ \A g \in air' : g.packet # p
                      /\ \A c \in beyond : c.packet # p
    BY <1>3 DEF NotSentYet
  <2>1. outbox[p] \in FrameIds /\ p # m
    BY <1>2 DEF TypeOK, FrameIds
  <2> QED BY <1>3, <2>1 DEF InFlight, NotSentYet
<1>6. OneFrame'
  BY <1>3 DEF InFlight, OneFrame
<1>7. \A g \in air' : g.packet # m /\ g.packet \in Packets
  BY <1>2, <1>3 DEF InFlight, OneFrame, TypeOK, Frame
<1>8. Unarmed'
  BY <1>3, <1>7 DEF InFlight, Unarmed
<1>9. Sound'
  BY <1>3 DEF InFlight, Sound
<1> QED BY <1>4, <1>5, <1>6, <1>8, <1>9 DEF InFlight

\* A new frame of m takes a free id, when no other frame of m is left.
LEMMA FlightResend ==
  ASSUME Basis, InFlight, ~ exhausted, NEW m \in live, NEW id \in Reservable, Retransmit(m, id),
         FreeIds # {}, NEW old, old \subseteq air, air' = (air \ old) \cup {NewFrame(m, id)},
         \A f \in air : f.packet = m => f \in old, outbox[m] = 0,
         UNCHANGED <<live, outbox, beyond, fault>>
  PROVE  InFlight'
<1> USE DEF Basis, Ledger, TypeInv
<1>1. id \in FrameIds /\ id \notin id_occupation /\ m \in Packets /\ meta[m].packet = m
  BY ReservableIsFree, LiveIsTracked
<1>2. (\A f \in air : f.id # id) /\ (\A p \in Packets : outbox[p] # id)
  BY <1>1 DEF FrameIdsUnique
<1>3. Resent(m, id)
  BY <1>1, RetransmitResends
<1>4. NewFrame(m, id).id = id /\ NewFrame(m, id).packet = m
  BY <1>1 DEF NewFrame
<1>5. \A f \in air' : f = NewFrame(m, id) \/ (f \in air /\ f.packet # m)
  OBVIOUS
<1>6. EntriesMatch'
  <2> SUFFICES ASSUME NEW f \in air' PROVE frames'[f.id] \in {Null, f.packet}
    BY DEF EntriesMatch
  <2>1. CASE f = NewFrame(m, id)
    BY <1>1, <1>3, <1>4, <2>1 DEF Resent
  <2>2. CASE f \in air
    <3>1. f.id \in FrameIds /\ f.id # id /\ frames[f.id] \in {Null, f.packet}
      BY <1>2, <2>2 DEF InFlight, EntriesMatch, TypeOK, Frame
    <3> QED BY <1>3, <3>1 DEF Resent
  <2> QED BY <1>5, <2>1, <2>2
<1>7. NotSentYet'
  <2> SUFFICES ASSUME NEW p \in Packets, outbox[p] # 0
               PROVE  /\ p \in live /\ meta'[p].frame_id = outbox[p]
                      /\ ~ meta'[p].check_timeout /\ frames'[outbox[p]] \in {Null, p}
                      /\ \A f \in air' : f.packet # p
                      /\ \A c \in beyond : c.packet # p
    BY DEF NotSentYet
  <2>1. outbox[p] \in FrameIds /\ p # m /\ outbox[p] # id
    BY <1>2 DEF TypeOK, FrameIds
  <2>2. /\ p \in live /\ meta[p].frame_id = outbox[p] /\ ~ meta[p].check_timeout
        /\ frames[outbox[p]] \in {Null, p} /\ (\A f \in air : f.packet # p)
        /\ \A c \in beyond : c.packet # p
    BY DEF InFlight, NotSentYet
  <2>3. meta'[p] = meta[p] /\ frames'[outbox[p]] \in {Null, p}
    BY <1>3, <2>1, <2>2 DEF Resent
  <2>4. \A f \in air' : f.packet # p
    BY <1>4, <1>5, <2>1, <2>2
  <2> QED BY <2>2, <2>3, <2>4
<1>8. OneFrame'
  BY <1>4, <1>5 DEF InFlight, OneFrame
<1>9. Unarmed'
  <2> SUFFICES ASSUME NEW f \in air', f.packet \in live PROVE ~ meta'[f.packet].check_timeout
    BY DEF Unarmed
  <2>1. CASE f = NewFrame(m, id)
    BY <1>3, <1>4, <2>1 DEF Resent
  <2>2. CASE f \in air /\ f.packet # m
    BY <1>3, <2>2 DEF Resent, InFlight, Unarmed, TypeOK
  <2> QED BY <1>5, <2>1, <2>2
<1>10. Sound'
  BY DEF InFlight, Sound
<1> QED BY <1>6, <1>7, <1>8, <1>9, <1>10 DEF InFlight

LEMMA FlightWatch ==
  ASSUME Basis, InFlight, ~ exhausted, NEW p \in Packets, NEW id \in Reservable,
         FreeIds # {}, Opened(p, id)
  PROVE  InFlight'
<1> USE DEF Basis, Ledger, TypeInv
<1>1. id \in FrameIds /\ id \notin id_occupation /\ id # 0
  BY ReservableIsFree
<1>2. (\A f \in air : f.id # id) /\ (\A q \in Packets : outbox[q] # id)
  BY <1>1 DEF FrameIdsUnique
<1>3. (\A f \in air : f.packet # p) /\ (\A c \in beyond : c.packet # p)
  BY DEF Opened, InUse
<1>4. /\ \A i \in FrameIds : frames'[i] = IF i = id THEN p ELSE frames[i]
      /\ \A q \in Packets : outbox'[q] = IF q = p THEN id ELSE outbox[q]
      /\ \A n \in Packets : n # p => meta'[n] = meta[n]
      /\ meta'[p].frame_id = id /\ ~ meta'[p].check_timeout
      /\ UNCHANGED <<air, beyond, fault>> /\ live' = live \cup {p}
  BY <1>1 DEF Opened, TypeOK
<1>5. EntriesMatch'
  BY <1>2, <1>4 DEF InFlight, EntriesMatch, TypeOK, Frame
<1>6. NotSentYet'
  <2> SUFFICES ASSUME NEW q \in Packets, outbox'[q] # 0
               PROVE  /\ q \in live' /\ meta'[q].frame_id = outbox'[q]
                      /\ ~ meta'[q].check_timeout /\ frames'[outbox'[q]] \in {Null, q}
                      /\ \A f \in air' : f.packet # q
                      /\ \A c \in beyond' : c.packet # q
    BY DEF NotSentYet
  <2>1. CASE q = p
    BY <1>1, <1>3, <1>4, <2>1
  <2>2. CASE q # p
    <3>1. outbox[q] \in FrameIds /\ outbox[q] # id /\ outbox'[q] = outbox[q] /\ outbox[q] # 0
      BY <1>2, <1>4, <2>2 DEF TypeOK, FrameIds
    <3>2. /\ q \in live /\ meta[q].frame_id = outbox[q] /\ ~ meta[q].check_timeout
          /\ frames[outbox[q]] \in {Null, q} /\ (\A f \in air : f.packet # q)
          /\ \A c \in beyond : c.packet # q
      BY <3>1 DEF InFlight, NotSentYet
    <3> QED BY <1>4, <2>2, <3>1, <3>2
  <2> QED BY <2>1, <2>2
<1>7. OneFrame'
  BY <1>4 DEF InFlight, OneFrame
<1>8. Unarmed'
  BY <1>3, <1>4 DEF InFlight, Unarmed, TypeOK, Frame
<1>9. Sound'
  BY <1>4 DEF InFlight, Sound
<1> QED BY <1>5, <1>6, <1>7, <1>8, <1>9 DEF InFlight

LEMMA FlightRadio ==
  ASSUME Basis, InFlight, NEW f \in air, Radio(f) PROVE InFlight'
<1> USE DEF Basis, Ledger, TypeInv
<1>1. PICK g : Answered(f, g)
  BY RadioAnswers
<1>2. UNCHANGED <<frames, meta, live, outbox, fault>>
  BY DEF Radio, RadioDelivers, RadioFails, tables
<1>3. \A h \in air' : \E e \in air : h.id = e.id /\ h.packet = e.packet
  BY <1>1 DEF Answered
<1>4. \A c \in beyond' : c \in beyond \/ c.packet = f.packet
  BY <1>1 DEF Answered
<1>5. EntriesMatch'
  BY <1>2, <1>3 DEF InFlight, EntriesMatch
<1>6. NotSentYet'
  BY <1>2, <1>3, <1>4 DEF InFlight, NotSentYet
<1>7. OneFrame'
  BY <1>1 DEF Answered, InFlight, OneFrame
<1>8. Unarmed'
  BY <1>2, <1>3 DEF InFlight, Unarmed
<1>9. Sound'
  BY <1>2 DEF InFlight, Sound
<1> QED BY <1>5, <1>6, <1>7, <1>8, <1>9 DEF InFlight

\* No StatusFrame is about a packet that is not there any more.
LEMMA NoStatusFault ==
  ASSUME Ledger, UniqueInv, MemoryInv, NEW f \in air PROVE ~ StatusFault(f)
<1>1. f.id \in FrameIds
  BY DEF Ledger, TypeInv, TypeOK, Frame
<1>2. frames[f.id] # Null => frames[f.id] \in live
  BY <1>1 DEF MemoryInv
<1>3. frames[f.id] \in live => packets[Id(meta[frames[f.id]].packet)] # Null
  BY LiveIsTracked, LocalFacts
<1> QED BY <1>2, <1>3 DEF StatusFault

LEMMA FlightNext ==
  ASSUME Basis, FlightInv, [Next]_vars, FreshStep PROVE FlightInv'
<1> USE DEF Basis, Ledger, TypeInv
<1>1. CASE UNCHANGED vars
  BY <1>1 DEF vars, FlightInv, InFlight, EntriesMatch, NotSentYet, OneFrame, Unarmed, Sound
<1> SUFFICES ASSUME Next, ~ exhausted' PROVE InFlight'
  BY <1>1 DEF FlightInv
<1>2. exhausted' = exhausted \/ exhausted' = (exhausted \/ FreeIds = {})
  <2>1. ASSUME NEW p \in Packets, DeliverNoRoute(p) \/ Watch(p) \/ Send(p)
        PROVE  exhausted' = exhausted \/ exhausted' = (exhausted \/ FreeIds = {})
    BY <2>1 DEF DeliverNoRoute, Watch, Send
  <2>2. ASSUME NEW f \in air, HandleStatus(f) \/ Radio(f)
        PROVE  exhausted' = exhausted \/ exhausted' = (exhausted \/ FreeIds = {})
    BY <2>2 DEF HandleStatus, StatusUnknown, StatusSuccess, StatusRetry, StatusGiveUp, StatusFault,
                Radio, RadioDelivers, RadioFails
  <2>3. ASSUME NEW c \in beyond, HandleAck(c) \/ LateAck(c) \/ AckFromUnknown(c) \/ ErrorAck(c)
        PROVE  exhausted' = exhausted
    BY <2>3 DEF HandleAck, LateAck, AckFromUnknown, ErrorAck
  <2>4. ASSUME NEW k \in PacketIds, TickVisit(k)
        PROVE  exhausted' = exhausted \/ exhausted' = (exhausted \/ FreeIds = {})
    BY <2>4 DEF TickVisit, TickRetransmit, TickErase
  <2> QED BY <2>1, <2>2, <2>3, <2>4 DEF Next
<1>3. ~ exhausted /\ InFlight
  <2>1. ~ exhausted
    BY <1>2
  <2> QED BY <2>1 DEF FlightInv
<1>4. ASSUME NEW p \in Packets, DeliverNoRoute(p) PROVE InFlight'
  BY <1>3, <1>4, FlightLess DEF DeliverNoRoute, tables, world, InFlight, Sound
<1>5. ASSUME NEW p \in Packets, Watch(p) PROVE InFlight'
  <2>1. PICK id \in Reservable : Opened(p, id)
    BY <1>5, WatchOpens
  <2>2. FreeIds # {}
    BY <2>1 DEF Opened
  <2> QED BY <1>3, <2>1, <2>2, FlightWatch
<1>6. ASSUME NEW p \in Packets, Send(p) PROVE InFlight'
  BY <1>3, <1>6, FlightSend
<1>7. ASSUME NEW f \in air, HandleStatus(f) PROVE InFlight'
  <2>0. f.id \in FrameIds
    BY DEF TypeOK, Frame
  <2>1. CASE StatusUnknown(f)
    BY <1>3, <2>1, FlightLess DEF StatusUnknown, world, InFlight, Sound
  <2>2. CASE StatusSuccess(f)
    BY <1>3, <2>2, FlightSuccess
  <2>3. CASE StatusRetry(f)
    <3> DEFINE m == frames[f.id]
    <3>1. m \in live /\ m \in Packets /\ FreeIds # {}
      BY <1>2, <2>3 DEF StatusRetry, TypeOK
    <3>2. m = f.packet
      BY <1>3, <3>1, LocalFacts DEF InFlight, EntriesMatch
    <3>3. PICK id \in Reservable : /\ Retransmit(m, id)
                                   /\ air' = (air \ {f}) \cup {NewFrame(m, id)}
      BY <2>3 DEF StatusRetry
    <3>4. outbox[m] = 0
      BY <1>3, <3>1, SentBefore
    <3>5. \A g \in air : g.packet = m => g \in {f}
      BY <1>3, <3>2 DEF InFlight, OneFrame
    <3>6. UNCHANGED <<live, outbox, beyond, fault>>
      BY <2>3 DEF StatusRetry, world
    <3>7. {f} \subseteq air
      OBVIOUS
    <3> HIDE DEF m
    <3> QED BY <1>3, <3>1, <3>3, <3>4, <3>5, <3>6, <3>7, FlightResend
  <2>4. CASE StatusGiveUp(f)
    <3>1. frames[f.id] \in live /\ Gone(frames[f.id]) /\ frames[f.id] \in Packets
      BY <2>4, StatusGivesUp DEF TypeOK
    <3>2. outbox[frames[f.id]] = 0
      BY <1>3, <3>1, SentBefore
    <3> QED BY <1>3, <2>0, <2>4, <3>1, <3>2, FlightGone DEF StatusGiveUp, world, InFlight, Sound
  <2>5. CASE StatusFault(f)
    BY <2>5, NoStatusFault
  <2> QED BY <1>7, <2>1, <2>2, <2>3, <2>4, <2>5 DEF HandleStatus
<1>8. ASSUME NEW f \in air, Radio(f) PROVE InFlight'
  BY <1>3, <1>8, FlightRadio
<1>9. ASSUME NEW c \in beyond, HandleAck(c) PROVE InFlight'
  <2>1. /\ c.packet \in live /\ Gone(c.packet)
        /\ frames' = [frames EXCEPT ![meta[c.packet].frame_id] = Null]
    BY <1>9, AckForgets
  <2>2. c.packet \in Packets /\ meta[c.packet].frame_id \in FrameIds
    BY <2>1 DEF TypeOK, Metadata
  <2>3. outbox[c.packet] = 0
    BY <1>3, <2>2, SentBefore
  <2>4. Sound' /\ UNCHANGED <<meta, outbox>> /\ air' \subseteq air /\ beyond' \subseteq beyond
    BY <1>3, <1>9 DEF HandleAck, InFlight, Sound
  <2> QED BY <1>3, <2>1, <2>2, <2>3, <2>4, FlightGone
<1>10. ASSUME NEW c \in beyond, LateAck(c) \/ AckFromUnknown(c) \/ ErrorAck(c)
       PROVE  InFlight'
  BY <1>3, <1>10, FlightLess DEF LateAck, AckFromUnknown, ErrorAck, tables, world, InFlight, Sound
<1>11. ASSUME NEW k \in PacketIds, TickVisit(k) PROVE InFlight'
  <2> DEFINE m == packets[k]
  <2>1. /\ m \in live /\ m \in Packets /\ meta[m].check_timeout
        /\ meta[m].frame_id \in FrameIds
    BY <1>11, FoundIsLive DEF TickVisit, TickRetransmit, TickErase, Due, TypeOK, Metadata
  <2>2. outbox[m] = 0
    BY <1>3, <2>1, SentBefore
  <2>3. CASE TickRetransmit(k)
    <3>1. FreeIds # {}
      BY <1>2, <2>3 DEF TickRetransmit
    <3>2. PICK id \in Reservable : /\ Retransmit(m, id)
                                   /\ air' = air \cup {NewFrame(m, id)}
      BY <2>3 DEF TickRetransmit
    <3> DEFINE none == {}
    <3>3. none \subseteq air /\ \A f \in air : f.packet = m => f \in none
      BY <1>3, <2>1 DEF InFlight, Unarmed
    <3>4. air' = (air \ none) \cup {NewFrame(m, id)}
      BY <3>2
    <3>5. UNCHANGED <<live, outbox, beyond, fault>>
      BY <2>3 DEF TickRetransmit, world
    <3> HIDE DEF m, none
    <3> QED BY <1>3, <2>1, <2>2, <3>1, <3>2, <3>3, <3>4, <3>5, FlightResend
  <2>4. CASE TickErase(k)
    <3>1. Gone(m) /\ frames' = [frames EXCEPT ![meta[m].frame_id] = Null]
      BY <2>4, TickGivesUp
    <3>2. Sound' /\ UNCHANGED <<meta, outbox, air, beyond>>
      BY <2>4 DEF TickErase, world, Sound
    <3> HIDE DEF m
    <3> QED BY <1>3, <2>1, <2>2, <3>1, <3>2, FlightGone
  <2> QED BY <1>11, <2>3, <2>4 DEF TickVisit
<1> QED BY <1>4, <1>5, <1>6, <1>7, <1>8, <1>9, <1>10, <1>11 DEF Next

-----------------------------------------------------------------------------
(* ACKs.  This part needs no hypothesis: two packets may share a Packet::id(), *)
(* and an ACK may settle the wrong one of them, but what it says of the id is  *)
(* true.                                                                       *)

AckInv ==
  /\ \A f \in air : f.packet \in taken
  /\ \A c \in beyond : c.packet \in taken /\ (c.through => c.packet \in delivered)
  /\ delivered \subseteq taken /\ relayed \subseteq taken
  /\ HonestAck

\* Accepted packets keep their Packet::id(), and what was delivered stays delivered.
LEMMA AckSame ==
  ASSUME AckInv, \A q \in taken : packet_id'[q] = packet_id[q], taken \subseteq taken',
         relayed' = relayed, delivered \subseteq delivered', delivered' \subseteq taken',
         \A f \in air' : f.packet \in taken,
         \A c \in beyond' : c.packet \in taken /\ (c.through => c.packet \in delivered')
  PROVE  AckInv'
<1>1. \A q \in taken : Id(q)' = Id(q)
  BY DEF Id
<1>2. HonestAck'
  BY <1>1 DEF AckInv, HonestAck
<1> QED BY <1>2 DEF AckInv

LEMMA AckHandled ==
  ASSUME Ledger, AckInv, NEW c \in beyond, HandleAck(c) PROVE AckInv'
<1> USE DEF Ledger, TypeInv
<1> DEFINE m == packets[Id(c.packet)]
           p == meta[m].packet
<1>1. Id(c.packet) \in PacketIds /\ c.packet \in delivered /\ m # Null
  BY IdType DEF TypeOK, Copy, AckInv, HandleAck
<1>2. p \in taken /\ Id(p) = Id(c.packet)
  BY <1>1 DEF KeyInv
<1>3. relayed' \subseteq relayed \cup {p}
  BY DEF HandleAck
<1>4. \A q : Id(q)' = Id(q)
  BY DEF HandleAck, Id
<1>5. UNCHANGED <<delivered, taken, air>> /\ beyond' \subseteq beyond
  BY DEF HandleAck
<1> HIDE DEF m, p
<1>6. HonestAck'
  BY <1>1, <1>2, <1>3, <1>4, <1>5 DEF AckInv, HonestAck
<1> QED BY <1>2, <1>3, <1>5, <1>6 DEF AckInv

LEMMA AckNext == ASSUME Ledger, AckInv, [Next]_vars PROVE AckInv'
<1> USE DEF Ledger, TypeInv
<1>0. /\ \A f \in air : f.packet \in taken
      /\ \A c \in beyond : c.packet \in taken /\ (c.through => c.packet \in delivered)
      /\ delivered \subseteq taken
  BY DEF AckInv
<1>1. ASSUME NEW p \in Packets, DeliverNoRoute(p) PROVE AckInv'
  BY <1>0, <1>1, AckSame DEF DeliverNoRoute, world
<1>2. ASSUME NEW p \in Packets, Watch(p) PROVE AckInv'
  <2>1. \A q \in Packets : q # p => packet_id'[q] = packet_id[q]
    BY <1>2, WatchEffect DEF Watched
  <2>2. \A q \in taken : packet_id'[q] = packet_id[q]
    BY <1>2, <2>1 DEF Watch, TypeOK
  <2>3. taken \subseteq taken' /\ UNCHANGED <<relayed, delivered, air, beyond>>
    BY <1>2 DEF Watch, world
  <2> QED BY <1>0, <2>2, <2>3, AckSame
<1>3. ASSUME NEW p \in Packets, Send(p) PROVE AckInv'
  <2>1. p \in taken
    BY <1>3 DEF Send, AccountInv
  <2>2. \A f \in air' : f.packet \in taken
    BY <1>0, <1>3, <2>1 DEF Send
  <2> QED BY <1>0, <1>3, <2>2, AckSame DEF Send, world
<1>4. ASSUME NEW m \in live, NEW id, air' \subseteq air \cup {NewFrame(m, id)},
             UNCHANGED <<packet_id, taken, world, relayed>>
      PROVE  AckInv'
  <2>1. NewFrame(m, id).packet \in taken
    BY DEF NewFrame, AccountInv
  <2>2. \A f \in air' : f.packet \in taken
    BY <1>0, <1>4, <2>1
  <2> QED BY <1>0, <1>4, <2>2, AckSame DEF world
<1>5. ASSUME NEW f \in air, HandleStatus(f) PROVE AckInv'
  <2>1. CASE StatusUnknown(f) \/ StatusSuccess(f) \/ StatusGiveUp(f) \/ StatusFault(f)
    BY <1>0, <2>1, AckSame DEF StatusUnknown, StatusSuccess, StatusGiveUp, StatusFault, world
  <2>2. CASE StatusRetry(f)
    BY <1>4, <2>2 DEF StatusRetry
  <2> QED BY <1>5, <2>1, <2>2 DEF HandleStatus
<1>6. ASSUME NEW f \in air, Radio(f) PROVE AckInv'
  <2>1. PICK g : Answered(f, g)
    BY <1>6, RadioAnswers
  <2>2. UNCHANGED <<packet_id, taken, relayed>>
    BY <1>6 DEF Radio, RadioDelivers, RadioFails
  <2>3. \A h \in air' : h.packet \in taken
    BY <1>0, <2>1 DEF Answered
  <2>4. /\ \A c \in beyond' : c.packet \in taken /\ (c.through => c.packet \in delivered')
        /\ delivered \subseteq delivered' /\ delivered' \subseteq taken
    BY <1>0, <2>1 DEF Answered
  <2> QED BY <2>2, <2>3, <2>4, AckSame
<1>7. ASSUME NEW c \in beyond, HandleAck(c) PROVE AckInv'
  BY <1>7, AckHandled
<1>8. ASSUME NEW c \in beyond, LateAck(c) \/ AckFromUnknown(c) \/ ErrorAck(c)
      PROVE  AckInv'
  BY <1>0, <1>8, AckSame DEF LateAck, AckFromUnknown, ErrorAck, world
<1>9. ASSUME NEW k \in PacketIds, TickVisit(k) PROVE AckInv'
  <2>1. CASE TickRetransmit(k)
    <3>1. packets[k] \in live
      BY <2>1 DEF TickRetransmit, Due, AccountInv
    <3> QED BY <1>4, <2>1, <3>1 DEF TickRetransmit
  <2>2. CASE TickErase(k)
    BY <1>0, <2>2, AckSame DEF TickErase, world
  <2> QED BY <1>9, <2>1, <2>2 DEF TickVisit
<1>10. CASE UNCHANGED vars
  BY <1>0, <1>10, AckSame DEF vars
<1> QED BY <1>1, <1>2, <1>3, <1>5, <1>6, <1>7, <1>8, <1>9, <1>10 DEF Next

LEMMA AckInit == Init => AckInv
BY DEF Init, AckInv, HonestAck

\* An ACK that this node passes on is about a packet that did reach its destination, for
\* any number of packets and retransmissions, unique identities or not
\* (dispatcher.cpp:178-196).
THEOREM Acks_Honest == Spec => []HonestAck
<1>1. Ledger /\ AckInv /\ [Next]_vars => (Ledger /\ AckInv)'
  BY LedgerNext, AckNext
<1>2. AckInv => HonestAck
  BY DEF AckInv
<1> QED
  BY LedgerInit, AckInit, <1>1, <1>2, PTL DEF Spec

-----------------------------------------------------------------------------
(* The theorems about memory and frames. *)

LEMMA BasisInit == Init => Basis /\ FlightInv
<1> SUFFICES ASSUME Init PROVE Basis /\ FlightInv
  OBVIOUS
<1>1. Ledger
  BY LedgerInit
<1>2. \A p \in Packets : ~ InUse(p)
  BY <1>1, IdType DEF Init, InUse, Tracked, Ledger, TypeInv
<1>3. UniqueInv
  BY <1>2 DEF Init, UniqueInv
<1>4. MemoryInv
  BY DEF Init, MemoryInv
<1>5. FrameIdsUnique
  BY DEF Init, FrameIdsUnique, FrameIds
<1>6. FlightInv
  BY DEF Init, FlightInv, InFlight, EntriesMatch, NotSentYet, OneFrame, Unarmed, Sound
<1> QED BY <1>1, <1>3, <1>4, <1>5, <1>6 DEF Basis

LEMMA BasisNext ==
  Basis /\ FlightInv /\ [Next]_vars /\ [FreshStep]_vars => (Basis /\ FlightInv)'
<1> SUFFICES ASSUME Basis, FlightInv, [Next]_vars, [FreshStep]_vars PROVE (Basis /\ FlightInv)'
  OBVIOUS
<1>1. FreshStep
  <2>1. UNCHANGED vars => \A q \in Packets : ~ Watch(q)
    BY DEF vars, Watch
  <2> QED BY <2>1 DEF FreshStep
<1> QED BY <1>1, LedgerNext, UniqueNext, MemoryNext, IdsNext, FlightNext DEF Basis, Ledger

LEMMA BasisHolds == Spec /\ FreshIds => [](Basis /\ FlightInv)
BY BasisInit, BasisNext, PTL DEF Spec, FreshIds

\* While ids are free, the tables never lead to deleted Metadata, and no thread uses a
\* deleted Packet or erases an entry twice, however the three threads interleave
\* (history.cpp:12-25, dispatcher.cpp:40-43).
THEOREM Memory_Safe == Spec /\ FreshIds => []MemorySafe
<1>1. Basis /\ FlightInv => MemorySafe
  BY DEF Basis, Ledger, AccountInv, MemoryInv, FlightInv, InFlight, Sound, MemorySafe
<1> QED BY BasisHolds, <1>1, PTL

\* deliver(), the StatusFrame handler and the Tick thread never have two frames of a packet
\* in the radio, and the timeout of a packet never runs while a frame is unanswered.
THEOREM One_Frame == Spec /\ FreshIds => []OneFrameInFlight
<1>1. Basis /\ FlightInv => OneFrameInFlight
  <2> SUFFICES ASSUME Basis, InFlight, NEW f \in air
               PROVE  /\ \A g \in air : f.packet = g.packet => f = g
                      /\ outbox[f.packet] = 0
                      /\ Tracked(f.packet) => ~ meta[packets[Id(f.packet)]].check_timeout
    BY DEF FlightInv, OneFrameInFlight
  <2>1. f.packet \in Packets
    BY DEF Basis, Ledger, TypeInv, TypeOK, Frame
  <2>2. outbox[f.packet] = 0
    BY <2>1, SentBefore
  <2>3. Tracked(f.packet) => f.packet \in live /\ packets[Id(f.packet)] = f.packet
    BY <2>1, TrackedIsLive, LiveIsTracked DEF Basis
  <2> QED BY <2>2, <2>3 DEF InFlight, OneFrame, Unarmed
<1> QED BY BasisHolds, <1>1, PTL

-----------------------------------------------------------------------------
(* The life of a packet.  Exhausted ids may cost it an entry in               *)
(* frames_history, but every step still does one of six things to the packets *)
(* as an application sees them.                                               *)

Trust == Ledger /\ UniqueInv /\ MemoryInv /\ AckInv /\ ReportInv

\* Frames are sent for packets in the history only.
OnlyLiveSent == \A p \in Packets : p \notin live => sent'[p] = sent[p]

Quiet == UNCHANGED <<taken, live, reported, delivered>> /\ OnlyLiveSent
Arrived(p) == /\ p \in taken /\ delivered' = delivered \cup {p}
              /\ UNCHANGED <<taken, live, reported, sent>>
Refused(p) == /\ p \notin taken /\ p \notin live /\ taken' = taken \cup {p} /\ Report(p)
              /\ UNCHANGED <<live, delivered, sent>>
Accepted(p) == /\ p \notin taken /\ taken' = taken \cup {p} /\ live' = live \cup {p}
               /\ UNCHANGED <<reported, delivered, sent>>
GivenUp(p) == /\ p \in live /\ fault = "none" /\ live' = live \ {p} /\ Report(p)
              /\ UNCHANGED <<taken, delivered, sent>>
Acknowledged(p) == /\ p \in live /\ fault = "none" /\ live' = live \ {p} /\ p \in delivered
                   /\ UNCHANGED <<taken, reported, delivered, sent>>

Happens == Quiet \/ \E p \in Packets : \/ Arrived(p) \/ Refused(p) \/ Accepted(p)
                                       \/ GivenUp(p) \/ Acknowledged(p)

LEMMA StepHappens == ASSUME Trust, [Next]_vars, FreshStep PROVE Happens
<1> USE DEF Trust, Ledger, TypeInv
<1>1. ASSUME NEW p \in Packets, DeliverNoRoute(p) PROVE Happens
  <2>1. Refused(p)
    BY <1>1, UnusedBefore DEF DeliverNoRoute, Refused, tables, world
  <2> QED BY <2>1 DEF Happens
<1>2. ASSUME NEW p \in Packets, Watch(p) PROVE Happens
  <2>1. Accepted(p)
    BY <1>2, WatchOpens DEF Opened, Accepted
  <2> QED BY <2>1 DEF Happens
<1>3. ASSUME NEW p \in Packets, Send(p) PROVE Happens
  <2>1. p \notin live => sent' = sent
    BY <1>3 DEF Send, MemoryInv
  <2>2. \A q \in Packets : q # p => sent'[q] = sent[q]
    BY <1>3 DEF Send, TypeOK
  <2>3. Quiet
    BY <1>3, <2>1, <2>2 DEF Quiet, OnlyLiveSent, Send, tables, world
  <2> QED BY <2>3 DEF Happens
<1>4. ASSUME NEW m \in live, NEW id \in Reservable, Retransmit(m, id),
             UNCHANGED <<taken, live, reported, delivered>>
      PROVE  Happens
  <2>1. id \in FrameIds /\ m \in Packets /\ meta[m].packet = m
    BY ReservableType, LiveIsTracked
  <2>2. Resent(m, id)
    BY <1>4, <2>1, RetransmitResends
  <2>3. Quiet
    BY <1>4, <2>1, <2>2 DEF Quiet, OnlyLiveSent, Resent
  <2> QED BY <2>3 DEF Happens
<1>5. ASSUME NEW f \in air, HandleStatus(f) PROVE Happens
  <2>1. CASE StatusUnknown(f) \/ StatusSuccess(f)
    BY <2>1 DEF StatusUnknown, StatusSuccess, world, Happens, Quiet, OnlyLiveSent
  <2>2. CASE StatusRetry(f)
    BY <1>4, <2>2 DEF StatusRetry, world
  <2>3. CASE StatusGiveUp(f)
    <3>1. frames[f.id] \in Packets /\ GivenUp(frames[f.id])
      BY <2>3, StatusGivesUp DEF StatusGiveUp, StatusArrives, GivenUp, Gone, world, TypeOK
    <3> QED BY <3>1 DEF Happens
  <2>4. CASE StatusFault(f)
    BY <2>4, NoStatusFault
  <2> QED BY <1>5, <2>1, <2>2, <2>3, <2>4 DEF HandleStatus
<1>6. ASSUME NEW f \in air, Radio(f) PROVE Happens
  <2>1. f.packet \in Packets /\ f.packet \in taken
    BY DEF TypeOK, Frame, AckInv
  <2>2. Quiet \/ Arrived(f.packet)
    BY <1>6, <2>1 DEF Radio, RadioDelivers, RadioFails, tables, world, Quiet, OnlyLiveSent, Arrived
  <2> QED BY <2>1, <2>2 DEF Happens
<1>7. ASSUME NEW c \in beyond, HandleAck(c) PROVE Happens
  <2>1. c.packet \in Packets /\ Acknowledged(c.packet)
    BY <1>7, AckForgets DEF HandleAck, Acknowledged, Gone, AckInv, TypeOK, Copy
  <2> QED BY <2>1 DEF Happens
<1>8. ASSUME NEW c \in beyond, LateAck(c) \/ AckFromUnknown(c) \/ ErrorAck(c)
      PROVE  Happens
  BY <1>8 DEF LateAck, AckFromUnknown, ErrorAck, tables, world, Happens, Quiet, OnlyLiveSent
<1>9. ASSUME NEW k \in PacketIds, TickVisit(k) PROVE Happens
  <2>1. packets[k] \in live /\ packets[k] \in Packets
    BY <1>9 DEF TickVisit, TickRetransmit, TickErase, Due, AccountInv, TypeOK
  <2>2. CASE TickRetransmit(k)
    BY <1>4, <2>1, <2>2 DEF TickRetransmit, world
  <2>3. CASE TickErase(k)
    <3>1. GivenUp(packets[k])
      BY <2>3, TickGivesUp DEF TickErase, Due, GivenUp, Gone, world
    <3> QED BY <2>1, <3>1 DEF Happens
  <2> QED BY <1>9, <2>2, <2>3 DEF TickVisit
<1>10. CASE UNCHANGED vars
  BY <1>10 DEF vars, Happens, Quiet, OnlyLiveSent
<1> QED BY <1>1, <1>2, <1>3, <1>5, <1>6, <1>7, <1>8, <1>9, <1>10 DEF Next

LEMMA TrustInit == Init => Trust
<1>1. Init => ReportInv
  BY ConstantsAssumption DEF Init, ReportInv, Local
<1> QED BY <1>1, BasisInit, AckInit DEF Basis, Trust

LEMMA TrustNext ==
  Trust /\ [Next]_vars /\ [FreshStep]_vars => Trust' /\ Happens
<1> SUFFICES ASSUME Trust, [Next]_vars, [FreshStep]_vars PROVE Trust' /\ Happens
  OBVIOUS
<1>1. FreshStep
  <2>1. UNCHANGED vars => \A q \in Packets : ~ Watch(q)
    BY DEF vars, Watch
  <2> QED BY <2>1 DEF FreshStep
<1> QED BY <1>1, LedgerNext, UniqueNext, MemoryNext, AckNext, ReportNext, StepHappens DEF Trust

\* Settled, as the tables have it.
SettledMeans == \A p \in Packets : Settled(p) <=> p \in taken /\ p \notin live

LEMMA SettledIs == Trust => SettledMeans
BY TrackedIsLive DEF Trust, Settled, SettledMeans

\* A packet that has left the history never comes back, whatever StatusFrames, ACKs and
\* timeouts are still to come, with ids exhausted or not: it is neither sent nor reported
\* again.
THEOREM Stays_Settled == Spec /\ FreshIds => StaysSettled
<1> DEFINE Stays == \A p \in Packets : Settled(p) =>
                      Settled(p)' /\ sent'[p] = sent[p] /\ reported'[p] = reported[p]
<1>1. Trust /\ SettledMeans /\ SettledMeans' /\ Happens => Stays
  <2> SUFFICES ASSUME Trust, SettledMeans, SettledMeans', Happens, NEW p \in Packets, Settled(p)
               PROVE  Settled(p)' /\ sent'[p] = sent[p] /\ reported'[p] = reported[p]
    OBVIOUS
  <2>1. p \in taken /\ p \notin live
    BY DEF SettledMeans
  <2>2. (Settled(p) <=> p \in taken /\ p \notin live)'
    BY DEF SettledMeans
  <2>3. \A q \in Packets, r \in Packets : Report(q) /\ r # q => reported'[r] = reported[r]
    BY DEF Report, Trust, Ledger, TypeInv, TypeOK
  <2>4. CASE Quiet
    BY <2>1, <2>2, <2>4 DEF Quiet, OnlyLiveSent
  <2>5. ASSUME NEW q \in Packets, Arrived(q) \/ Refused(q) \/ Accepted(q) \/ GivenUp(q)
                                  \/ Acknowledged(q)
        PROVE  Settled(p)' /\ sent'[p] = sent[p] /\ reported'[p] = reported[p]
    BY <2>1, <2>2, <2>3, <2>5 DEF Arrived, Refused, Accepted, GivenUp, Acknowledged
  <2> QED BY <2>4, <2>5 DEF Happens
<1>2. Trust /\ SettledMeans /\ SettledMeans' /\ [Next]_vars /\ [FreshStep]_vars => [Stays]_vars
  BY TrustNext, <1>1
<1> QED
  BY TrustInit, TrustNext, SettledIs, <1>2, PTL DEF Spec, FreshIds, StaysSettled

\* A local packet that is taken and no longer live was delivered or reported.
NoneLost == \A p \in Local : p \in taken /\ p \notin live => p \in delivered \/ reported[p] > 0

LEMMA NoneLostNext == ASSUME Trust, NoneLost, Happens PROVE NoneLost'
<1> SUFFICES ASSUME NEW p \in Local, p \in taken', p \notin live', p \notin delivered'
             PROVE  reported'[p] > 0
  BY DEF NoneLost
<1> USE DEF Trust, Ledger, TypeInv
<1>1. p \in Packets /\ reported[p] \in Nat
  BY DEF Local, TypeOK
<1>2. \A q \in Packets : Report(q) => reported'[p] = IF p = q THEN reported[p] + 1 ELSE reported[p]
  BY <1>1 DEF Report, TypeOK
<1>3. CASE Quiet
  BY <1>3 DEF Quiet, NoneLost
<1>4. ASSUME NEW q \in Packets, Arrived(q) \/ Accepted(q) \/ Acknowledged(q)
      PROVE  reported'[p] > 0
  BY <1>4 DEF Arrived, Accepted, Acknowledged, NoneLost
<1>5. ASSUME NEW q \in Packets, Refused(q) \/ GivenUp(q) PROVE reported'[p] > 0
  <2>1. Report(q) /\ delivered' = delivered
    BY <1>5 DEF Refused, GivenUp
  <2>2. CASE p = q
    BY <1>1, <1>2, <2>1, <2>2
  <2>3. CASE p # q
    <3>1. p \in taken /\ p \notin live
      BY <1>5, <2>3 DEF Refused, GivenUp
    <3> QED BY <1>2, <2>1, <2>3, <3>1 DEF NoneLost
  <2> QED BY <2>2, <2>3
<1> QED BY <1>3, <1>4, <1>5 DEF Happens

\* "Packets must delivered to destination or an information about error must be received"
\* (router.h:29-30), for every local packet that leaves the history, by whichever thread.
THEOREM No_Silent_Loss == Spec /\ FreshIds => []NoSilentLoss
<1>1. Init => NoneLost
  BY DEF Init, NoneLost
<1>2. Trust /\ NoneLost /\ [Next]_vars /\ [FreshStep]_vars => (Trust /\ NoneLost)'
  BY TrustNext, NoneLostNext
<1>3. Trust /\ NoneLost => NoSilentLoss
  BY SettledIs DEF SettledMeans, NoneLost, NoSilentLoss, Local
<1> QED
  BY TrustInit, <1>1, <1>2, <1>3, PTL DEF Spec, FreshIds

-----------------------------------------------------------------------------
(* The Dispatcher implements ReliableDelivery. *)

Standing(p) == IF p \notin taken THEN "new"
               ELSE IF reported[p] > 0 THEN "undelivered"
               ELSE IF p \in live THEN "pending" ELSE "acked"
OutcomeMeans == Outcome = [p \in Local |-> Standing(p)]

LEMMA OutcomeIs == Trust => OutcomeMeans
<1> SUFFICES ASSUME Trust PROVE OutcomeMeans
  OBVIOUS
<1>1. \A p \in Local : (Tracked(p) <=> p \in live) /\ reported[p] \in Nat
  BY TrackedIsLive DEF Trust, Ledger, TypeInv, TypeOK, Local
<1> QED BY <1>1 DEF OutcomeMeans, Outcome, Standing

\* A packet in the history has not been reported.
LEMMA LiveUnreported ==
  ASSUME Trust, fault = "none", NEW p \in Local, p \in live PROVE reported[p] = 0
<1>1. packets[Id(p)] = p /\ Id(p) \in PacketIds
  BY LiveIsTracked DEF Trust
<1>2. reported[p] # 1
  BY <1>1 DEF Trust, ReportInv
<1> QED BY <1>2 DEF Trust, ReportInv, Ledger, TypeInv, TypeOK, Local

\* The only standing that changes is that of p.
LEMMA OneOutcomeChanges ==
  ASSUME OutcomeMeans, OutcomeMeans', NEW p \in Local,
         \A q \in Local : q # p => Standing(q)' = Standing(q)
  PROVE  Outcome' = [Outcome EXCEPT ![p] = Standing(p)'] /\ Outcome[p] = Standing(p)
BY DEF OutcomeMeans

LEMMA PromiseStep ==
  ASSUME Trust, OutcomeMeans, OutcomeMeans', Happens
  PROVE  Promise!Next \/ UNCHANGED <<Outcome, delivered \cap Local>>
<1> USE DEF Trust, Ledger, TypeInv
<1>1. \A p \in Local : p \in Packets /\ reported[p] \in Nat
  BY DEF Local, TypeOK
<1>2. \A p \in Packets, q \in Local :
        Report(p) => reported'[q] = IF q = p THEN reported[q] + 1 ELSE reported[q]
  BY <1>1 DEF Report, TypeOK, Local
<1>3. ASSUME UNCHANGED <<taken, live, reported>> PROVE Outcome' = Outcome
  <2>1. \A p \in Local : Standing(p)' = Standing(p)
    BY <1>3 DEF Standing
  <2> QED BY <2>1 DEF OutcomeMeans
<1>4. CASE Quiet
  BY <1>3, <1>4 DEF Quiet
<1>5. ASSUME NEW p \in Packets, Arrived(p)
      PROVE  Promise!Next \/ UNCHANGED <<Outcome, delivered \cap Local>>
  <2>1. Outcome' = Outcome
    BY <1>3, <1>5 DEF Arrived
  <2>2. CASE p \notin Local
    BY <1>5, <2>1, <2>2 DEF Arrived
  <2>3. CASE p \in Local
    <3>1. Outcome[p] # "new"
      BY <1>5, <2>3 DEF Arrived, OutcomeMeans, Standing
    <3>2. (delivered \cap Local)' = (delivered \cap Local) \cup {p}
      BY <1>5, <2>3 DEF Arrived
    <3>3. Promise!Receive(p)
      BY <2>1, <3>1, <3>2 DEF Promise!Receive
    <3> QED BY <2>3, <3>3 DEF Promise!Next
  <2> QED BY <2>2, <2>3
<1>6. ASSUME NEW p \in Packets, p \notin Local,
             Refused(p) \/ Accepted(p) \/ GivenUp(p) \/ Acknowledged(p)
      PROVE  UNCHANGED <<Outcome, delivered \cap Local>>
  <2>1. \A q \in Local : Standing(q)' = Standing(q)
    BY <1>2, <1>6 DEF Standing, Refused, Accepted, GivenUp, Acknowledged
  <2>2. delivered' = delivered
    BY <1>6 DEF Refused, Accepted, GivenUp, Acknowledged
  <2> QED BY <2>1, <2>2 DEF OutcomeMeans
<1>7. ASSUME NEW p \in Local, Refused(p) \/ Accepted(p) \/ GivenUp(p) \/ Acknowledged(p)
      PROVE  Promise!Next
  <2>0. \A q \in Local : q # p => Standing(q)' = Standing(q)
    BY <1>1, <1>2, <1>7 DEF Standing, Refused, Accepted, GivenUp, Acknowledged
  <2>1. /\ Outcome' = [Outcome EXCEPT ![p] = Standing(p)'] /\ Outcome[p] = Standing(p)
        /\ (delivered \cap Local)' = delivered \cap Local
    BY <1>7, <2>0, OneOutcomeChanges DEF Refused, Accepted, GivenUp, Acknowledged
  <2>2. CASE Refused(p)
    <3>1. Standing(p) = "new" /\ Standing(p)' = "undelivered"
      BY <1>1, <1>2, <2>2 DEF Refused, Standing
    <3>2. Promise!Refuse(p)
      BY <2>1, <3>1 DEF Promise!Refuse, Promise!Become
    <3> QED BY <3>2 DEF Promise!Next
  <2>3. CASE Accepted(p)
    <3>1. reported[p] = 0
      BY <1>1, <2>3 DEF Accepted, AccountInv
    <3>2. Standing(p) = "new" /\ Standing(p)' = "pending"
      BY <2>3, <3>1 DEF Accepted, Standing
    <3>3. Promise!Accept(p)
      BY <2>1, <3>2 DEF Promise!Accept, Promise!Become
    <3> QED BY <3>3 DEF Promise!Next
  <2>4. CASE GivenUp(p)
    <3>1. reported[p] = 0 /\ p \in taken
      BY <2>4, LiveUnreported DEF GivenUp, AccountInv
    <3>2. reported'[p] = 1
      BY <1>1, <1>2, <2>4, <3>1 DEF GivenUp
    <3>3. Standing(p) = "pending" /\ Standing(p)' = "undelivered"
      BY <2>4, <3>1, <3>2 DEF GivenUp, Standing
    <3>4. Promise!GiveUp(p)
      BY <2>1, <3>3 DEF Promise!GiveUp, Promise!Become
    <3> QED BY <3>4 DEF Promise!Next
  <2>5. CASE Acknowledged(p)
    <3>1. reported[p] = 0 /\ p \in taken
      BY <2>5, LiveUnreported DEF Acknowledged, AccountInv
    <3>2. Standing(p) = "pending" /\ Standing(p)' = "acked"
      BY <2>5, <3>1 DEF Acknowledged, Standing
    <3>3. Promise!Acknowledge(p)
      BY <2>1, <2>5, <3>2 DEF Promise!Acknowledge, Promise!Become, Acknowledged
    <3> QED BY <3>3 DEF Promise!Next
  <2> QED BY <1>7, <2>2, <2>3, <2>4, <2>5
<1> QED BY <1>4, <1>5, <1>6, <1>7 DEF Happens

\* What three threads, the radio and ACKs do to local packets is what ReliableDelivery
\* allows: an accepted packet is reported once or acknowledged once, never both, and it is
\* acknowledged only if it was received.
THEOREM Dispatcher_Implements == Spec /\ FreshIds => ImplementsReliableDelivery
<1>1. Init => Promise!Init
  <2> SUFFICES ASSUME Init PROVE Promise!Init
    OBVIOUS
  <2>1. Outcome = [p \in Local |-> "new"]
    BY DEF Init, Outcome
  <2> QED BY <2>1 DEF Init, Promise!Init
<1>2. Trust /\ OutcomeMeans /\ OutcomeMeans' /\ [Next]_vars /\ [FreshStep]_vars
        => [Promise!Next]_<<Outcome, delivered \cap Local>>
  BY TrustNext, PromiseStep
<1> QED
  BY TrustInit, TrustNext, OutcomeIs, <1>1, <1>2, PTL
     DEF Spec, FreshIds, ImplementsReliableDelivery, Promise!Spec

-----------------------------------------------------------------------------
(* Where identities are fresh. *)

\* A routed packet keeps the id it came with.
WireInv == \A p \in Packets \ Local : packet_id[p] = WireId[p]

LEMMA WireNext == ASSUME TypeInv, WireInv, [Next]_vars PROVE WireInv'
<1>1. ASSUME NEW p \in Packets, Watch(p) PROVE WireInv'
  <2>1. PICK id : packet_id' = [packet_id EXCEPT ![p] = IF packet_id[p] = 0 THEN id ELSE packet_id[p]]
    BY <1>1 DEF Watch
  <2>2. p \notin Local => packet_id[p] # 0
    BY LocalFacts DEF WireInv
  <2> QED BY <2>1, <2>2 DEF WireInv, TypeInv, TypeOK
<1>2. CASE UNCHANGED packet_id
  BY <1>2 DEF WireInv
<1>3. UNCHANGED packet_id \/ \E p \in Packets : Watch(p)
  <2>1. CASE UNCHANGED vars
    BY <2>1 DEF vars
  <2>2. ASSUME NEW p \in Packets, DeliverNoRoute(p) \/ Send(p) PROVE UNCHANGED packet_id
    BY <2>2 DEF DeliverNoRoute, Send
  <2>3. ASSUME NEW f \in air, HandleStatus(f) \/ Radio(f) PROVE UNCHANGED packet_id
    BY <2>3 DEF HandleStatus, StatusUnknown, StatusSuccess, StatusRetry, StatusGiveUp, StatusFault,
                Radio, RadioDelivers, RadioFails
  <2>4. ASSUME NEW c \in beyond, HandleAck(c) \/ LateAck(c) \/ AckFromUnknown(c) \/ ErrorAck(c)
        PROVE  UNCHANGED packet_id
    BY <2>4 DEF HandleAck, LateAck, AckFromUnknown, ErrorAck
  <2>5. ASSUME NEW k \in PacketIds, TickVisit(k) PROVE UNCHANGED packet_id
    BY <2>5 DEF TickVisit, TickRetransmit, TickErase
  <2> QED BY <2>1, <2>2, <2>3, <2>4, <2>5 DEF Next
<1> QED BY <1>1, <1>2, <1>3

LEMMA DistinctStep == ASSUME DistinctIds, TypeInv, WireInv PROVE FreshStep
<1> SUFFICES ASSUME NEW q \in Packets, Watch(q), NEW p \in taken, Id(p) = Id(q)' PROVE FALSE
  BY DEF FreshStep
<1>1. p # q /\ p \in Packets
  BY DEF Watch, TypeInv, TypeOK
<1>2. /\ Destination[p] = Destination[q] /\ Source[p] = Source[q]
      /\ packet_id[p] = packet_id'[q]
  BY DEF Id
<1>3. p \notin Local /\ q \notin Local /\ WireId[p] # WireId[q]
  BY <1>1, <1>2 DEF DistinctIds, Local
<1>4. packet_id[p] = WireId[p] /\ packet_id[q] = WireId[q] /\ packet_id[q] # 0
  BY <1>1, <1>3, LocalFacts DEF WireInv
<1>5. packet_id'[q] = packet_id[q]
  BY <1>4 DEF Watch, TypeInv, TypeOK
<1> QED BY <1>2, <1>3, <1>4, <1>5

\* Packets that differ in destination, in source or in the id they arrive with never
\* share a Packet::id(): for them FreshIds is no assumption about the program.
THEOREM Distinct_Fresh == ASSUME DistinctIds PROVE Spec => FreshIds
<1>1. Init => TypeInv /\ WireInv
  BY LedgerInit DEF Init, WireInv, Ledger
<1>2. TypeInv /\ WireInv /\ [Next]_vars => (TypeInv /\ WireInv)'
  BY TypeNext, WireNext
<1>3. TypeInv /\ WireInv => [FreshStep]_vars
  BY DistinctStep
<1> QED
  BY <1>1, <1>2, <1>3, PTL DEF Spec, FreshIds

=============================================================================
