-------------------------- MODULE RelayFlood_proof --------------------------
(***************************************************************************)
(* Proofs about RelayNetwork as a whole: that no packet goes round in the    *)
(* network (NoRelayLoop), and that the packets that no fault disturbed reach *)
(* their destinations (EveryDestinationHears, NeighboursHearReliableOnce),   *)
(* for any number of devices, any links that connect them and any bounds,    *)
(* when an entry of the de-duplication map outlives a walk through all of    *)
(* the devices (FlushAssumption).                                           *)
(***************************************************************************)
EXTENDS RelayNetwork_proof

MessageOfKey(k) == <<k.src, k.mid>>

\* The identity that the frames with a packet have for the devices they reach.
FrameKey(p) ==
  IF p.mid \in Reliable THEN [PacketKey(p) EXCEPT !.dst = Mcast] ELSE PacketKey(p)

\* The packet p is s, or a unicast copy of the reliable multicast s.
Carries(p, s) ==
  \/ p = s
  \/ /\ s.dst = Mcast /\ s.relay /\ s.mid \in Reliable
     /\ p.dst # Mcast /\ p = [s EXCEPT !.dst = p.dst, !.relay = FALSE]

\* The sender of s has taken it for a new packet.
Started(s) == PacketKey(s) \in DOMAIN accepted_at[s.src]
StartedAt(s) == accepted_at[s.src][PacketKey(s)]

Has(s, d) == FrameKey(s) \in DOMAIN accepted_at[d]

Reached(s) == {s.src} \cup {d \in Devices : Has(s, d)}

Unfailed(s) == \A x \in failed : MessageOfKey(x[2]) # MessageOf(s)

FrameInv(f) ==
  /\ f.p.dst \in {Mcast, f.to}
  /\ f.to = f.p.src => f.p.dst = Mcast
  /\ now <= f.due
  /\ \E s \in sent : Carries(f.p, s) /\ Started(s)
  /\ \A x \in failed : MessageOfKey(x[2]) = MessageOf(f.p) => x[2] = FrameKey(f.p)

\* The frames of a message are due, at the latest, when they have gone a hop for each of
\* the devices it reached.
TimeInv(s) ==
  Unfailed(s) /\ Started(s) =>
    /\ \A d \in Devices : \A id \in DOMAIN accepted_at[d] :
         MessageOfKey(id) = MessageOf(s) => StartedAt(s) <= accepted_at[d][id]
    /\ \A f \in inflight :
         MessageOf(f.p) = MessageOf(s) =>
           f.due <= StartedAt(s) + MaxDelay * Cardinality(Reached(s))

RouteInv ==
  /\ \A s, t \in sent : MessageOf(s) = MessageOf(t) => s = t
  /\ \A f \in inflight : FrameInv(f)
  /\ \A x \in failed : MessageOfKey(x[2]) \in disturbed
  /\ \A m \in disturbed : WasSent(m)
  /\ \A d \in Devices :
       /\ \A key \in DOMAIN de_duplication_map_[d] :
            \E id \in DOMAIN accepted_at[d] : key \in Class(d, id)
       /\ \A id \in DOMAIN accepted_at[d] :
            /\ accepted_at[d][id] <= now
            /\ id.mid \in Reliable /\ id.dst = d => id.src = d
  /\ \A s \in sent : TimeInv(s)

Coming(s, d) == \E f \in inflight : f.to = d /\ MessageOf(f.p) = MessageOf(s)

\* The device has the message, or a frame with it is on its way.
Served(s, d) == Has(s, d) \/ Coming(s, d)

DeliveryInv(s) ==
  /\ Started(s)
  /\ s.relay => s.dst = Mcast
  /\ s.relay /\ s.mid \notin Reliable =>
       /\ \A l \in Links : (\E d \in l : Has(s, d)) => \A d \in l : Served(s, d)
       /\ \A f \in inflight : MessageOf(f.p) = MessageOf(s) => \E d \in f.src_if : Has(s, d)
       /\ published[s.src][MessageOf(s)] = 1
  /\ s.relay /\ s.mid \in Reliable => \A d \in Adjacent(s.src) : Served(s, d)
  /\ s.dst \in Devices \ {s.src} => Served(s, s.dst)
  /\ s.dst = s.src => published[s.src][MessageOf(s)] = 1
  /\ \A d \in Devices \ {s.src} :
       s.relay \/ s.dst = d => published[d][MessageOf(s)] = IF Has(s, d) THEN 1 ELSE 0

FloodInv ==
  /\ IInv
  /\ RouteInv
  /\ \A m \in Devices \X Mids : ~ WasSent(m) => \A d \in Devices : published[d][m] = 0
  /\ \A s \in sent : MessageOf(s) \notin disturbed => DeliveryInv(s)

-----------------------------------------------------------------------------
(* Packets and their keys *)

\* A packet that carries another one has its message and its key.
LEMMA CarriedPacket ==
  ASSUME NEW p \in Packet, NEW s \in Packet, Carries(p, s)
  PROVE  /\ MessageOf(p) = MessageOf(s) /\ FrameKey(p) = FrameKey(s)
         /\ s.src = p.src /\ s.mid = p.mid
         /\ p.dst = Mcast \/ s.mid \notin Reliable \/ s.dst # Mcast => p = s
<1>1. CASE p = s
  BY <1>1, Zenon
<1>2. CASE p # s
  <2>1. /\ s.dst = Mcast /\ s.mid \in Reliable /\ p.dst # Mcast
        /\ p = [s EXCEPT !.dst = p.dst, !.relay = FALSE]
    BY <1>2, Zenon DEF Carries
  <2>2. p.src = s.src /\ p.mid = s.mid
    BY <2>1, Zenon DEF Packet
  <2> QED BY <2>1, <2>2 DEF MessageOf, FrameKey, PacketKey
<1> QED BY <1>1, <1>2, Zenon

\* The key of a packet.
LEMMA KeyOfPacket ==
  ASSUME NEW p \in Packet
  PROVE  /\ FrameKey(p) \in DeDuplicationKey /\ PacketKey(p) \in DeDuplicationKey
         /\ MessageOfKey(FrameKey(p)) = MessageOf(p) /\ MessageOfKey(PacketKey(p)) = MessageOf(p)
         /\ MessageOf(p) \in Devices \X Mids
         /\ p.dst = Mcast \/ p.mid \notin Reliable => FrameKey(p) = PacketKey(p)
BY Zenon DEF FrameKey, PacketKey, MessageOfKey, MessageOf, Packet, DeDuplicationKey

\* It is the identity of the packet for the device that the frame reaches.
LEMMA KeyOfFrame ==
  ASSUME NEW d \in Devices, NEW p \in Packet, p.dst \in {Mcast, d}
  PROVE  Identity(d, p, TRUE) = FrameKey(p)
BY AddressAssumption, Zenon DEF Identity, FrameKey, PacketKey, Packet

\* An identity has the message of the packet.
LEMMA MessageOfIdentity ==
  ASSUME NEW d \in Devices, NEW p \in Packet, NEW net \in BOOLEAN
  PROVE  /\ MessageOfKey(Identity(d, p, net)) = MessageOf(p)
         /\ Identity(d, p, net) \in DeDuplicationKey
BY LookupInClass, Zenon DEF MessageOfKey, MessageOf

\* The packet that a frame carries was sent, and its sender took it for a new one.
LEMMA CarriedWasSent ==
  ASSUME IInv, RouteInv, NEW f \in inflight, NEW s \in sent, MessageOf(s) = MessageOf(f.p)
  PROVE  /\ f \in Frame /\ f.to \in Devices /\ f.p \in Packet /\ s \in Packet
         /\ Carries(f.p, s) /\ Started(s)
<1>1. f \in Frame /\ f.to \in Devices /\ f.p \in Packet /\ s \in Packet /\ sent \subseteq Packet
  BY Zenon DEF IInv, TypeOK, Frame
<1>2. PICK t \in sent : Carries(f.p, t) /\ Started(t)
  BY Zenon DEF RouteInv, FrameInv
<1>3. t = s
  BY <1>1, <1>2, CarriedPacket DEF RouteInv
<1> QED BY <1>1, <1>2, <1>3, Zenon

\* There is such a packet.
LEMMA FrameWasSent ==
  ASSUME IInv, NEW f \in inflight
  PROVE  \E s \in sent : MessageOf(s) = MessageOf(f.p)
BY Zenon DEF IInv, SentInv, WasSent

-----------------------------------------------------------------------------
(* Time *)

\* Multiples of the delay.
LEMMA Multiples ==
  ASSUME NEW n \in Nat
  PROVE  /\ MaxDelay * n \in Nat /\ MaxDelay * (n + 1) = MaxDelay * n + MaxDelay
         /\ \A m \in Nat : n <= m => MaxDelay * n <= MaxDelay * m
<1>1. MaxDelay \in Nat
  BY NetworkBoundsAssumption, Zenon
<1>2. MaxDelay * n \in Nat /\ MaxDelay * (n + 1) = MaxDelay * n + MaxDelay
  BY <1>1
<1>3. ASSUME NEW m \in Nat, n <= m
      PROVE  MaxDelay * n <= MaxDelay * m
  <2>1. PICK k \in Nat : m = n + k
    <3>1. m - n \in Nat /\ m = n + (m - n)
      BY <1>3
    <3> QED BY <3>1, Zenon
  <2>2. MaxDelay * m = MaxDelay * n + MaxDelay * k /\ MaxDelay * k \in Nat
    BY <1>1, <2>1
  <2> QED BY <1>2, <2>2
<1> QED BY <1>2, <1>3, Zenon

\* A message that has gone a hop for each device is flushed within the age.
LEMMA Flushed ==
  ASSUME NEW S \in SUBSET Devices
  PROVE  /\ IsFiniteSet(S) /\ Cardinality(S) \in Nat
         /\ MaxDelay * Cardinality(S) <= MaxDeDupAge
         /\ S # {} => Cardinality(S) >= 1
         /\ \A d \in Devices \ S : Cardinality(S \cup {d}) = Cardinality(S) + 1
<1>1. /\ IsFiniteSet(S) /\ Cardinality(S) \in Nat /\ Cardinality(Devices) \in Nat
      /\ Cardinality(S) <= Cardinality(Devices)
  BY FlushAssumption, FS_Subset, FS_CardinalityType, Zenon
<1>2. MaxDelay * Cardinality(S) <= MaxDelay * Cardinality(Devices)
  BY <1>1, Multiples, Zenon
<1>3. MaxDelay * Cardinality(S) \in Nat /\ MaxDelay * Cardinality(Devices) \in Nat
  BY <1>1, Multiples, Zenon
<1>4. S # {} => Cardinality(S) >= 1
  BY <1>1, FS_EmptySet
<1>5. \A d \in Devices \ S : Cardinality(S \cup {d}) = Cardinality(S) + 1
  BY <1>1, FS_AddElement, Zenon
<1> QED BY <1>1, <1>2, <1>3, <1>4, <1>5, FlushAssumption, AgeAssumption

\* A device that took a message for a new one still has its entry when a frame of the
\* message arrives, unless forwarding the message failed somewhere.
LEMMA OnlyOnce ==
  ASSUME IInv, RouteInv, NEW f \in inflight, NEW s \in sent, MessageOf(s) = MessageOf(f.p),
         Unfailed(s), Has(s, f.to)
  PROVE  LookupKey(f.to, f.p, TRUE, Aged(de_duplication_map_[f.to]))
           \in DOMAIN Aged(de_duplication_map_[f.to])
<1> DEFINE d == f.to
           k == FrameKey(s)
           map == de_duplication_map_[d]
<1>1. /\ f \in Frame /\ d \in Devices /\ f.p \in Packet /\ s \in Packet
      /\ Carries(f.p, s) /\ Started(s)
  BY CarriedWasSent, Zenon
<1>2. /\ Identity(d, f.p, TRUE) = k /\ MessageOfKey(k) = MessageOf(s) /\ k \in DeDuplicationKey
  <2>1. f.p.dst \in {Mcast, d}
    BY Zenon DEF RouteInv, FrameInv
  <2>2. FrameKey(f.p) = k
    BY <1>1, CarriedPacket, Zenon
  <2> QED BY <1>1, <2>1, <2>2, KeyOfFrame, KeyOfPacket, Zenon
<1>3. /\ now \in Nat /\ MapInv(map) /\ Remembers(d, accepted_at[d], map, failed)
      /\ k \in DOMAIN accepted_at[d] /\ accepted_at[d][k] \in Nat
      /\ StartedAt(s) \in Nat
  BY <1>1, Zenon DEF IInv, TypeOK, DeviceInv, Has, IsMap, StartedAt, Started, Packet
<1>4. now <= accepted_at[d][k] + MaxDeDupAge
  <2>1. /\ StartedAt(s) <= accepted_at[d][k]
        /\ f.due <= StartedAt(s) + MaxDelay * Cardinality(Reached(s))
    BY <1>1, <1>2, <1>3, Zenon DEF RouteInv, TimeInv
  <2>2. Reached(s) \in SUBSET Devices
    BY <1>1, Zenon DEF Reached, Packet
  <2>3. /\ MaxDelay * Cardinality(Reached(s)) \in Nat
        /\ MaxDelay * Cardinality(Reached(s)) <= MaxDeDupAge
    BY <2>2, Flushed, Multiples, Zenon
  <2>4. now <= f.due /\ f.due \in Nat
    BY <1>1, Zenon DEF RouteInv, FrameInv, Frame
  <2> HIDE DEF d, k
  <2> QED BY <1>3, <2>1, <2>3, <2>4, AgeAssumption
<1>5. <<d, k>> \notin failed
  BY <1>2, Zenon DEF Unfailed
<1>6. PICK key \in Class(d, k) : key \in DOMAIN map /\ accepted_at[d][k] <= map[key]
  BY <1>3, <1>4, <1>5, AgeAssumption DEF Remembers
<1>7. key \in DOMAIN Aged(map)
  <2>1. map[key] \in Nat
    BY <1>3, <1>6, Zenon DEF MapInv, IsMap
  <2>2. ~ (now > map[key] + MaxDeDupAge)
    <3> HIDE DEF map, d, k
    <3> QED BY <1>3, <1>4, <1>6, <2>1, AgeAssumption
  <2> QED BY <1>3, <1>6, <2>2, AgedMap, Zenon
<1> QED BY <1>1, <1>2, <1>6, <1>7, ClassIsSearched, Zenon

-----------------------------------------------------------------------------
(* What handling a packet does *)

\* The effects of a packet that is taken.
IsTaken(d, p, net, src_if, dst_if, rest) ==
  /\ accepted_at' = [accepted_at EXCEPT ![d] = Put(@, Identity(d, p, net), now)]
  /\ LookupKey(d, p, net, Aged(de_duplication_map_[d]))
       \notin DOMAIN Aged(de_duplication_map_[d])
  /\ rest \subseteq inflight'
  /\ \A g \in inflight' :
       \/ g \in rest
       \/ g \in OnLinks(d, p, ToNetworkInterfaces(Interfaces(d), p, net, src_if, dst_if))
       \/ g \in OnBridge(d, Unicast(d, p, net, dst_if))
  /\ \A key \in DOMAIN de_duplication_map_'[d] :
       \/ key \in DOMAIN de_duplication_map_[d]
       \/ key = LookupKey(d, p, net, Aged(de_duplication_map_[d]))
  /\ \/ failed' = failed /\ disturbed' = disturbed
     \/ /\ failed' = failed \cup {<<d, Identity(d, p, net)>>}
        /\ disturbed' = disturbed \cup {MessageOf(p)}
        /\ p.dst # Mcast /\ dst_if = NoIf => inflight' = rest
  /\ \A e \in Devices, m \in Devices \X Mids :
       e # d \/ m # MessageOf(p) => published'[e][m] = published[e][m]

\* A packet that is forwarded, to all of its sinks or not.
LEMMA TakenPacket ==
  ASSUME IInv, NEW d \in Devices, NEW p \in Packet, NEW net \in BOOLEAN, NEW rest, NEW src_if,
         NEW dst_if \in Links \cup {NoIf},
         \/ ForwardPacket(d, p, net, src_if, dst_if, rest)
         \/ ForwardFails(d, p, net, src_if, dst_if, rest)
  PROVE  IsTaken(d, p, net, src_if, dst_if, rest)
<1> USE DEF IsTaken
<1> DEFINE links == ToNetworkInterfaces(Interfaces(d), p, net, src_if, dst_if)
           unicast == Unicast(d, p, net, dst_if)
           aged == Aged(de_duplication_map_[d])
           key == LookupKey(d, p, net, aged)
<1>1. ASSUME NEW broker, NEW ls \in SUBSET links, NEW us \in SUBSET unicast,
             Forward(d, p, rest, broker, ls, us)
      PROVE  /\ rest \subseteq inflight'
             /\ \A g \in inflight' : g \in rest \/ g \in OnLinks(d, p, links)
                                                \/ g \in OnBridge(d, unicast)
             /\ \A e \in Devices, m \in Devices \X Mids :
                  e # d \/ m # MessageOf(p) => published'[e][m] = published[e][m]
  <2>1. rest \subseteq inflight' /\ \A g \in inflight' : g \in rest \/ g \in OnLinks(d, p, links)
                                                        \/ g \in OnBridge(d, unicast)
    BY <1>1, Zenon DEF Forward, OnLinks, OnBridge
  <2>2. \A e \in Devices, m \in Devices \X Mids :
          e # d \/ m # MessageOf(p) => published'[e][m] = published[e][m]
    BY <1>1, Zenon DEF Forward, IInv, TypeOK
  <2> QED BY <2>1, <2>2, Zenon
<1>2. ASSUME NEW erase, IsNew(d, p, net, erase)
      PROVE  /\ key \notin DOMAIN aged
             /\ \A k \in DOMAIN de_duplication_map_'[d] :
                  k \in DOMAIN de_duplication_map_[d] \/ k = key
  <2>1. DOMAIN aged \subseteq DOMAIN de_duplication_map_[d]
    BY Zenon DEF Aged, Only
  <2>2. /\ key \notin DOMAIN aged
        /\ de_duplication_map_'[d] = Only(Put(aged, key, now), DeDuplicationKey \ erase)
    BY <1>2, Zenon DEF IsNew, Erased, IInv, TypeOK
  <2>3. DOMAIN de_duplication_map_'[d] \subseteq DOMAIN aged \cup {key}
    BY <2>2, Zenon DEF Only, Put
  <2> QED BY <2>1, <2>2, <2>3, Zenon
<1>3. CASE ForwardPacket(d, p, net, src_if, dst_if, rest)
  <2>1. /\ IsNew(d, p, net, {}) /\ Forward(d, p, rest, ToBroker(d, p, dst_if), links, unicast)
        /\ accepted_at' = [accepted_at EXCEPT ![d] = Put(@, Identity(d, p, net), now)]
        /\ failed' = failed /\ disturbed' = disturbed
    BY <1>3, Zenon DEF ForwardPacket, Accept
  <2>2. /\ rest \subseteq inflight'
        /\ \A g \in inflight' : g \in rest \/ g \in OnLinks(d, p, links)
                                           \/ g \in OnBridge(d, unicast)
        /\ \A e \in Devices, m \in Devices \X Mids :
             e # d \/ m # MessageOf(p) => published'[e][m] = published[e][m]
    BY <1>1, <2>1, Zenon
  <2> QED BY <1>2, <2>1, <2>2, Zenon
<1>4. CASE ForwardFails(d, p, net, src_if, dst_if, rest)
  <2>1. /\ accepted_at' = [accepted_at EXCEPT ![d] = Put(@, Identity(d, p, net), now)]
        /\ failed' = failed \cup {<<d, Identity(d, p, net)>>}
        /\ disturbed' = disturbed \cup {MessageOf(p)}
    BY <1>4, Zenon DEF ForwardFails, Accept, Disturb
  <2>2. p.dst # Mcast /\ dst_if = NoIf => links = {} /\ unicast \subseteq {p}
    BY Zenon DEF ToNetworkInterfaces, Unicast, ReliableCopies
  <2>3. PICK erase, broker, ls, us :
          /\ IsNew(d, p, net, erase) /\ Forward(d, p, rest, broker, ls, us)
          /\ ls \in SUBSET links /\ us \in SUBSET unicast
          /\ us # unicast \/ us = {}
    <3>1. CASE Forward(d, p, rest, FALSE, {}, {}) /\ IsNew(d, p, net, {PacketKey(p)})
      BY <3>1, Zenon
    <3>2. CASE \E written \in (SUBSET links) \ {links} :
                 /\ Forward(d, p, rest, ToBroker(d, p, dst_if), written, {})
                 /\ IsNew(d, p, net, {PacketKey(p)})
      BY <3>2
    <3>3. CASE \E written \in (SUBSET unicast) \ {unicast}, last \in unicast :
                 /\ Forward(d, p, rest, ToBroker(d, p, dst_if), links, written)
                 /\ IsNew(d, p, net, {PacketKey(last)})
      <4>1. PICK written \in (SUBSET unicast) \ {unicast}, last \in unicast :
              /\ Forward(d, p, rest, ToBroker(d, p, dst_if), links, written)
              /\ IsNew(d, p, net, {PacketKey(last)})
        BY <3>3, Zenon
      <4> HIDE DEF links, unicast
      <4>2. links \in SUBSET links /\ written \in SUBSET unicast /\ written # unicast
        BY <4>1, Zenon
      <4> QED BY <4>1, <4>2
    <3> QED BY <1>4, <3>1, <3>2, <3>3, Zenon DEF ForwardFails
  <2>4. /\ rest \subseteq inflight'
        /\ \A g \in inflight' : g \in rest \/ g \in OnLinks(d, p, links)
                                           \/ g \in OnBridge(d, unicast)
        /\ \A e \in Devices, m \in Devices \X Mids :
             e # d \/ m # MessageOf(p) => published'[e][m] = published[e][m]
    BY <1>1, <2>3, Zenon
  <2>5. ASSUME p.dst # Mcast, dst_if = NoIf
        PROVE  inflight' = rest
    <3>1. ls = {} /\ us = {}
      BY <2>2, <2>3, <2>5, Zenon
    <3> QED BY <2>3, <3>1, Zenon DEF Forward, OnLinks, OnBridge
  <2> QED BY <1>2, <2>1, <2>3, <2>4, <2>5, Zenon
<1> QED BY <1>3, <1>4, Zenon

\* A packet that is dropped.
LEMMA DroppedFrames ==
  ASSUME IInv, NEW d \in Devices, NEW p \in Packet, NEW net \in BOOLEAN, NEW rest,
         Duplicate(d, p, net, rest) \/ Untrackable(d, p, net, rest)
  PROVE  /\ UNCHANGED <<accepted_at, failed, published>> /\ inflight' = rest
         /\ \A key \in DOMAIN de_duplication_map_'[d] : key \in DOMAIN de_duplication_map_[d]
         /\ \/ disturbed' = disturbed \cup {MessageOf(p)}
            \/ /\ disturbed' = disturbed
               /\ LookupKey(d, p, net, Aged(de_duplication_map_[d]))
                    \in DOMAIN Aged(de_duplication_map_[d])
<1> DEFINE aged == Aged(de_duplication_map_[d])
           key == LookupKey(d, p, net, aged)
<1>1. DOMAIN aged \subseteq DOMAIN de_duplication_map_[d]
  BY Zenon DEF Aged, Only
<1>2. CASE Duplicate(d, p, net, rest)
  <2>1. key \in DOMAIN aged /\ de_duplication_map_'[d] = Put(aged, key, now)
    BY <1>2, Zenon DEF Duplicate, IsDuplicate, IInv, TypeOK
  <2>2. DOMAIN Put(aged, key, now) = DOMAIN aged
    BY <2>1, Zenon DEF Put
  <2> QED BY <1>1, <1>2, <2>1, <2>2, Zenon DEF Duplicate
<1>3. CASE Untrackable(d, p, net, rest)
  <2>1. de_duplication_map_'[d] = aged
    BY <1>3, Zenon DEF Untrackable, IsUntrackable, IInv, TypeOK
  <2> QED BY <1>1, <1>3, <2>1, Zenon DEF Untrackable
<1> QED BY <1>2, <1>3, Zenon

\* The frame carries the packet away from d.
IsCarried(g, d, p, net) ==
  /\ g.p \in Packet /\ g.p.dst \in {Mcast, g.to} /\ g.to # d /\ g.due = now + MaxDelay
  /\ Carries(g.p, p)
  /\ g.p = p \/ ~ net

\* The frames that forwarding a packet adds.
LEMMA NewFrames ==
  ASSUME IInv, NEW d \in Devices, NEW p \in Packet, NEW net \in BOOLEAN, NEW src_if,
         NEW dst_if \in Links \cup {NoIf}, dst_if # NoIf => p.dst = Mcast,
         NEW g,
         \/ g \in OnLinks(d, p, ToNetworkInterfaces(Interfaces(d), p, net, src_if, dst_if))
         \/ g \in OnBridge(d, Unicast(d, p, net, dst_if))
  PROVE  IsCarried(g, d, p, net)
<1> USE DEF IsCarried
<1> DEFINE links == ToNetworkInterfaces(Interfaces(d), p, net, src_if, dst_if)
<1>1. CASE g \in OnLinks(d, p, links)
  <2>1. PICK x \in (Devices \ {d}) \X links :
          g = [to |-> x[1], src_if |-> x[2], p |-> p, due |-> now + MaxDelay, copy |-> FALSE]
    BY <1>1, Zenon DEF OnLinks
  <2>2. p.dst = Mcast
    BY <2>1, Zenon DEF ToNetworkInterfaces
  <2>3. x[1] # d
    BY <2>1, Zenon
  <2> QED BY <2>1, <2>2, <2>3, Zenon DEF Carries
<1>2. CASE g \in OnBridge(d, Unicast(d, p, net, dst_if))
  <2>1. PICK c \in Unicast(d, p, net, dst_if) :
          /\ c.dst # d
          /\ g = [to |-> c.dst, src_if |-> Bridge, p |-> c, due |-> now + MaxDelay, copy |-> FALSE]
    BY <1>2, Zenon DEF OnBridge
  <2>2. c \in Packet /\ c.dst # Mcast /\ ~ net
    BY UnicastPackets, Zenon
  <2>3. Carries(c, p)
    <3>1. CASE c \in ReliableCopies(d, p, net)
      <4>1. PICK n \in DOMAIN neighbors_map_[d] :
              /\ p.dst = Mcast /\ p.relay /\ p.mid \in Reliable
              /\ c = [p EXCEPT !.dst = n, !.relay = FALSE]
        BY <3>1, Zenon DEF ReliableCopies
      <4>2. c.dst = n
        BY <4>1, Zenon DEF Packet
      <4> QED BY <2>2, <4>1, <4>2, Zenon DEF Carries
    <3>2. CASE c \notin ReliableCopies(d, p, net)
      BY <3>2, Zenon DEF Unicast, Carries
    <3> QED BY <3>1, <3>2, Zenon
  <2> QED BY <2>1, <2>2, <2>3, Zenon
<1> QED BY <1>1, <1>2, Zenon

\* Handling a packet leaves alone what the devices know of other messages.
LEMMA OtherKeys ==
  ASSUME NEW d \in Devices, NEW p \in Packet, NEW net \in BOOLEAN, NEW rest,
         HandledWell(d, p, net, rest), NEW e \in Devices, NEW k, MessageOfKey(k) # MessageOf(p)
  PROVE  /\ k \in DOMAIN accepted_at'[e] <=> k \in DOMAIN accepted_at[e]
         /\ k \in DOMAIN accepted_at[e] => accepted_at'[e][k] = accepted_at[e][k]
<1>1. k # Identity(d, p, net)
  BY MessageOfIdentity, Zenon
<1>2. accepted_at'[e] = accepted_at[e]
        \/ accepted_at'[e] = Put(accepted_at[e], Identity(d, p, net), now)
  BY Zenon DEF HandledWell
<1> QED BY <1>1, <1>2, Zenon DEF Put

LEMMA OtherMessages ==
  ASSUME NEW d \in Devices, NEW p \in Packet, NEW net \in BOOLEAN, NEW rest,
         HandledWell(d, p, net, rest), NEW s \in Packet, MessageOf(s) # MessageOf(p)
  PROVE  /\ \A e \in Devices : Has(s, e)' <=> Has(s, e)
         /\ Started(s)' <=> Started(s)
         /\ Started(s) => StartedAt(s)' = StartedAt(s)
         /\ Reached(s)' = Reached(s)
<1>1. MessageOfKey(FrameKey(s)) # MessageOf(p) /\ MessageOfKey(PacketKey(s)) # MessageOf(p)
  BY KeyOfPacket
<1>2. s.src \in Devices
  BY Zenon DEF Packet
<1>3. \A e \in Devices : Has(s, e)' <=> Has(s, e)
  BY <1>1, OtherKeys DEF Has
<1>4. Started(s)' <=> Started(s)
  BY <1>1, <1>2, OtherKeys DEF Started
<1>5. Started(s) => StartedAt(s)' = StartedAt(s)
  BY <1>1, <1>2, OtherKeys DEF Started, StartedAt
<1>6. Reached(s)' = Reached(s)
  BY <1>3, Zenon DEF Reached
<1> QED BY <1>3, <1>4, <1>5, <1>6, Zenon

\* Nor does it change the time that they have.
LEMMA OtherTimes ==
  ASSUME NEW d \in Devices, NEW p \in Packet, NEW net \in BOOLEAN, NEW rest \in SUBSET inflight,
         HandledWell(d, p, net, rest), NEW s \in Packet, MessageOf(s) # MessageOf(p), TimeInv(s)
  PROVE  TimeInv(s)'
<1>1. /\ Started(s)' <=> Started(s)
      /\ Started(s) => StartedAt(s)' = StartedAt(s)
      /\ Reached(s)' = Reached(s)
  BY OtherMessages, Zenon
<1>2. Unfailed(s)' => Unfailed(s)
  BY Zenon DEF Unfailed, HandledWell
<1>3. \A f \in inflight' : MessageOf(f.p) = MessageOf(s) => f \in inflight
  BY Zenon DEF HandledWell
<1>4. \A e \in Devices : \A id \in DOMAIN accepted_at'[e] :
        MessageOfKey(id) = MessageOf(s) =>
          id \in DOMAIN accepted_at[e] /\ accepted_at'[e][id] = accepted_at[e][id]
  BY OtherKeys
<1> QED BY <1>1, <1>2, <1>3, <1>4, Zenon DEF TimeInv

-----------------------------------------------------------------------------
(* Routes: what holds of every packet, whatever becomes of it *)

\* The maps hold what was accepted.
LEMMA MapsAccepted ==
  ASSUME IInv, RouteInv, NEW d \in Devices, NEW p \in Packet, NEW net \in BOOLEAN, NEW rest,
         NEW src_if, NEW dst_if \in Links \cup {NoIf}, now' = now, ~ net => d = p.src,
         HandlePacket(d, p, net, src_if, dst_if, rest), HandledWell(d, p, net, rest),
         NEW e \in Devices
  PROVE  /\ \A key \in DOMAIN de_duplication_map_'[e] :
              \E id \in DOMAIN accepted_at'[e] : key \in Class(e, id)
         /\ \A id \in DOMAIN accepted_at'[e] :
              /\ accepted_at'[e][id] <= now'
              /\ id.mid \in Reliable /\ id.dst = e => id.src = e
<1>1. CASE e # d
  BY <1>1, Zenon DEF HandledWell, RouteInv
<1>2. CASE e = d /\ accepted_at'[d] = accepted_at[d] /\
           \A key \in DOMAIN de_duplication_map_'[d] : key \in DOMAIN de_duplication_map_[d]
  BY <1>2, Zenon DEF RouteInv
<1>3. ASSUME e = d,
             \/ ForwardPacket(d, p, net, src_if, dst_if, rest)
             \/ ForwardFails(d, p, net, src_if, dst_if, rest)
      PROVE  /\ \A key \in DOMAIN de_duplication_map_'[e] :
                  \E id \in DOMAIN accepted_at'[e] : key \in Class(e, id)
             /\ \A id \in DOMAIN accepted_at'[e] :
                  /\ accepted_at'[e][id] <= now'
                  /\ id.mid \in Reliable /\ id.dst = e => id.src = e
  <2> DEFINE new == Identity(d, p, net)
             key == LookupKey(d, p, net, Aged(de_duplication_map_[d]))
  <2>1. /\ accepted_at' = [accepted_at EXCEPT ![d] = Put(@, new, now)]
        /\ \A k \in DOMAIN de_duplication_map_'[d] : k \in DOMAIN de_duplication_map_[d] \/ k = key
    <3>1. IsTaken(d, p, net, src_if, dst_if, rest)
      BY <1>3, TakenPacket, Zenon
    <3> QED BY <3>1, Zenon DEF IsTaken
  <2>2. key \in Class(d, new)
    BY LookupInClass, Zenon
  <2>3. new.mid \in Reliable /\ new.dst = d => new.src = d
    BY AddressAssumption, Zenon DEF Identity, PacketKey, Packet
  <2>4. accepted_at'[d] = Put(accepted_at[d], new, now) /\ now \in Nat
    BY <2>1, Zenon DEF IInv, TypeOK
  <2> HIDE DEF new, key
  <2>5. /\ DOMAIN accepted_at'[d] = DOMAIN accepted_at[d] \cup {new} /\ accepted_at'[d][new] = now
        /\ \A id \in DOMAIN accepted_at[d] : accepted_at'[d][id] \in {accepted_at[d][id], now}
    BY <2>4, Zenon DEF Put
  <2>6. \A k \in DOMAIN de_duplication_map_'[d] : \E id \in DOMAIN accepted_at'[d] : k \in Class(d, id)
    BY <2>1, <2>2, <2>5, SMTT(30) DEF RouteInv
  <2>7. ASSUME NEW id \in DOMAIN accepted_at'[d]
        PROVE  accepted_at'[d][id] <= now /\ (id.mid \in Reliable /\ id.dst = d => id.src = d)
    <3>1. CASE id = new
      BY <2>3, <2>4, <2>5, <3>1
    <3>2. CASE id # new
      <4>1. id \in DOMAIN accepted_at[d] /\ accepted_at'[d][id] \in {accepted_at[d][id], now}
        BY <2>5, <3>2, Zenon
      <4>2. accepted_at[d][id] <= now /\ (id.mid \in Reliable /\ id.dst = d => id.src = d)
        BY <4>1, Zenon DEF RouteInv
      <4> QED BY <2>4, <4>1, <4>2
    <3> QED BY <3>1, <3>2, Zenon
  <2> QED BY <1>3, <2>6, <2>7, Zenon
<1>4. ASSUME Duplicate(d, p, net, rest) \/ Untrackable(d, p, net, rest)
      PROVE  /\ accepted_at'[d] = accepted_at[d]
             /\ \A key \in DOMAIN de_duplication_map_'[d] : key \in DOMAIN de_duplication_map_[d]
  BY <1>4, DroppedFrames, Zenon
<1> QED BY <1>1, <1>2, <1>3, <1>4, Zenon DEF HandlePacket

\* Failures are faults, and faults are of messages that were sent.
LEMMA FaultsKnown ==
  ASSUME IInv, RouteInv, NEW d \in Devices, NEW p \in Packet, NEW net \in BOOLEAN, NEW rest,
         NEW src_if, NEW dst_if \in Links \cup {NoIf}, sent \subseteq sent',
         \E s \in sent' : MessageOf(s) = MessageOf(p),
         HandlePacket(d, p, net, src_if, dst_if, rest)
  PROVE  /\ \A x \in failed' : MessageOfKey(x[2]) \in disturbed'
         /\ \A m \in disturbed' : WasSent(m)'
         /\ \A x \in failed' : x \in failed \/ x = <<d, Identity(d, p, net)>>
<1>1. \/ disturbed' = disturbed /\ failed' = failed
      \/ /\ disturbed' = disturbed \cup {MessageOf(p)}
         /\ failed' = failed \/ failed' = failed \cup {<<d, Identity(d, p, net)>>}
  <2>1. ASSUME Duplicate(d, p, net, rest) \/ Untrackable(d, p, net, rest)
        PROVE  failed' = failed /\ disturbed' \in {disturbed, disturbed \cup {MessageOf(p)}}
    BY <2>1, DroppedFrames, Zenon
  <2>2. ASSUME \/ ForwardPacket(d, p, net, src_if, dst_if, rest)
               \/ ForwardFails(d, p, net, src_if, dst_if, rest)
        PROVE  \/ disturbed' = disturbed /\ failed' = failed
               \/ /\ disturbed' = disturbed \cup {MessageOf(p)}
                  /\ failed' = failed \cup {<<d, Identity(d, p, net)>>}
    <3>1. IsTaken(d, p, net, src_if, dst_if, rest)
      BY <2>2, TakenPacket, Zenon
    <3> QED BY <3>1, Zenon DEF IsTaken
  <2> QED BY <2>1, <2>2, Zenon DEF HandlePacket
<1>2. MessageOfKey(Identity(d, p, net)) = MessageOf(p)
  BY MessageOfIdentity, Zenon
<1>3. \A m \in disturbed' : WasSent(m)'
  BY <1>1, Zenon DEF RouteInv, WasSent
<1>4. \A x \in failed' : x \in failed \/ x = <<d, Identity(d, p, net)>>
  BY <1>1, Zenon
<1> QED BY <1>1, <1>2, <1>3, <1>4, SMTT(30) DEF RouteInv

\* The frames that were in the network before.
LEMMA OldFrames ==
  ASSUME RouteInv, NEW d \in Devices, NEW p \in Packet, NEW net \in BOOLEAN, NEW rest,
         HandledWell(d, p, net, rest), sent \subseteq sent', sent \subseteq Packet, now' = now,
         NEW g \in inflight,
         \A x \in failed' : \/ x \in failed
                            \/ MessageOfKey(x[2]) = MessageOf(g.p) => x[2] = FrameKey(g.p)
  PROVE  FrameInv(g)'
<1>1. FrameInv(g)
  BY Zenon DEF RouteInv
<1>2. PICK s \in sent : Carries(g.p, s) /\ Started(s)
  BY <1>1, Zenon DEF FrameInv
<1>3. s \in sent' /\ Started(s)'
  BY <1>2, Zenon DEF Started, HandledWell, Put, Packet
<1> QED BY <1>1, <1>2, <1>3, Zenon DEF FrameInv

\* A CMDU of the local bus.
LEMMA LocalRoute ==
  ASSUME IInv, RouteInv, NEW p \in Packet, NEW dst_if \in Links \cup {NoIf},
         CmduTx(p.src, p, dst_if)
  PROVE  RouteInv'
<1> DEFINE d == p.src
           m == MessageOf(p)
           net == FALSE
<1>1. /\ net \in BOOLEAN /\ d \in Devices /\ now' = now /\ now \in Nat /\ sent' = sent \cup {p} /\ sent \subseteq Packet
      /\ HandlePacket(d, p, net, NoIf, dst_if, inflight) /\ ~ WasSent(m)
      /\ dst_if # NoIf => p.dst = Mcast
  BY Zenon DEF CmduTx, Packet, IInv, TypeOK, WasSent
<1>2. HandledWell(d, p, net, inflight)
  BY <1>1, HandledPacket, Zenon DEF Fresh, IInv, TypeOK
<1>3. /\ \A f \in inflight : MessageOf(f.p) # m
      /\ \A e \in Devices : \A id \in DOMAIN accepted_at[e] : MessageOfKey(id) # m
      /\ \A x \in failed : MessageOfKey(x[2]) # m
      /\ \A s \in sent : MessageOf(s) # m
  BY <1>1, Zenon DEF IInv, SentInv, RouteInv, MessageOfKey, WasSent
<1>4. \A s, t \in sent' : MessageOf(s) = MessageOf(t) => s = t
  BY <1>1, <1>3, Zenon DEF RouteInv
<1>5. /\ \A x \in failed' : MessageOfKey(x[2]) \in disturbed'
      /\ \A n \in disturbed' : WasSent(n)'
      /\ \A x \in failed' : x \in failed \/ x = <<d, Identity(d, p, net)>>
  BY <1>1, FaultsKnown, Zenon
<1>6. MessageOfKey(Identity(d, p, net)) = m /\ Identity(d, p, net) = PacketKey(p)
  BY <1>1, MessageOfIdentity, Zenon DEF Identity
<1>7. ASSUME NEW s \in sent
      PROVE  TimeInv(s)'
  BY <1>1, <1>2, <1>3, OtherTimes, Zenon DEF RouteInv
<1>8. ASSUME NEW g \in inflight
      PROVE  FrameInv(g)'
  <2>1. ASSUME NEW x \in failed', x \notin failed
        PROVE  MessageOfKey(x[2]) # MessageOf(g.p)
    <3>1. x = <<d, Identity(d, p, net)>>
      BY <1>5, <2>1, Zenon
    <3>2. x[2] = Identity(d, p, net)
      BY <3>1, Zenon
    <3> QED BY <1>3, <1>6, <3>2, Zenon
  <2> QED BY <1>1, <1>2, <2>1, OldFrames, Zenon
<1>9. ASSUME NEW e \in Devices
      PROVE  /\ \A key \in DOMAIN de_duplication_map_'[e] :
                  \E id \in DOMAIN accepted_at'[e] : key \in Class(e, id)
             /\ \A id \in DOMAIN accepted_at'[e] :
                  /\ accepted_at'[e][id] <= now'
                  /\ id.mid \in Reliable /\ id.dst = e => id.src = e
  BY <1>1, <1>2, MapsAccepted, Zenon
<1>10. SUFFICES (\A g \in inflight' : FrameInv(g)') /\ TimeInv(p)'
  <2>1. \A s \in sent' : TimeInv(s)'
    BY <1>1, <1>7, <1>10, Zenon
  <2> QED BY <1>4, <1>5, <1>9, <1>10, <2>1, Zenon DEF RouteInv
<1>11. CASE Duplicate(d, p, net, inflight) \/ Untrackable(d, p, net, inflight)
  <2>1. accepted_at' = accepted_at /\ inflight' = inflight
    BY <1>1, <1>11, DroppedFrames, Zenon
  <2>2. ~ Started(p)'
    BY <1>1, <1>3, <2>1, KeyOfPacket, Zenon DEF Started
  <2> QED BY <1>8, <2>1, <2>2, Zenon DEF TimeInv
<1>12. CASE \/ ForwardPacket(d, p, net, NoIf, dst_if, inflight)
            \/ ForwardFails(d, p, net, NoIf, dst_if, inflight)
  <2> DEFINE links == ToNetworkInterfaces(Interfaces(d), p, net, NoIf, dst_if)
             unicast == Unicast(d, p, net, dst_if)
  <2>1. /\ accepted_at' = [accepted_at EXCEPT ![d] = Put(@, PacketKey(p), now)]
        /\ \A g \in inflight' :
             g \in inflight \/ g \in OnLinks(d, p, links) \/ g \in OnBridge(d, unicast)
        /\ \/ failed' = failed
           \/ p.dst # Mcast /\ dst_if = NoIf => inflight' = inflight
    <3>1. /\ accepted_at' = [accepted_at EXCEPT ![d] = Put(@, Identity(d, p, net), now)]
          /\ \A g \in inflight' :
               g \in inflight \/ g \in OnLinks(d, p, links) \/ g \in OnBridge(d, unicast)
          /\ \/ failed' = failed /\ disturbed' = disturbed
             \/ p.dst # Mcast /\ dst_if = NoIf => inflight' = inflight
      <4> HIDE DEF d, net
      <4> DEFINE any == NoIf
                 rest == inflight
      <4>1. \/ ForwardPacket(d, p, net, any, dst_if, rest)
            \/ ForwardFails(d, p, net, any, dst_if, rest)
        BY <1>12, Zenon
      <4> HIDE DEF any, rest
      <4>2. IsTaken(d, p, net, any, dst_if, rest)
        BY <1>1, <4>1, TakenPacket, Zenon
      <4> QED BY <4>2, Zenon DEF IsTaken, any, rest
    <3> QED BY <1>6, <3>1, Zenon
  <2>2. accepted_at'[d] = Put(accepted_at[d], PacketKey(p), now)
        /\ \A e \in Devices \ {d} : accepted_at'[e] = accepted_at[e]
    BY <1>1, <2>1, Zenon DEF IInv, TypeOK
  <2>3. Started(p)' /\ StartedAt(p)' = now
    BY <2>2, Zenon DEF Started, StartedAt, Put
  <2>4. ASSUME NEW g \in inflight', g \notin inflight
        PROVE  /\ FrameInv(g)' /\ g.due = now + MaxDelay
    <3>1. /\ g.p \in Packet /\ g.p.dst \in {Mcast, g.to} /\ g.to # d /\ g.due = now + MaxDelay
          /\ Carries(g.p, p)
      <4>1. g \in OnLinks(d, p, links) \/ g \in OnBridge(d, unicast)
        BY <2>1, <2>4, Zenon
      <4> HIDE DEF d, net
      <4>2. IsCarried(g, d, p, net)
        BY <1>1, <4>1, NewFrames, Zenon
      <4> QED BY <4>2, Zenon DEF IsCarried
    <3>2. g.p.src = d /\ FrameKey(g.p) = FrameKey(p) /\ MessageOf(g.p) = m
      BY <3>1, CarriedPacket, Zenon
    <3>3. now <= g.due
      BY <1>1, <3>1, NetworkBoundsAssumption
    <3>4. ASSUME NEW x \in failed', MessageOfKey(x[2]) = m
          PROVE  x[2] = FrameKey(p)
      <4>1. x \notin failed /\ x[2] = PacketKey(p)
        <5>1. x \notin failed
          BY <1>3, <3>4, Zenon
        <5>2. x = <<d, Identity(d, p, net)>>
          BY <1>5, <5>1, Zenon
        <5> QED BY <1>6, <5>1, <5>2, Zenon
      <4>2. p.dst = Mcast
        BY <1>1, <2>1, <2>4, <3>4, <4>1, Zenon
      <4> QED BY <4>1, <4>2, KeyOfPacket, Zenon
    <3> QED BY <1>1, <2>3, <3>1, <3>2, <3>3, <3>4, Zenon DEF FrameInv
  <2>5. TimeInv(p)'
    <3>1. ASSUME NEW e \in Devices, NEW id \in DOMAIN accepted_at'[e], MessageOfKey(id) = m
          PROVE  now <= accepted_at'[e][id]
      <4>1. id \notin DOMAIN accepted_at[e]
        BY <1>3, <3>1, Zenon
      <4>2. e = d /\ id = PacketKey(p)
        BY <2>2, <3>1, <4>1, Zenon DEF Put
      <4> QED BY <1>1, <2>2, <4>2, SMTT(30) DEF Put
    <3>2. ASSUME NEW g \in inflight', MessageOf(g.p) = m
          PROVE  g.due <= now + MaxDelay * Cardinality(Reached(p)')
      <4>1. g.due = now + MaxDelay
        BY <1>3, <2>4, <3>2, Zenon
      <4>2. Reached(p)' \in SUBSET Devices /\ Reached(p)' # {}
        BY <1>1, Zenon DEF Reached
      <4>3. Cardinality(Reached(p)') \in Nat /\ 1 <= Cardinality(Reached(p)')
        BY <4>2, Flushed, Zenon
      <4>4. MaxDelay * 1 <= MaxDelay * Cardinality(Reached(p)') /\ MaxDelay * 1 = MaxDelay
            /\ MaxDelay * Cardinality(Reached(p)') \in Nat
        BY <4>3, Multiples, NetworkBoundsAssumption
      <4> QED BY <1>1, <4>1, <4>4, NetworkBoundsAssumption
    <3> QED BY <2>3, <3>1, <3>2, Zenon DEF TimeInv
  <2> QED BY <1>8, <2>4, <2>5, Zenon
<1> QED BY <1>1, <1>11, <1>12, Zenon DEF HandlePacket

\* A frame of the network.
LEMMA NetRoute ==
  ASSUME IInv, RouteInv, NEW f \in inflight, Receive(f)
  PROVE  RouteInv'
<1> DEFINE d == f.to
           p == f.p
           net == TRUE
           rest == inflight \ {f}
<1>1. PICK s \in sent : MessageOf(s) = MessageOf(p)
  BY FrameWasSent, Zenon
<1>2. /\ f \in Frame /\ d \in Devices /\ p \in Packet /\ s \in Packet /\ s.src \in Devices
      /\ Carries(p, s) /\ Started(s)
  <2>1. /\ f \in Frame /\ d \in Devices /\ p \in Packet /\ s \in Packet /\ Carries(p, s) /\ Started(s)
    BY <1>1, CarriedWasSent, Zenon
  <2> QED BY <2>1, Zenon DEF Packet
<1>3. /\ net \in BOOLEAN /\ net /\ rest \in SUBSET inflight /\ rest \in SUBSET Frame
      /\ now' = now /\ now \in Nat /\ sent' = sent /\ sent \subseteq Packet
      /\ HandlePacket(d, p, net, f.src_if, NoIf, rest) /\ NoIf \in Links \cup {NoIf}
      /\ p.dst \in {Mcast, d} /\ (d = p.src => p.dst = Mcast) /\ now <= f.due /\ f.due \in Nat
  BY <1>2, Zenon DEF Receive, Pollin, IInv, TypeOK, RouteInv, FrameInv, Frame
<1>4. HandledWell(d, p, net, rest)
  BY <1>2, <1>3, HandledPacket, Zenon DEF Fresh
<1>5. /\ Identity(d, p, net) = FrameKey(s) /\ FrameKey(p) = FrameKey(s)
      /\ MessageOfKey(FrameKey(s)) = MessageOf(s)
  BY <1>2, <1>3, KeyOfFrame, CarriedPacket, KeyOfPacket, ZenonT(30)
<1>6. /\ \A x \in failed' : MessageOfKey(x[2]) \in disturbed'
      /\ \A n \in disturbed' : WasSent(n)'
      /\ \A x \in failed' : x \in failed \/ x = <<d, Identity(d, p, net)>>
  <2> HIDE DEF d, p, net, rest
  <2> QED BY <1>1, <1>2, <1>3, FaultsKnown, ZenonT(30)
<1>7. ASSUME NEW t \in sent, t # s
      PROVE  TimeInv(t)'
  <2>1. MessageOf(t) # MessageOf(p) /\ TimeInv(t) /\ t \in Packet
    BY <1>1, <1>3, <1>7, Zenon DEF RouteInv
  <2> HIDE DEF d, p, net, rest
  <2> QED BY <1>2, <1>3, <1>4, <2>1, OtherTimes, Zenon
<1>8. ASSUME NEW x \in failed', x \notin failed
      PROVE  x[2] = FrameKey(s)
  <2>1. x = <<d, Identity(d, p, net)>>
    BY <1>6, <1>8, Zenon
  <2>2. x[2] = Identity(d, p, net)
    BY <2>1, Zenon
  <2> QED BY <1>5, <2>2, Zenon
<1>9. ASSUME NEW g \in inflight
      PROVE  FrameInv(g)'
  <2>1. ASSUME MessageOf(g.p) = MessageOf(s)
        PROVE  FrameKey(g.p) = FrameKey(s)
    BY <1>2, <2>1, CarriedWasSent, CarriedPacket, Zenon
  <2>2. ASSUME NEW x \in failed', x \notin failed, MessageOfKey(x[2]) = MessageOf(g.p)
        PROVE  x[2] = FrameKey(g.p)
    BY <1>5, <1>8, <2>1, <2>2, Zenon
  <2> HIDE DEF d, p, net, rest
  <2> QED BY <1>2, <1>3, <1>4, <2>2, OldFrames, Zenon
<1>10. ASSUME NEW e \in Devices
       PROVE  /\ \A key \in DOMAIN de_duplication_map_'[e] :
                   \E id \in DOMAIN accepted_at'[e] : key \in Class(e, id)
              /\ \A id \in DOMAIN accepted_at'[e] :
                   /\ accepted_at'[e][id] <= now'
                   /\ id.mid \in Reliable /\ id.dst = e => id.src = e
  <2> HIDE DEF d, p, net, rest
  <2> QED BY <1>2, <1>3, <1>4, MapsAccepted, Zenon
<1>11. SUFFICES (\A g \in inflight' : FrameInv(g)') /\ TimeInv(s)'
  <2>1. \A t \in sent' : TimeInv(t)'
    BY <1>3, <1>7, <1>11, Zenon
  <2> QED BY <1>3, <1>6, <1>10, <1>11, <2>1, Zenon DEF RouteInv
<1>12. CASE Duplicate(d, p, net, rest) \/ Untrackable(d, p, net, rest)
  <2>1. UNCHANGED <<accepted_at, failed>> /\ inflight' = rest
    BY <1>2, <1>3, <1>12, DroppedFrames, Zenon
  <2>2. TimeInv(s)
    BY Zenon DEF RouteInv
  <2>3. TimeInv(s)'
    BY <1>3, <2>1, <2>2, Zenon DEF TimeInv, Unfailed, Started, StartedAt, Reached, Has
  <2> QED BY <1>9, <2>1, <2>3, Zenon
<1>13. CASE \/ ForwardPacket(d, p, net, f.src_if, NoIf, rest)
            \/ ForwardFails(d, p, net, f.src_if, NoIf, rest)
  <2> DEFINE links == ToNetworkInterfaces(Interfaces(d), p, net, f.src_if, NoIf)
             unicast == Unicast(d, p, net, NoIf)
  <2>1. /\ accepted_at' = [accepted_at EXCEPT ![d] = Put(@, FrameKey(s), now)]
        /\ LookupKey(d, p, net, Aged(de_duplication_map_[d]))
             \notin DOMAIN Aged(de_duplication_map_[d])
        /\ \A g \in inflight' : g \in rest \/ g \in OnLinks(d, p, links) \/ g \in OnBridge(d, unicast)
    <3>1. /\ accepted_at' = [accepted_at EXCEPT ![d] = Put(@, Identity(d, p, net), now)]
          /\ LookupKey(d, p, net, Aged(de_duplication_map_[d]))
               \notin DOMAIN Aged(de_duplication_map_[d])
          /\ \A g \in inflight' :
               g \in rest \/ g \in OnLinks(d, p, links) \/ g \in OnBridge(d, unicast)
      <4> HIDE DEF d, p, net, rest
      <4> DEFINE any == NoIf
                 src_if == f.src_if
      <4>1. /\ \/ ForwardPacket(d, p, net, src_if, any, rest)
               \/ ForwardFails(d, p, net, src_if, any, rest)
            /\ any \in Links \cup {NoIf}
        BY <1>13, Zenon
      <4> HIDE DEF any, src_if
      <4>2. IsTaken(d, p, net, src_if, any, rest)
        BY <1>2, <1>3, <4>1, TakenPacket, Zenon
      <4> QED BY <4>2, Zenon DEF IsTaken, any, src_if
    <3> QED BY <1>5, <3>1, Zenon
  <2>2. /\ accepted_at'[d] = Put(accepted_at[d], FrameKey(s), now)
        /\ \A e \in Devices \ {d} : accepted_at'[e] = accepted_at[e]
    BY <1>2, <2>1, Zenon DEF IInv, TypeOK
  <2>3. Started(s)'
    BY <1>2, <2>2, Zenon DEF Started, Put
  <2>4. ASSUME NEW g \in inflight', g \notin inflight
        PROVE  FrameInv(g)' /\ g.due = now + MaxDelay
    <3>1. /\ g.p.dst \in {Mcast, g.to} /\ g.to # d /\ g.due = now + MaxDelay /\ g.p = p
      <4>1. g \in OnLinks(d, p, links) \/ g \in OnBridge(d, unicast)
        BY <2>1, <2>4, Zenon
      <4> DEFINE any == NoIf
                 src_if == f.src_if
      <4>2. /\ any \in Links \cup {NoIf} /\ (any # NoIf => p.dst = Mcast)
            /\ \/ g \in OnLinks(d, p, ToNetworkInterfaces(Interfaces(d), p, net, src_if, any))
               \/ g \in OnBridge(d, Unicast(d, p, net, any))
        BY <4>1, Zenon
      <4> HIDE DEF d, p, net, rest, any, src_if
      <4>3. /\ g.p.dst \in {Mcast, g.to} /\ g.to # d /\ g.due = now + MaxDelay
            /\ g.p = p \/ ~ net
        <5>1. d \in Devices /\ p \in Packet /\ net \in BOOLEAN
          BY <1>2, <1>3, Zenon
        <5>2. IsCarried(g, d, p, net)
          BY <4>2, <5>1, NewFrames, Zenon
        <5> QED BY <5>2, Zenon DEF IsCarried
      <4> QED BY <1>3, <4>3, Zenon
    <3>2. g.p.dst = Mcast
      BY <1>3, <3>1, Zenon
    <3>3. now <= g.due
      BY <1>3, <3>1, NetworkBoundsAssumption
    <3>4. ASSUME NEW x \in failed', MessageOfKey(x[2]) = MessageOf(p)
          PROVE  x[2] = FrameKey(p)
      BY <1>5, <1>8, <3>4, Zenon DEF RouteInv, FrameInv
    <3> QED BY <1>2, <1>3, <2>3, <3>1, <3>2, <3>3, <3>4, Zenon DEF FrameInv
  <2>5. ASSUME Unfailed(s)'
        PROVE  /\ \A e \in Devices : \A id \in DOMAIN accepted_at'[e] :
                    MessageOfKey(id) = MessageOf(s) => StartedAt(s)' <= accepted_at'[e][id]
               /\ \A g \in inflight' :
                    MessageOf(g.p) = MessageOf(s) =>
                      g.due <= StartedAt(s)' + MaxDelay * Cardinality(Reached(s)')
    <3>1. Unfailed(s) /\ TimeInv(s)
      BY <1>4, <2>5, Zenon DEF Unfailed, HandledWell, RouteInv
    <3>2. ~ Has(s, d)
      BY <1>1, <2>1, <3>1, OnlyOnce, Zenon
    <3>3. s.src # d
      <4>1. ASSUME s.src = d
            PROVE  FALSE
        <5>1. p = s /\ PacketKey(s) = FrameKey(s)
          BY <1>2, <1>3, <4>1, CarriedPacket, KeyOfPacket, Zenon
        <5> QED BY <1>2, <3>2, <4>1, <5>1, Zenon DEF Started, Has
      <4> QED BY <4>1, Zenon
    <3>4. StartedAt(s)' = StartedAt(s) /\ StartedAt(s) \in Nat /\ StartedAt(s) <= now
      <4>1. StartedAt(s) <= now
        BY <1>2, Zenon DEF RouteInv, StartedAt, Started
      <4> QED BY <1>2, <2>2, <3>3, <4>1, Zenon DEF StartedAt, Started, IInv, TypeOK, IsMap
    <3>5. Reached(s)' = Reached(s) \cup {d} /\ d \notin Reached(s) /\ Reached(s) \in SUBSET Devices
      <4>1. Has(s, d)' /\ \A e \in Devices \ {d} : Has(s, e)' <=> Has(s, e)
        BY <2>2, Zenon DEF Has, Put
      <4> QED BY <1>2, <3>2, <3>3, <4>1, Zenon DEF Reached
    <3> DEFINE n == Cardinality(Reached(s))
    <3>6. n \in Nat /\ Cardinality(Reached(s)') = n + 1
      BY <1>2, <3>5, Flushed, Zenon
    <3>7. MaxDelay * n \in Nat /\ MaxDelay * (n + 1) = MaxDelay * n + MaxDelay /\ MaxDelay \in Nat
      BY <3>6, Multiples, NetworkBoundsAssumption, Zenon
    <3>8. ASSUME NEW e \in Devices, NEW id \in DOMAIN accepted_at'[e],
                 MessageOfKey(id) = MessageOf(s)
          PROVE  StartedAt(s)' <= accepted_at'[e][id]
      <4>1. CASE e = d /\ id = FrameKey(s)
        BY <2>2, <3>4, <4>1, Zenon DEF Put
      <4>2. CASE ~ (e = d /\ id = FrameKey(s))
        <5>1. id \in DOMAIN accepted_at[e] /\ accepted_at'[e][id] = accepted_at[e][id]
          BY <2>2, <3>8, <4>2 DEF Put
        <5> QED BY <1>2, <3>1, <3>4, <3>8, <5>1, Zenon DEF TimeInv
      <4> QED BY <4>1, <4>2, Zenon
    <3>9. ASSUME NEW g \in inflight', MessageOf(g.p) = MessageOf(s)
          PROVE  g.due <= StartedAt(s)' + MaxDelay * Cardinality(Reached(s)')
      <4>1. f.due <= StartedAt(s) + MaxDelay * n
        BY <1>1, <1>2, <3>1, Zenon DEF TimeInv
      <4>2. CASE g \in inflight
        <5>1. g.due <= StartedAt(s) + MaxDelay * n /\ g.due \in Nat
          BY <1>2, <3>1, <3>9, <4>2, Zenon DEF TimeInv, IInv, TypeOK, Frame
        <5> HIDE DEF n
        <5> QED BY <3>4, <3>6, <3>7, <5>1
      <4>3. CASE g \notin inflight
        <5>1. g.due = now + MaxDelay
          BY <2>4, <4>3, Zenon
        <5> HIDE DEF n
        <5> QED BY <1>3, <3>4, <3>6, <3>7, <4>1, <5>1, SMTT(30)
      <4> QED BY <4>2, <4>3, Zenon
    <3> QED BY <3>8, <3>9, Zenon
  <2>6. TimeInv(s)'
    BY <2>5, Zenon DEF TimeInv
  <2> QED BY <1>9, <2>4, <2>6, Zenon
<1> QED BY <1>3, <1>12, <1>13, Zenon DEF HandlePacket

\* Steps that only move frames and time.
LEMMA QuietRoute ==
  ASSUME IInv, RouteInv, UNCHANGED <<de_duplication_map_, sent, accepted_at, failed>>,
         now' \in Nat, now <= now',
         disturbed \subseteq disturbed', \A m \in disturbed' : m \in disturbed \/ WasSent(m),
         \A g \in inflight' : \E f \in inflight :
           g.to = f.to /\ g.p = f.p /\ g.due = f.due /\ now' <= f.due
  PROVE  RouteInv'
<1>1. ASSUME NEW g \in inflight'
      PROVE  FrameInv(g)'
  <2>1. PICK f \in inflight : g.to = f.to /\ g.p = f.p /\ g.due = f.due /\ now' <= f.due
    BY Zenon
  <2>2. FrameInv(f)
    BY Zenon DEF RouteInv
  <2>3. /\ g.p.dst \in {Mcast, g.to} /\ (g.to = g.p.src => g.p.dst = Mcast) /\ now' <= g.due
        /\ \A x \in failed' : MessageOfKey(x[2]) = MessageOf(g.p) => x[2] = FrameKey(g.p)
    BY <2>1, <2>2, Zenon DEF FrameInv
  <2>4. \E s \in sent' : Carries(g.p, s) /\ Started(s)'
    BY <2>1, <2>2, Zenon DEF FrameInv, Started
  <2> QED BY <2>3, <2>4, Zenon DEF FrameInv
<1>2. ASSUME NEW s \in sent
      PROVE  TimeInv(s)'
  <2>1. TimeInv(s)
    BY Zenon DEF RouteInv
  <2> QED BY <2>1, Zenon DEF TimeInv, Unfailed, Started, StartedAt, Reached, Has
<1>3. ASSUME NEW d \in Devices, NEW id \in DOMAIN accepted_at[d]
      PROVE  accepted_at[d][id] <= now'
  <2>1. accepted_at[d][id] \in Nat /\ now \in Nat
    BY Zenon DEF IInv, TypeOK, IsMap
  <2>2. accepted_at[d][id] <= now
    BY Zenon DEF RouteInv
  <2> QED BY <2>1, <2>2
<1>4. \A x \in failed' : MessageOfKey(x[2]) \in disturbed'
  BY Zenon DEF RouteInv
<1>5. \A m \in disturbed' : WasSent(m)'
  BY Zenon DEF RouteInv, WasSent
<1> QED BY <1>1, <1>2, <1>3, <1>4, <1>5, Zenon DEF RouteInv

\* Every step keeps the routes.
LEMMA RouteStep ==
  ASSUME IInv, RouteInv, [Next]_vars
  PROVE  RouteInv'
<1>1. /\ now \in Nat /\ \A f \in inflight : f \in Frame /\ f.due \in Nat /\ now <= f.due
      /\ \A f \in inflight : WasSent(MessageOf(f.p))
  BY Zenon DEF IInv, TypeOK, SentInv, RouteInv, FrameInv, Frame
<1>2. ASSUME NEW t \in Traffic, CmduTx(t[1].src, t[1], t[2])
      PROVE  RouteInv'
  BY <1>2, LocalRoute, TrafficAssumption, Zenon
<1>3. ASSUME NEW f \in inflight, Receive(f)
      PROVE  RouteInv'
  BY <1>3, NetRoute, Zenon
<1>4. ASSUME NEW f \in inflight, Lose(f)
      PROVE  RouteInv'
  <2>1. /\ UNCHANGED <<now, de_duplication_map_, sent, accepted_at, failed>>
        /\ inflight' = inflight \ {f} /\ disturbed' = disturbed \cup {MessageOf(f.p)}
    BY <1>4, Zenon DEF Lose, Disturb, transportVars
  <2> QED BY <1>1, <2>1, QuietRoute
<1>5. ASSUME NEW f \in inflight, DuplicateFrame(f)
      PROVE  RouteInv'
  <2>1. /\ UNCHANGED <<now, de_duplication_map_, sent, accepted_at, failed, disturbed>>
        /\ inflight' = inflight \cup {[f EXCEPT !.copy = TRUE]}
    BY <1>5, Zenon DEF DuplicateFrame, transportVars
  <2>2. ASSUME NEW g \in inflight'
        PROVE  \E h \in inflight : g.to = h.to /\ g.p = h.p /\ g.due = h.due /\ now' <= h.due
    <3>1. CASE g \in inflight
      BY <1>1, <2>1, <3>1, Zenon
    <3>2. CASE g = [f EXCEPT !.copy = TRUE]
      <4>1. g.to = f.to /\ g.p = f.p /\ g.due = f.due
        BY <1>1, <3>2, Zenon DEF Frame
      <4> QED BY <1>1, <2>1, <4>1, Zenon
    <3> QED BY <2>1, <3>1, <3>2, Zenon
  <2> QED BY <1>1, <2>1, <2>2, QuietRoute
<1>6. ASSUME Tick
      PROVE  RouteInv'
  <2>1. /\ UNCHANGED <<de_duplication_map_, sent, accepted_at, failed, disturbed, inflight>>
        /\ now' = now + 1 /\ \A f \in inflight : f.due > now
    BY <1>6, Zenon DEF Tick, ghostVars
  <2>2. now' \in Nat /\ now <= now' /\ \A f \in inflight : now' <= f.due
    BY <1>1, <2>1
  <2> QED BY <1>1, <2>1, <2>2, QuietRoute, Zenon
<1>7. CASE UNCHANGED vars
  <2>1. UNCHANGED <<now, de_duplication_map_, sent, accepted_at, failed, disturbed, inflight>>
    BY <1>7, Zenon DEF vars, transportVars, ghostVars
  <2> QED BY <1>1, <2>1, QuietRoute
<1> QED BY <1>2, <1>3, <1>4, <1>5, <1>6, <1>7, Zenon DEF Next

\* The initial state has no routes.
LEMMA RouteStart ==
  ASSUME Init
  PROVE  RouteInv
<1>1. \A d \in Devices : DOMAIN de_duplication_map_[d] = {} /\ DOMAIN accepted_at[d] = {}
  BY Zenon DEF Init, TransportInit, EmptyMap
<1> QED BY <1>1, Zenon DEF Init, RouteInv

\* The routes of all packets, in every reachable state.
THEOREM RouteInvariance == Spec => [](IInv /\ RouteInv)
<1>1. Init => IInv /\ RouteInv
  BY Start, RouteStart, Zenon
<1>2. IInv /\ RouteInv /\ [Next]_vars => (IInv /\ RouteInv)'
  BY Step, RouteStep, Zenon
<1> QED BY <1>1, <1>2, PTL DEF Spec

\* de_duplicate_packet() keeps a packet that goes round in the network from being taken for
\* a new one again: a device forwards a packet once, however the links are laid, unless
\* forwarding it failed on some device.
THEOREM NoRelayLoopHolds == Spec => NoRelayLoop
<1> DEFINE Once == \A d \in Devices : \A k \in AcceptedAgain(d) : \E e \in Devices : <<e, k>> \in failed
<1>1. IInv /\ RouteInv /\ [Next]_vars => [Once]_vars
  <2> SUFFICES ASSUME IInv, RouteInv, Next, NEW d \in Devices, NEW k \in AcceptedAgain(d)
               PROVE  \E e \in Devices : <<e, k>> \in failed
    BY Zenon
  <2>1. PICK f \in inflight : /\ f.to = d /\ f.p \in Packet /\ k = Identity(d, f.p, TRUE)
                              /\ LookupKey(d, f.p, TRUE, Aged(de_duplication_map_[d]))
                                   \notin DOMAIN Aged(de_duplication_map_[d])
    BY AgainFromNetwork, Zenon
  <2>2. PICK s \in sent : MessageOf(s) = MessageOf(f.p)
    BY FrameWasSent, Zenon
  <2>3. k = FrameKey(f.p) /\ FrameKey(f.p) = FrameKey(s)
    <3>1. f.p.dst \in {Mcast, d}
      BY <2>1, Zenon DEF RouteInv, FrameInv
    <3> QED BY <2>1, <2>2, <3>1, KeyOfFrame, CarriedWasSent, CarriedPacket, Zenon
  <2>4. Has(s, f.to)
    BY <2>1, <2>3, Zenon DEF AcceptedAgain, Has
  <2>5. PICK x \in failed : MessageOfKey(x[2]) = MessageOf(s)
    BY <2>1, <2>2, <2>4, OnlyOnce, Zenon DEF Unfailed
  <2>6. x[2] = k
    BY <2>2, <2>3, <2>5, Zenon DEF RouteInv, FrameInv
  <2>7. x[1] \in Devices /\ x = <<x[1], x[2]>>
    <3>1. x \in Devices \X DeDuplicationKey
      BY <2>5, Zenon DEF IInv, TypeOK
    <3> QED BY <3>1
  <2> QED BY <2>6, <2>7, Zenon
<1> QED BY RouteInvariance, <1>1, PTL DEF Spec, NoRelayLoop

-----------------------------------------------------------------------------
(* Delivery: what holds of the messages that no fault disturbed *)

\* The links join devices.
LEMMA LinkedDevices ==
  /\ NoIf \notin Links
  /\ \A l \in Links : l \subseteq Devices
  /\ \A d : Adjacent(d) \subseteq Devices
BY LinksAssumption, Zenon DEF Adjacent, Interfaces

\* A message keeps what it has when nothing about it changes but where its frames are.
LEMMA KeptDelivery ==
  ASSUME NEW s \in Packet, DeliveryInv(s), Started(s)',
         \A e \in Devices : /\ Has(s, e)' <=> Has(s, e)
                            /\ Served(s, e) => Served(s, e)'
                            /\ published'[e][MessageOf(s)] = published[e][MessageOf(s)],
         \A g \in inflight' :
           MessageOf(g.p) = MessageOf(s) =>
             \E h \in inflight : MessageOf(h.p) = MessageOf(s) /\ h.src_if = g.src_if,
         \A g \in inflight : g.src_if \subseteq Devices
  PROVE  DeliveryInv(s)'
<1>1. s.src \in Devices
  BY Zenon DEF Packet
<1>2. ASSUME s.relay, s.mid \notin Reliable
      PROVE  /\ \A l \in Links : (\E d \in l : Has(s, d)') => \A d \in l : Served(s, d)'
             /\ \A f \in inflight' : MessageOf(f.p) = MessageOf(s) => \E d \in f.src_if : Has(s, d)'
             /\ published'[s.src][MessageOf(s)] = 1
  <2>1. /\ \A l \in Links : (\E d \in l : Has(s, d)) => \A d \in l : Served(s, d)
        /\ \A f \in inflight : MessageOf(f.p) = MessageOf(s) => \E d \in f.src_if : Has(s, d)
        /\ published[s.src][MessageOf(s)] = 1
    BY <1>2, Zenon DEF DeliveryInv
  <2>2. ASSUME NEW l \in Links, NEW d \in l, Has(s, d)', NEW e \in l
        PROVE  Served(s, e)'
    <3>1. d \in Devices /\ e \in Devices
      BY LinkedDevices, Zenon
    <3>2. Served(s, e)
      BY <2>1, <2>2, <3>1, Zenon
    <3> QED BY <3>1, <3>2, Zenon
  <2>3. ASSUME NEW f \in inflight', MessageOf(f.p) = MessageOf(s)
        PROVE  \E d \in f.src_if : Has(s, d)'
    <3>1. PICK h \in inflight : MessageOf(h.p) = MessageOf(s) /\ h.src_if = f.src_if
      BY <2>3, Zenon
    <3>2. PICK d \in h.src_if : Has(s, d)
      BY <2>1, <3>1, Zenon
    <3>3. d \in Devices
      BY <3>2, Zenon
    <3> QED BY <3>1, <3>2, <3>3, Zenon
  <2>4. published'[s.src][MessageOf(s)] = 1
    BY <1>1, <2>1, Zenon
  <2> QED BY <2>2, <2>3, <2>4, Zenon
<1>3. ASSUME s.relay, s.mid \in Reliable
      PROVE  \A d \in Adjacent(s.src) : Served(s, d)'
  BY <1>3, LinkedDevices, Zenon DEF DeliveryInv
<1>4. s.dst \in Devices \ {s.src} => Served(s, s.dst)'
  BY Zenon DEF DeliveryInv
<1>5. s.dst = s.src => published'[s.src][MessageOf(s)] = 1
  BY <1>1, Zenon DEF DeliveryInv
<1>6. \A d \in Devices \ {s.src} :
        s.relay \/ s.dst = d => published'[d][MessageOf(s)] = IF Has(s, d)' THEN 1 ELSE 0
  BY Zenon DEF DeliveryInv
<1>7. s.relay => s.dst = Mcast
  BY Zenon DEF DeliveryInv
<1> QED BY <1>2, <1>3, <1>4, <1>5, <1>6, <1>7, Zenon DEF DeliveryInv

\* Handling a packet leaves the delivery of other messages alone.
LEMMA OtherDelivery ==
  ASSUME IInv, NEW d \in Devices, NEW p \in Packet, NEW net \in BOOLEAN,
         NEW rest \in SUBSET inflight, NEW src_if, NEW dst_if \in Links \cup {NoIf},
         HandlePacket(d, p, net, src_if, dst_if, rest), HandledWell(d, p, net, rest),
         \A g \in inflight \ rest : MessageOf(g.p) = MessageOf(p),
         NEW s \in Packet, MessageOf(s) # MessageOf(p), DeliveryInv(s)
  PROVE  DeliveryInv(s)'
<1>1. /\ \A e \in Devices : Has(s, e)' <=> Has(s, e)
      /\ Started(s)'
  BY OtherMessages, Zenon DEF DeliveryInv
<1>2. /\ rest \subseteq inflight'
      /\ \A e \in Devices : published'[e][MessageOf(s)] = published[e][MessageOf(s)]
  <2>1. MessageOf(s) \in Devices \X Mids
    BY KeyOfPacket, Zenon
  <2>2. CASE Duplicate(d, p, net, rest) \/ Untrackable(d, p, net, rest)
    BY <2>2, DroppedFrames, Zenon
  <2>3. CASE \/ ForwardPacket(d, p, net, src_if, dst_if, rest)
             \/ ForwardFails(d, p, net, src_if, dst_if, rest)
    <3>1. IsTaken(d, p, net, src_if, dst_if, rest)
      BY <2>3, TakenPacket, Zenon
    <3> QED BY <2>1, <3>1, Zenon DEF IsTaken
  <2> QED BY <2>2, <2>3, Zenon DEF HandlePacket
<1>3. \A g \in inflight' : MessageOf(g.p) = MessageOf(s) => g \in inflight
  BY Zenon DEF HandledWell
<1>4. ASSUME NEW e \in Devices, Served(s, e)
      PROVE  Served(s, e)'
  BY <1>1, <1>2, <1>4, Zenon DEF Served, Coming
<1>5. \A g \in inflight : g.src_if \subseteq Devices
  BY LinkedDevices, Zenon DEF IInv, TypeOK, Frame, Bridge, NoIf
<1> QED BY <1>1, <1>2, <1>3, <1>4, <1>5, KeptDelivery, Zenon

\* The effects of a packet that is forwarded on every interface it should.
IsForwarded(d, p, net, src_if, dst_if, rest) ==
  /\ rest \subseteq inflight'
  /\ \A l \in ToNetworkInterfaces(Interfaces(d), p, net, src_if, dst_if) :
       \A x \in (l \cap Devices) \ {d} :
         \E g \in inflight' : g.to = x /\ MessageOf(g.p) = MessageOf(p)
  /\ ToBridge(d, p, net, dst_if) =>
       \E g \in inflight' : g.to = p.dst /\ MessageOf(g.p) = MessageOf(p)
  /\ Unicast(d, p, net, dst_if) = {} =>
       \A g \in inflight' :
         \/ g \in rest
         \/ g.src_if \in ToNetworkInterfaces(Interfaces(d), p, net, src_if, dst_if)
  /\ Unicast(d, p, net, dst_if) = {} /\ ToBroker(d, p, dst_if) =>
       published'[d][MessageOf(p)] = published[d][MessageOf(p)] + 1

\* What a device that forwards a packet to all of its sinks sends and publishes.
LEMMA ForwardedDelivery ==
  ASSUME IInv, NEW d \in Devices, NEW p \in Packet, NEW net \in BOOLEAN, NEW rest, NEW src_if,
         NEW dst_if \in Links \cup {NoIf}, ForwardPacket(d, p, net, src_if, dst_if, rest)
  PROVE  IsForwarded(d, p, net, src_if, dst_if, rest)
<1> USE DEF IsForwarded
<1> DEFINE links == ToNetworkInterfaces(Interfaces(d), p, net, src_if, dst_if)
           unicast == Unicast(d, p, net, dst_if)
<1>1. /\ inflight' = rest \cup OnLinks(d, p, links) \cup OnBridge(d, unicast)
      /\ published' =
           [published EXCEPT ![d][MessageOf(p)] =
              @ + (IF ToBroker(d, p, dst_if) THEN 1 ELSE 0)
                + (IF \E c \in unicast : c.dst = d THEN 1 ELSE 0)]
  BY Zenon DEF ForwardPacket, Forward
<1>2. ASSUME NEW l \in links, NEW x \in (l \cap Devices) \ {d}
      PROVE  \E g \in inflight' : g.to = x /\ MessageOf(g.p) = MessageOf(p)
  <2> DEFINE g == [to |-> x, src_if |-> l, p |-> p, due |-> now + MaxDelay, copy |-> FALSE]
  <2>1. g \in OnLinks(d, p, links)
    <3> HIDE DEF links
    <3>1. <<x, l>> \in {y \in (Devices \ {d}) \X links : y[1] \in y[2]}
      BY Zenon
    <3>2. g = [to |-> <<x, l>>[1], src_if |-> <<x, l>>[2], p |-> p, due |-> now + MaxDelay,
               copy |-> FALSE]
      BY Zenon
    <3> HIDE DEF g
    <3> QED BY <3>1, <3>2, Zenon DEF OnLinks
  <2>2. g.to = x /\ g.p = p
    BY Zenon
  <2> HIDE DEF g
  <2> QED BY <1>1, <2>1, <2>2, Zenon
<1>3. ASSUME ToBridge(d, p, net, dst_if)
      PROVE  \E g \in inflight' : g.to = p.dst /\ MessageOf(g.p) = MessageOf(p)
  <2> DEFINE g == [to |-> p.dst, src_if |-> Bridge, p |-> p, due |-> now + MaxDelay,
                   copy |-> FALSE]
  <2>1. p \in unicast /\ p.dst # d
    BY <1>3, Zenon DEF Unicast, ToBridge
  <2>2. g \in OnBridge(d, unicast)
    <3> HIDE DEF unicast
    <3> QED BY <2>1, Zenon DEF OnBridge
  <2>3. g.to = p.dst /\ g.p = p
    BY Zenon
  <2> HIDE DEF g
  <2> QED BY <1>1, <2>2, <2>3, Zenon
<1>4. ASSUME unicast = {}, NEW g \in inflight', g \notin rest
      PROVE  g.src_if \in links
  <2>1. g \in OnLinks(d, p, links)
    BY <1>1, <1>4, Zenon DEF OnBridge
  <2> HIDE DEF links
  <2> QED BY <2>1 DEF OnLinks
<1>5. ASSUME unicast = {}, ToBroker(d, p, dst_if)
      PROVE  published'[d][MessageOf(p)] = published[d][MessageOf(p)] + 1
  <2>1. published[d][MessageOf(p)] \in Nat /\ MessageOf(p) \in Devices \X Mids
    BY KeyOfPacket, Zenon DEF IInv, TypeOK
  <2>2. published'[d][MessageOf(p)] =
          published[d][MessageOf(p)] + (IF ToBroker(d, p, dst_if) THEN 1 ELSE 0)
            + (IF \E c \in unicast : c.dst = d THEN 1 ELSE 0)
    <3> HIDE DEF unicast
    <3> QED BY <1>1, <2>1, Zenon DEF IInv, TypeOK
  <2>3. ~ \E c \in unicast : c.dst = d
    <3> HIDE DEF unicast
    <3> QED BY <1>5, Zenon
  <2> HIDE DEF unicast
  <2> QED BY <1>5, <2>1, <2>2, <2>3, SMTT(30)
<1>6. rest \subseteq inflight'
  BY <1>1, Zenon
<1> QED BY <1>2, <1>3, <1>4, <1>5, <1>6, Zenon

\* A duplicate is a packet that the device has.
LEMMA DuplicateHas ==
  ASSUME IInv, RouteInv, NEW f \in inflight, NEW s \in sent, MessageOf(s) = MessageOf(f.p),
         LookupKey(f.to, f.p, TRUE, Aged(de_duplication_map_[f.to]))
           \in DOMAIN Aged(de_duplication_map_[f.to])
  PROVE  Has(s, f.to)
<1> DEFINE d == f.to
           p == f.p
           map == de_duplication_map_[d]
           key == LookupKey(d, p, TRUE, Aged(map))
           k == FrameKey(s)
<1>1. /\ f \in Frame /\ d \in Devices /\ p \in Packet /\ s \in Packet
      /\ Carries(p, s) /\ Started(s) /\ p.dst \in {Mcast, d} /\ (d = p.src => p.dst = Mcast)
  <2>1. p.dst \in {Mcast, d} /\ (d = p.src => p.dst = Mcast)
    BY Zenon DEF RouteInv, FrameInv
  <2> QED BY <2>1, CarriedWasSent, Zenon
<1>2. /\ Identity(d, p, TRUE) = k /\ k \in DeDuplicationKey /\ k.src = p.src
      /\ k.mid \in Reliable => k.dst = Mcast
  <2>1. Identity(d, p, TRUE) = FrameKey(p) /\ FrameKey(p) = k
    BY <1>1, KeyOfFrame, CarriedPacket, Zenon
  <2>2. FrameKey(p).src = p.src /\ (FrameKey(p).mid \in Reliable => FrameKey(p).dst = Mcast)
    BY <1>1, Zenon DEF FrameKey, PacketKey
  <2> QED BY <1>1, <2>1, <2>2, KeyOfPacket, Zenon
<1>3. key \in Class(d, k)
  BY <1>1, <1>2, LookupInClass, Zenon
<1>4. PICK id \in DOMAIN accepted_at[d] : key \in Class(d, id)
  <2>1. key \in DOMAIN map
    BY Zenon DEF Aged, Only
  <2> QED BY <1>1, <2>1, Zenon DEF RouteInv
<1>5. id \in DeDuplicationKey /\ (id.mid \in Reliable /\ id.dst = d => id.src = d)
  BY <1>1, <1>4, Zenon DEF IInv, TypeOK, IsMap, RouteInv
<1>6. CASE d = s.src
  <2>1. p = s /\ FrameKey(s) = PacketKey(s)
    BY <1>1, <1>6, CarriedPacket, KeyOfPacket, Zenon
  <2> QED BY <1>1, <1>6, <2>1, Zenon DEF Has, Started
<1>7. CASE d # s.src
  <2>1. d # k.src /\ d # Mcast
    BY <1>1, <1>2, <1>7, CarriedPacket, AddressAssumption, Zenon
  <2> HIDE DEF d, p, key, k, map
  <2>2. id = k
    <3>1. ASSUME NEW a \in DeDuplicationKey, NEW b \in DeDuplicationKey,
                 a.dst = b.dst, [a EXCEPT !.dst = d] = [b EXCEPT !.dst = d]
          PROVE  a = b
      <4>1. a.src = b.src /\ a.mid = b.mid
        BY <3>1, Zenon DEF DeDuplicationKey
      <4> QED BY <3>1, <4>1 DEF DeDuplicationKey
    <3>2. ASSUME NEW a \in DeDuplicationKey, NEW b \in DeDuplicationKey, a = [b EXCEPT !.dst = d]
          PROVE  a.dst = d /\ a.src = b.src /\ a.mid = b.mid
      BY <3>2, Zenon DEF DeDuplicationKey
    <3>3. key = id \/ (id.mid \in Reliable /\ id.dst = Mcast /\ key = [id EXCEPT !.dst = d])
      BY <1>4, Zenon DEF Class
    <3>4. key = k \/ (k.mid \in Reliable /\ k.dst = Mcast /\ key = [k EXCEPT !.dst = d])
      BY <1>3, Zenon DEF Class
    <3>5. CASE key = id /\ key # k
      BY <1>2, <1>5, <2>1, <3>2, <3>4, <3>5, Zenon
    <3>6. CASE key # id /\ key = k
      BY <1>2, <1>5, <2>1, <3>2, <3>3, <3>6, Zenon
    <3>7. CASE key # id /\ key # k
      BY <1>2, <1>5, <3>1, <3>3, <3>4, <3>7, Zenon
    <3> QED BY <3>5, <3>6, <3>7, Zenon
  <2>3. k \in DOMAIN accepted_at[d]
    BY <1>4, <2>2, Zenon
  <2> QED BY <2>3, Zenon DEF Has, d, k
<1> QED BY <1>6, <1>7, Zenon

\* A CMDU of the local bus that no fault disturbs.
LEMMA LocalDelivery ==
  ASSUME IInv, RouteInv, NEW p \in Packet, NEW dst_if \in Links \cup {NoIf},
         CmduTx(p.src, p, dst_if), MessageOf(p) \notin disturbed',
         \A e \in Devices : published[e][MessageOf(p)] = 0
  PROVE  DeliveryInv(p)'
<1> DEFINE d == p.src
           m == MessageOf(p)
           net == FALSE
           links == ToNetworkInterfaces(Interfaces(d), p, net, NoIf, dst_if)
           unicast == Unicast(d, p, net, dst_if)
<1>1. /\ net \in BOOLEAN /\ ~ net /\ d \in Devices /\ m \in Devices \X Mids
      /\ HandlePacket(d, p, net, NoIf, dst_if, inflight) /\ ~ WasSent(m)
      /\ dst_if # NoIf => p.dst = Mcast /\ ~ p.relay
      /\ p.relay => p.dst = Mcast
  BY KeyOfPacket, Zenon DEF CmduTx, Packet, WasSent
<1>2. /\ \A f \in inflight : MessageOf(f.p) # m
      /\ \A e \in Devices : \A id \in DOMAIN accepted_at[e] : MessageOfKey(id) # m
  BY <1>1, Zenon DEF IInv, SentInv, MessageOfKey, WasSent
<1>3. /\ MessageOfKey(FrameKey(p)) = m /\ MessageOfKey(PacketKey(p)) = m
      /\ Identity(d, p, net) = PacketKey(p)
      /\ p.mid \notin Reliable => FrameKey(p) = PacketKey(p)
  BY KeyOfPacket, Zenon DEF Identity
<1>4. ForwardPacket(d, p, net, NoIf, dst_if, inflight)
  <2>1. ASSUME Duplicate(d, p, net, inflight)
        PROVE  FALSE
    <3>1. PacketKey(p) \in DOMAIN de_duplication_map_[d]
      BY <2>1, Zenon DEF Duplicate, IsDuplicate, LookupKey, Aged, Only
    <3>2. PICK id \in DOMAIN accepted_at[d] : PacketKey(p) \in Class(d, id)
      BY <1>1, <3>1, Zenon DEF RouteInv
    <3>3. id \in DeDuplicationKey
      BY <1>1, <3>2, Zenon DEF IInv, TypeOK, IsMap
    <3>4. MessageOfKey(id) = MessageOfKey(PacketKey(p))
      BY <3>2, <3>3, Zenon DEF Class, MessageOfKey, DeDuplicationKey
    <3> QED BY <1>1, <1>2, <1>3, <3>2, <3>4, Zenon
  <2>2. ~ Untrackable(d, p, net, inflight)
    BY Zenon DEF Untrackable
  <2>3. ~ ForwardFails(d, p, net, NoIf, dst_if, inflight)
    BY Zenon DEF ForwardFails, Disturb
  <2> QED BY <1>1, <2>1, <2>2, <2>3, Zenon DEF HandlePacket
<1>5. /\ accepted_at'[d] = Put(accepted_at[d], PacketKey(p), now)
      /\ \A e \in Devices \ {d} : accepted_at'[e] = accepted_at[e]
  BY <1>1, <1>3, <1>4, Zenon DEF ForwardPacket, Accept, IInv, TypeOK
<1>6. \A e \in Devices \ {d} : published'[e][m] = 0
  <2>1. published' =
          [published EXCEPT ![d][m] =
             @ + (IF ToBroker(d, p, dst_if) THEN 1 ELSE 0)
               + (IF \E c \in unicast : c.dst = d THEN 1 ELSE 0)]
    BY <1>4, Zenon DEF ForwardPacket, Forward
  <2> HIDE DEF unicast, m
  <2>2. \A e \in Devices \ {d} : published'[e] = published[e]
    BY <2>1, Zenon DEF IInv, TypeOK
  <2> QED BY <2>2, Zenon DEF m
<1>7. /\ \A l \in links : \A x \in (l \cap Devices) \ {d} : Coming(p, x)'
      /\ ToBridge(d, p, net, dst_if) => Coming(p, p.dst)'
      /\ unicast = {} => \A g \in inflight' : g \in inflight \/ g.src_if \in links
      /\ unicast = {} /\ ToBroker(d, p, dst_if) => published'[d][m] = 1
  <2>1. /\ \A l \in links : \A x \in (l \cap Devices) \ {d} :
             \E g \in inflight' : g.to = x /\ MessageOf(g.p) = m
        /\ ToBridge(d, p, net, dst_if) => \E g \in inflight' : g.to = p.dst /\ MessageOf(g.p) = m
        /\ unicast = {} => \A g \in inflight' : g \in inflight \/ g.src_if \in links
        /\ unicast = {} /\ ToBroker(d, p, dst_if) => published'[d][m] = published[d][m] + 1
    <3> DEFINE any == NoIf
               rest == inflight
    <3>1. ForwardPacket(d, p, net, any, dst_if, rest) /\ d \in Devices /\ net \in BOOLEAN
      BY <1>1, <1>4, Zenon
    <3> HIDE DEF any, rest, net, d
    <3>2. /\ \A l \in ToNetworkInterfaces(Interfaces(d), p, net, any, dst_if) :
                \A x \in (l \cap Devices) \ {d} :
                  \E g \in inflight' : g.to = x /\ MessageOf(g.p) = MessageOf(p)
          /\ ToBridge(d, p, net, dst_if) =>
               \E g \in inflight' : g.to = p.dst /\ MessageOf(g.p) = MessageOf(p)
          /\ unicast = {} => \A g \in inflight' :
               g \in rest \/ g.src_if \in ToNetworkInterfaces(Interfaces(d), p, net, any, dst_if)
          /\ unicast = {} /\ ToBroker(d, p, dst_if) =>
               published'[d][MessageOf(p)] = published[d][MessageOf(p)] + 1
      <4>1. IsForwarded(d, p, net, any, dst_if, rest)
        BY <3>1, ForwardedDelivery, Zenon
      <4> QED BY <4>1, Zenon DEF IsForwarded
    <3> QED BY <3>2, Zenon DEF any, rest
  <2>2. published[d][m] = 0
    BY <1>1, Zenon
  <2> HIDE DEF links, unicast, d, net
  <2>3. /\ \A l \in links : \A x \in (l \cap Devices) \ {d} : Coming(p, x)'
        /\ ToBridge(d, p, net, dst_if) => Coming(p, p.dst)'
    BY <2>1, Zenon DEF Coming
  <2> HIDE DEF m
  <2>4. unicast = {} /\ ToBroker(d, p, dst_if) => published'[d][m] = 1
    BY <2>1, <2>2, SMTT(30)
  <2> QED BY <2>1, <2>3, <2>4, Zenon
<1>8. Started(p)'
  BY <1>5, Zenon DEF Started, Put
<1>9. ASSUME NEW e \in Devices \ {d}
      PROVE  ~ Has(p, e)'
  BY <1>2, <1>3, <1>5, Zenon DEF Has
<1>10. p.dst = Mcast /\ dst_if = NoIf => links = Interfaces(d)
  BY <1>1, LinkedDevices, Zenon DEF ToNetworkInterfaces, Interfaces
<1>11. p.dst = d \/ (p.dst = Mcast /\ p.mid \notin Reliable) => unicast = {}
  BY <1>1, AddressAssumption, Zenon DEF Unicast, ReliableCopies, ToBridge
<1>12. ASSUME p.relay, p.mid \notin Reliable
       PROVE  /\ \A l \in Links : (\E e \in l : Has(p, e)') => \A e \in l : Served(p, e)'
              /\ \A f \in inflight' : MessageOf(f.p) = m => \E e \in f.src_if : Has(p, e)'
              /\ published'[d][m] = 1
  <2>1. dst_if = NoIf /\ p.dst = Mcast /\ unicast = {} /\ links = Interfaces(d)
    BY <1>1, <1>10, <1>11, <1>12, Zenon
  <2>2. Has(p, d)'
    BY <1>3, <1>5, <1>12, Zenon DEF Has, Put
  <2> HIDE DEF links, unicast, d, m, net
  <2>3. ASSUME NEW l \in Links, NEW x \in l, Has(p, x)', NEW e \in l
        PROVE  Served(p, e)'
    <3>1. x = d /\ e \in Devices /\ l \in links
      BY <1>9, <2>1, <2>3, LinkedDevices, Zenon DEF Interfaces
    <3> QED BY <1>7, <2>2, <3>1, Zenon DEF Served
  <2>4. ASSUME NEW f \in inflight', MessageOf(f.p) = m
        PROVE  \E e \in f.src_if : Has(p, e)'
    <3>1. f.src_if \in links
      BY <1>2, <1>7, <2>1, <2>4, Zenon
    <3> QED BY <2>1, <2>2, <3>1, Zenon DEF Interfaces
  <2>5. published'[d][m] = 1
    BY <1>7, <2>1, Zenon DEF ToBroker
  <2> QED BY <2>3, <2>4, <2>5, Zenon
<1>13. ASSUME p.relay, p.mid \in Reliable, NEW e \in Adjacent(d)
       PROVE  Served(p, e)'
  <2>1. links = Interfaces(d)
    BY <1>1, <1>10, <1>13, Zenon
  <2> HIDE DEF links, d
  <2>2. PICK l \in links : e \in (l \cap Devices) \ {d}
    BY <2>1, LinkedDevices, Zenon DEF Adjacent
  <2> QED BY <1>7, <2>2, Zenon DEF Served
<1>14. ASSUME p.dst \in Devices \ {d}
       PROVE  Served(p, p.dst)'
  <2>1. ToBridge(d, p, net, dst_if)
    BY <1>1, <1>14, AddressAssumption, Zenon DEF ToBridge
  <2> QED BY <1>7, <2>1, Zenon DEF Served
<1>15. ASSUME p.dst = d
       PROVE  published'[d][m] = 1
  <2>1. ToBroker(d, p, dst_if) /\ unicast = {}
    BY <1>1, <1>11, <1>15, AddressAssumption, Zenon DEF ToBroker
  <2> QED BY <1>7, <2>1, Zenon
<1>16. \A e \in Devices \ {d} :
         p.relay \/ p.dst = e => published'[e][m] = IF Has(p, e)' THEN 1 ELSE 0
  BY <1>6, <1>9, Zenon
<1> QED BY <1>1, <1>8, <1>12, <1>13, <1>14, <1>15, <1>16, Zenon DEF DeliveryInv

\* A frame of the network that no fault disturbs.
LEMMA NetDelivery ==
  ASSUME IInv, RouteInv, NEW f \in inflight, Receive(f), NEW s \in sent,
         MessageOf(s) = MessageOf(f.p), DeliveryInv(s), MessageOf(s) \notin disturbed'
  PROVE  DeliveryInv(s)'
<1> DEFINE d == f.to
           p == f.p
           m == MessageOf(s)
           net == TRUE
           rest == inflight \ {f}
<1>1. /\ f \in Frame /\ d \in Devices /\ p \in Packet /\ s \in Packet /\ s.src \in Devices
      /\ Carries(p, s) /\ Started(s)
  <2>1. /\ f \in Frame /\ d \in Devices /\ p \in Packet /\ s \in Packet /\ Carries(p, s) /\ Started(s)
    BY CarriedWasSent, Zenon
  <2> QED BY <2>1, Zenon DEF Packet
<1>2. /\ net \in BOOLEAN /\ net /\ HandlePacket(d, p, net, f.src_if, NoIf, rest)
      /\ p.dst \in {Mcast, d} /\ (d = p.src => p.dst = Mcast)
  BY Zenon DEF Receive, Pollin, RouteInv, FrameInv
<1>3. \A g \in inflight : g.src_if \subseteq Devices
  BY LinkedDevices, Zenon DEF IInv, TypeOK, Frame, Bridge, NoIf
<1>4. \/ Duplicate(d, p, net, rest)
      \/ ForwardPacket(d, p, net, f.src_if, NoIf, rest)
  <2>1. ~ Untrackable(d, p, net, rest)
    BY Zenon DEF Untrackable
  <2>2. ~ ForwardFails(d, p, net, f.src_if, NoIf, rest)
    BY Zenon DEF ForwardFails, Disturb
  <2> QED BY <1>2, <2>1, <2>2, Zenon DEF HandlePacket
<1>5. CASE Duplicate(d, p, net, rest)
  <2>1. /\ UNCHANGED <<accepted_at, published>> /\ inflight' = inflight \ {f}
        /\ LookupKey(d, p, net, Aged(de_duplication_map_[d])) \in DOMAIN Aged(de_duplication_map_[d])
    BY <1>5, Zenon DEF Duplicate, IsDuplicate
  <2>2. Has(s, d)
    BY <2>1, DuplicateHas, Zenon
  <2>3. \A e \in Devices : Has(s, e)' <=> Has(s, e)
    BY <2>1, Zenon DEF Has
  <2>4. ASSUME NEW e \in Devices, Served(s, e)
        PROVE  Served(s, e)'
    BY <2>1, <2>2, <2>3, <2>4, Zenon DEF Served, Coming
  <2>5. Started(s)'
    BY <1>1, <2>1, Zenon DEF Started
  <2> QED BY <1>1, <1>3, <2>1, <2>3, <2>4, <2>5, KeptDelivery, Zenon
<1>6. CASE ForwardPacket(d, p, net, f.src_if, NoIf, rest)
  <2> DEFINE links == ToNetworkInterfaces(Interfaces(d), p, net, f.src_if, NoIf)
  <2>1. /\ Identity(d, p, net) = FrameKey(s)
        /\ LookupKey(d, p, net, Aged(de_duplication_map_[d]))
             \notin DOMAIN Aged(de_duplication_map_[d])
        /\ disturbed' = disturbed
    <3>1. Identity(d, p, net) = FrameKey(s)
      BY <1>1, <1>2, KeyOfFrame, CarriedPacket, Zenon
    <3> QED BY <1>6, <3>1, Zenon DEF ForwardPacket, IsNew
  <2>2. /\ accepted_at'[d] = Put(accepted_at[d], FrameKey(s), now)
        /\ \A e \in Devices \ {d} : accepted_at'[e] = accepted_at[e]
    BY <1>1, <1>6, <2>1, Zenon DEF ForwardPacket, Accept, IInv, TypeOK
  <2>3. ~ Has(s, d) /\ s.src # d
    <3>1. Unfailed(s)
      BY <2>1, Zenon DEF Unfailed, RouteInv
    <3>2. ~ Has(s, d)
      BY <2>1, <3>1, OnlyOnce, Zenon
    <3>3. ASSUME s.src = d
          PROVE  FALSE
      <4>1. p = s /\ PacketKey(s) = FrameKey(s)
        BY <1>1, <1>2, <3>3, CarriedPacket, KeyOfPacket, Zenon
      <4> QED BY <1>1, <3>2, <3>3, <4>1, Zenon DEF Started, Has
    <3> QED BY <3>2, <3>3, Zenon
  <2>4. /\ Has(s, d)' /\ Started(s)'
        /\ \A e \in Devices \ {d} : Has(s, e)' <=> Has(s, e)
    BY <1>1, <2>2, <2>3, Zenon DEF Has, Started, Put
  <2>5. /\ \A l \in links : \A x \in (l \cap Devices) \ {d} : Coming(s, x)'
        /\ \A g \in inflight' : g \in inflight \/ g.src_if \in links
        /\ inflight \ {f} \subseteq inflight'
        /\ published'[d][m] = published[d][m] + 1
    <3> DEFINE any == NoIf
               src_if == f.src_if
    <3>1. Unicast(d, p, net, any) = {}
      BY <1>1, <1>2, UnicastPackets, Zenon
    <3>2. /\ ForwardPacket(d, p, net, src_if, any, rest) /\ d \in Devices /\ net \in BOOLEAN
          /\ ToBroker(d, p, any) /\ any \in Links \cup {NoIf} /\ p \in Packet
      BY <1>1, <1>2, <1>6, Zenon DEF ToBroker
    <3> HIDE DEF d, p, net, rest, any, src_if
    <3>3. /\ rest \subseteq inflight'
          /\ \A l \in ToNetworkInterfaces(Interfaces(d), p, net, src_if, any) :
               \A x \in (l \cap Devices) \ {d} :
                 \E g \in inflight' : g.to = x /\ MessageOf(g.p) = MessageOf(p)
          /\ \A g \in inflight' :
               g \in rest \/ g.src_if \in ToNetworkInterfaces(Interfaces(d), p, net, src_if, any)
          /\ published'[d][MessageOf(p)] = published[d][MessageOf(p)] + 1
      <4>1. IsForwarded(d, p, net, src_if, any, rest)
        BY <3>2, ForwardedDelivery, Zenon
      <4> QED BY <3>1, <3>2, <4>1, Zenon DEF IsForwarded
    <3> QED BY <3>3 DEF any, src_if, rest, p, Coming
  <2>6. \A e \in Devices \ {d} : published'[e][m] = published[e][m]
    <3>1. published' = [published EXCEPT ![d][m] = published'[d][m]]
      BY <1>1, <1>6, KeyOfPacket, Zenon DEF ForwardPacket, Forward, IInv, TypeOK
    <3> QED BY <3>1, Zenon DEF IInv, TypeOK
  <2>7. ASSUME NEW e \in Devices, Served(s, e)
        PROVE  Served(s, e)'
    BY <2>4, <2>5, <2>7, Zenon DEF Served, Coming
  <2> HIDE DEF m, net
  <2>8. ASSUME s.relay, s.mid \notin Reliable
        PROVE  /\ \A l \in Links : (\E x \in l : Has(s, x)') => \A x \in l : Served(s, x)'
               /\ \A g \in inflight' : MessageOf(g.p) = m => \E x \in g.src_if : Has(s, x)'
               /\ published'[s.src][m] = 1
    <3>1. p = s /\ s.dst = Mcast
      BY <1>1, <2>8, CarriedPacket, Zenon DEF DeliveryInv
    <3>2. links = Interfaces(d) \ {f.src_if}
      BY <1>2, <2>8, <3>1, Zenon DEF ToNetworkInterfaces
    <3> HIDE DEF links
    <3>3. ASSUME NEW l \in Links, NEW x \in l, Has(s, x)', NEW y \in l
          PROVE  Served(s, y)'
      <4>1. x \in Devices /\ y \in Devices
        BY LinkedDevices, Zenon
      <4>2. CASE \E z \in l : Has(s, z)
        BY <2>7, <2>8, <4>1, <4>2, Zenon DEF DeliveryInv
      <4>3. CASE ~ \E z \in l : Has(s, z)
        <5>1. x = d
          BY <2>4, <3>3, <4>1, <4>3, Zenon
        <5>2. l # f.src_if
          BY <2>8, <4>3, Zenon DEF DeliveryInv
        <5>3. l \in links
          BY <3>2, <5>1, <5>2, Zenon DEF Interfaces
        <5> QED BY <2>4, <2>5, <4>1, <5>3, Zenon DEF Served
      <4> QED BY <4>2, <4>3, Zenon
    <3>4. ASSUME NEW g \in inflight', MessageOf(g.p) = m
          PROVE  \E x \in g.src_if : Has(s, x)'
      <4>1. CASE g \in inflight
        <5>1. PICK x \in g.src_if : Has(s, x)
          BY <2>8, <3>4, <4>1, Zenon DEF DeliveryInv, m
        <5>2. x \in Devices
          BY <1>3, <4>1, <5>1, Zenon
        <5> QED BY <2>4, <5>1, <5>2, Zenon
      <4>2. CASE g \notin inflight
        <5>1. d \in g.src_if
          BY <2>5, <3>2, <4>2, Zenon DEF Interfaces
        <5> QED BY <2>4, <5>1, Zenon
      <4> QED BY <4>1, <4>2, Zenon
    <3>5. published'[s.src][m] = 1
      BY <1>1, <2>3, <2>6, <2>8, Zenon DEF DeliveryInv, m
    <3> QED BY <3>3, <3>4, <3>5, Zenon
  <2>9. ASSUME s.relay, s.mid \in Reliable
        PROVE  \A x \in Adjacent(s.src) : Served(s, x)'
    BY <2>7, <2>9, LinkedDevices, Zenon DEF DeliveryInv
  <2>10. s.dst \in Devices \ {s.src} => Served(s, s.dst)'
    BY <2>7, Zenon DEF DeliveryInv
  <2>11. s.dst = s.src => published'[s.src][m] = 1
    BY <1>1, <2>3, <2>6, Zenon DEF DeliveryInv, m
  <2>12. ASSUME NEW e \in Devices \ {s.src}, s.relay \/ s.dst = e
         PROVE  published'[e][m] = IF Has(s, e)' THEN 1 ELSE 0
    <3>1. published[e][m] = IF Has(s, e) THEN 1 ELSE 0
      BY <2>12, Zenon DEF DeliveryInv, m
    <3>2. CASE e = d
      <4>1. published[d][m] = 0 /\ published'[d][m] = published[d][m] + 1
        BY <2>3, <2>5, <3>1, <3>2, Zenon
      <4>2. published'[d][m] = 1
        <5> HIDE DEF d, m
        <5> QED BY <4>1
      <4> QED BY <2>4, <3>2, <4>2, Zenon
    <3>3. CASE e # d
      BY <2>4, <2>6, <3>1, <3>3, Zenon
    <3> QED BY <3>2, <3>3, Zenon
  <2>13. s.relay => s.dst = Mcast
    BY Zenon DEF DeliveryInv
  <2> QED BY <2>4, <2>8, <2>9, <2>10, <2>11, <2>12, <2>13, Zenon DEF DeliveryInv, m
<1> QED BY <1>4, <1>5, <1>6, Zenon

\* Nothing is published of a message that was not sent.
LEMMA UnsentPublished ==
  ASSUME IInv, NEW d \in Devices, NEW p \in Packet, NEW net \in BOOLEAN, NEW rest, NEW src_if,
         NEW dst_if \in Links \cup {NoIf}, HandlePacket(d, p, net, src_if, dst_if, rest),
         NEW m \in Devices \X Mids, m # MessageOf(p), NEW e \in Devices
  PROVE  published'[e][m] = published[e][m]
<1>1. CASE Duplicate(d, p, net, rest) \/ Untrackable(d, p, net, rest)
  BY <1>1, DroppedFrames, Zenon
<1>2. CASE \/ ForwardPacket(d, p, net, src_if, dst_if, rest)
           \/ ForwardFails(d, p, net, src_if, dst_if, rest)
  <2>1. IsTaken(d, p, net, src_if, dst_if, rest)
    BY <1>2, TakenPacket, Zenon
  <2> QED BY <2>1, Zenon DEF IsTaken
<1> QED BY <1>1, <1>2, Zenon DEF HandlePacket

\* Steps that only move frames and time.
LEMMA QuietFlood ==
  ASSUME FloodInv, RouteInv', UNCHANGED <<sent, published, accepted_at>>, IInv',
         disturbed \subseteq disturbed',
         \A g \in inflight : g \in inflight' \/ MessageOf(g.p) \in disturbed',
         \A g \in inflight' : \E f \in inflight : g.p = f.p /\ g.src_if = f.src_if
  PROVE  FloodInv'
<1>1. \A m \in Devices \X Mids : WasSent(m)' <=> WasSent(m)
  BY Zenon DEF WasSent
<1>2. ASSUME NEW s \in sent, MessageOf(s) \notin disturbed'
      PROVE  DeliveryInv(s)'
  <2>1. DeliveryInv(s) /\ s \in Packet
    BY <1>2, Zenon DEF FloodInv, IInv, TypeOK
  <2>2. \A e \in Devices : Has(s, e)' <=> Has(s, e)
    BY Zenon DEF Has
  <2>3. ASSUME NEW e \in Devices, Served(s, e)
        PROVE  Served(s, e)'
    BY <1>2, <2>2, <2>3, Zenon DEF Served, Coming
  <2>4. Started(s)'
    BY <2>1, Zenon DEF DeliveryInv, Started
  <2>5. \A g \in inflight : g.src_if \subseteq Devices
    BY LinkedDevices, Zenon DEF FloodInv, IInv, TypeOK, Frame, Bridge, NoIf
  <2>6. ASSUME NEW g \in inflight', MessageOf(g.p) = MessageOf(s)
        PROVE  \E h \in inflight : MessageOf(h.p) = MessageOf(s) /\ h.src_if = g.src_if
    BY <2>6, Zenon
  <2> QED BY <2>1, <2>2, <2>3, <2>4, <2>5, <2>6, KeptDelivery, Zenon
<1> QED BY <1>1, <1>2, Zenon DEF FloodInv

\* A CMDU of the local bus.
LEMMA LocalFlood ==
  ASSUME FloodInv, IInv', RouteInv', NEW p \in Packet, NEW dst_if \in Links \cup {NoIf},
         CmduTx(p.src, p, dst_if)
  PROVE  FloodInv'
<1> DEFINE d == p.src
           net == FALSE
           any == NoIf
           rest == inflight
<1>1. /\ IInv /\ RouteInv /\ net \in BOOLEAN /\ d \in Devices /\ rest \in SUBSET inflight
      /\ HandlePacket(d, p, net, any, dst_if, rest) /\ ~ WasSent(MessageOf(p))
      /\ sent' = sent \cup {p} /\ sent \subseteq Packet /\ rest \in SUBSET Frame
      /\ MessageOf(p) \in Devices \X Mids
  BY KeyOfPacket, Zenon DEF FloodInv, CmduTx, Packet, IInv, TypeOK, WasSent
<1>2. HandledWell(d, p, net, rest)
  BY <1>1, HandledPacket, Zenon DEF Fresh
<1>3. disturbed \subseteq disturbed'
  BY <1>1, Zenon DEF HandlePacket, Duplicate, Untrackable, ForwardPacket, ForwardFails, Disturb
<1>4. DeliveryInv(p)' \/ MessageOf(p) \in disturbed'
  BY <1>1, LocalDelivery, Zenon DEF FloodInv
<1>5. ASSUME NEW s \in sent, MessageOf(s) \notin disturbed'
      PROVE  DeliveryInv(s)'
  <2>1. DeliveryInv(s) /\ MessageOf(s) # MessageOf(p) /\ s \in Packet
    BY <1>1, <1>3, <1>5, Zenon DEF FloodInv, WasSent
  <2>2. \A g \in inflight \ rest : MessageOf(g.p) = MessageOf(p)
    BY Zenon
  <2> HIDE DEF d, net, any, rest
  <2>3. IInv /\ d \in Devices /\ net \in BOOLEAN /\ rest \in SUBSET inflight
        /\ HandlePacket(d, p, net, any, dst_if, rest)
    BY <1>1, Zenon
  <2> QED BY <1>2, <2>1, <2>2, <2>3, OtherDelivery, Zenon
<1>6. ASSUME NEW m \in Devices \X Mids, ~ WasSent(m)', NEW e \in Devices
      PROVE  published'[e][m] = 0
  <2>1. ~ WasSent(m) /\ m # MessageOf(p)
    BY <1>1, <1>6, Zenon DEF WasSent
  <2> HIDE DEF d, net, any, rest
  <2>2. published'[e][m] = published[e][m]
    BY <1>1, <2>1, UnsentPublished, Zenon
  <2> QED BY <2>1, <2>2, Zenon DEF FloodInv
<1> QED BY <1>1, <1>4, <1>5, <1>6, Zenon DEF FloodInv

\* A frame of the network.
LEMMA NetFlood ==
  ASSUME FloodInv, IInv', RouteInv', NEW f \in inflight, Receive(f)
  PROVE  FloodInv'
<1> DEFINE d == f.to
           p == f.p
           net == TRUE
           any == NoIf
           rest == inflight \ {f}
           src_if == f.src_if
<1>1. /\ IInv /\ RouteInv /\ net \in BOOLEAN /\ d \in Devices /\ rest \in SUBSET inflight
      /\ HandlePacket(d, p, net, src_if, any, rest) /\ p \in Packet /\ any \in Links \cup {NoIf}
      /\ sent' = sent /\ sent \subseteq Packet /\ rest \in SUBSET Frame
      /\ WasSent(MessageOf(p))
  BY Zenon DEF FloodInv, Receive, Pollin, Frame, IInv, TypeOK, SentInv
<1>2. HandledWell(d, p, net, rest)
  BY <1>1, HandledPacket, Zenon DEF Fresh
<1>3. disturbed \subseteq disturbed'
  BY <1>1, Zenon DEF HandlePacket, Duplicate, Untrackable, ForwardPacket, ForwardFails, Disturb
<1>4. ASSUME NEW s \in sent, MessageOf(s) \notin disturbed'
      PROVE  DeliveryInv(s)'
  <2>1. DeliveryInv(s) /\ s \in Packet
    BY <1>1, <1>3, <1>4, Zenon DEF FloodInv
  <2>2. CASE MessageOf(s) = MessageOf(p)
    BY <1>1, <1>4, <2>1, <2>2, NetDelivery, Zenon
  <2>3. CASE MessageOf(s) # MessageOf(p)
    <3>1. \A g \in inflight \ rest : MessageOf(g.p) = MessageOf(p)
      BY Zenon
    <3> HIDE DEF d, p, net, any, rest, src_if
    <3>2. IInv /\ d \in Devices /\ p \in Packet /\ net \in BOOLEAN /\ rest \in SUBSET inflight
          /\ any \in Links \cup {NoIf} /\ HandlePacket(d, p, net, src_if, any, rest)
      BY <1>1, Zenon
    <3> QED BY <1>2, <2>1, <2>3, <3>1, <3>2, OtherDelivery, Zenon
  <2> QED BY <2>2, <2>3, Zenon
<1>5. ASSUME NEW m \in Devices \X Mids, ~ WasSent(m)', NEW e \in Devices
      PROVE  published'[e][m] = 0
  <2>1. ~ WasSent(m) /\ m # MessageOf(p)
    BY <1>1, <1>5, Zenon DEF WasSent
  <2> HIDE DEF d, p, net, any, rest, src_if
  <2>2. published'[e][m] = published[e][m]
    BY <1>1, <2>1, UnsentPublished, Zenon
  <2> QED BY <2>1, <2>2, Zenon DEF FloodInv
<1> QED BY <1>1, <1>4, <1>5, Zenon DEF FloodInv

\* Every step keeps the invariant.
LEMMA FloodStep ==
  ASSUME FloodInv, [Next]_vars
  PROVE  FloodInv'
<1>1. IInv' /\ RouteInv'
  BY Step, RouteStep, Zenon DEF FloodInv
<1>2. ASSUME NEW t \in Traffic, CmduTx(t[1].src, t[1], t[2])
      PROVE  FloodInv'
  BY <1>1, <1>2, LocalFlood, TrafficAssumption, Zenon
<1>3. ASSUME NEW f \in inflight, Receive(f)
      PROVE  FloodInv'
  BY <1>1, <1>3, NetFlood, Zenon
<1>4. ASSUME NEW f \in inflight, Lose(f)
      PROVE  FloodInv'
  BY <1>1, <1>4, QuietFlood, Zenon DEF Lose, Disturb
<1>5. ASSUME NEW f \in inflight, DuplicateFrame(f)
      PROVE  FloodInv'
  <2>1. [f EXCEPT !.copy = TRUE].p = f.p /\ [f EXCEPT !.copy = TRUE].src_if = f.src_if
    BY Zenon DEF FloodInv, IInv, TypeOK, Frame
  <2> QED BY <1>1, <1>5, <2>1, QuietFlood, Zenon DEF DuplicateFrame
<1>6. CASE Tick \/ UNCHANGED vars
  BY <1>1, <1>6, QuietFlood, Zenon DEF Tick, vars, ghostVars
<1> QED BY <1>2, <1>3, <1>4, <1>5, <1>6, Zenon DEF Next

\* The invariant of the delivery, in every reachable state.
THEOREM FloodInvariance == Spec => []FloodInv
<1>1. Init => FloodInv
  <2> SUFFICES ASSUME Init
               PROVE  FloodInv
    BY Zenon
  <2>1. IInv /\ RouteInv
    BY Start, RouteStart, Zenon
  <2>2. \A m \in Devices \X Mids : \A d \in Devices : published[d][m] = 0
    BY Zenon DEF Init
  <2> QED BY <2>1, <2>2, Zenon DEF Init, FloodInv
<1>2. FloodInv /\ [Next]_vars => FloodInv'
  BY FloodStep, Zenon
<1> QED BY <1>1, <1>2, PTL DEF Spec

\* A device that has a settled message or is served has it: no frame is on its way.
LEMMA SettledMessage ==
  ASSUME FloodInv, NEW s \in sent, Settled(s)
  PROVE  /\ DeliveryInv(s) /\ s \in Packet /\ s.src \in Devices
         /\ \A d : Served(s, d) => Has(s, d)
<1>1. DeliveryInv(s) /\ s \in Packet
  BY Zenon DEF Settled, FloodInv, IInv, TypeOK
<1>2. \A d : Served(s, d) => Has(s, d)
  BY Zenon DEF Settled, Served, Coming
<1> QED BY <1>1, <1>2, Zenon DEF Packet

\* forward_packet() floods: when a relayed multicast that is not reliable has left the network
\* undisturbed, every device of the network has published it once, and a unicast packet was
\* published once by its destination.
THEOREM EveryDestinationHearsHolds == Spec => []EveryDestinationHears
<1>1. FloodInv => EveryDestinationHears
  <2> SUFFICES ASSUME FloodInv, NEW s \in sent, Settled(s)
               PROVE  /\ s.relay /\ s.mid \notin Reliable =>
                           \A d \in Devices : published[d][MessageOf(s)] = 1
                      /\ s.dst \in Devices => published[s.dst][MessageOf(s)] = 1
    BY Zenon DEF EveryDestinationHears
  <2>1. /\ DeliveryInv(s) /\ s \in Packet /\ s.src \in Devices
        /\ \A d : Served(s, d) => Has(s, d)
    BY SettledMessage, Zenon
  <2>2. ASSUME s.relay, s.mid \notin Reliable, NEW d \in Devices
        PROVE  published[d][MessageOf(s)] = 1
    <3> DEFINE S == {e \in Devices : Has(s, e)}
    <3>1. Has(s, s.src)
      BY <2>1, <2>2, KeyOfPacket, Zenon DEF DeliveryInv, Started, Has
    <3>2. ASSUME NEW l \in Links, l \cap S # {}
          PROVE  l \subseteq S
      <4>1. \A e \in l : Has(s, e)
        BY <2>1, <2>2, <3>2, Zenon DEF DeliveryInv
      <4> QED BY <4>1, LinkedDevices, Zenon
    <3>3. S \in SUBSET Devices /\ S # {}
      BY <2>1, <3>1, Zenon
    <3>4. S = Devices
      <4> HIDE DEF S
      <4> QED BY <3>2, <3>3, ConnectedAssumption, Zenon
    <3>5. Has(s, d)
      BY <3>4, Zenon
    <3>6. CASE d = s.src
      BY <2>1, <2>2, <3>6, Zenon DEF DeliveryInv
    <3>7. CASE d # s.src
      BY <2>1, <2>2, <3>5, <3>7, Zenon DEF DeliveryInv
    <3> QED BY <3>6, <3>7, Zenon
  <2>3. ASSUME s.dst \in Devices
        PROVE  published[s.dst][MessageOf(s)] = 1
    <3>1. CASE s.dst = s.src
      BY <2>1, <3>1, Zenon DEF DeliveryInv
    <3>2. CASE s.dst # s.src
      BY <2>1, <2>3, <3>2, Zenon DEF DeliveryInv
    <3> QED BY <3>1, <3>2, Zenon
  <2> QED BY <2>2, <2>3, Zenon
<1> QED BY FloodInvariance, <1>1, PTL

\* forward_packet() sends a reliable multicast twice and de_duplicate_packet() makes one of
\* it: a device on a link of the sender publishes it exactly once, and no other device
\* publishes it twice.
THEOREM NeighboursHearReliableOnceHolds == Spec => []NeighboursHearReliableOnce
<1>1. FloodInv => NeighboursHearReliableOnce
  <2> SUFFICES ASSUME FloodInv, NEW s \in sent, Settled(s), s.mid \in Reliable, s.relay,
                      NEW d \in Devices \ {s.src}
               PROVE  published[d][MessageOf(s)] \in IF d \in Adjacent(s.src) THEN {1} ELSE {0, 1}
    BY Zenon DEF NeighboursHearReliableOnce
  <2>1. /\ DeliveryInv(s) /\ \A e : Served(s, e) => Has(s, e)
    BY SettledMessage, Zenon
  <2>2. published[d][MessageOf(s)] = IF Has(s, d) THEN 1 ELSE 0
    BY <2>1, Zenon DEF DeliveryInv
  <2>3. d \in Adjacent(s.src) => Has(s, d)
    BY <2>1, Zenon DEF DeliveryInv
  <2> QED BY <2>2, <2>3, Zenon
<1> QED BY FloodInvariance, <1>1, PTL

=============================================================================
