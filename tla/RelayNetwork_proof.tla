-------------------------- MODULE RelayNetwork_proof --------------------------
(***************************************************************************)
(* Proofs about RelayNetwork for any devices, links, message identities,    *)
(* ages and bounds.                                                         *)
(***************************************************************************)
EXTENDS RelayNetwork, FiniteSetTheorems, TLAPS

\* A de-duplication map within its limit, with no entry from the future.
MapInv(map) ==
  /\ IsMap(map, DeDuplicationKey)
  /\ IsFiniteSet(DOMAIN map)
  /\ Cardinality(DOMAIN map) <= MaxThreads
  /\ \A k \in DOMAIN map : map[k] <= now

\* The keys under which device d may have stored the packet with this identity.
Class(d, id) ==
  {id} \cup (IF id.mid \in Reliable /\ id.dst = Mcast THEN {[id EXCEPT !.dst = d]} ELSE {})

\* Each packet that d took for a new one is still in its map, unless forwarding it failed
\* or it is older than kMaximumDeDuplicationAge.
Remembers(d, accepted, map, fails) ==
  \A id \in DOMAIN accepted :
    \/ <<d, id>> \in fails
    \/ now > accepted[id] + MaxDeDupAge
    \/ \E k \in Class(d, id) : k \in DOMAIN map /\ accepted[id] <= map[k]

\* The timeout of the next scan is not too late for any neighbour.
NeighboursInv(d) ==
  /\ removed_timeout_[d] <= now + MaxNeighbourAge
  /\ \A n \in DOMAIN neighbors_map_[d] :
       /\ removed_timeout_[d] <= neighbors_map_[d][n] + MaxNeighbourAge + 1
       /\ handled_at[d] <= neighbors_map_[d][n] + MaxNeighbourAge + 1

WasSent(message) == \E s \in sent : MessageOf(s) = message

SentInv ==
  /\ \A f \in inflight : WasSent(MessageOf(f.p))
  /\ \A d \in Devices : \A id \in DOMAIN accepted_at[d] : WasSent(<<id.src, id.mid>>)

DeviceInv ==
  \A d \in Devices : /\ MapInv(de_duplication_map_[d])
                     /\ Remembers(d, accepted_at[d], de_duplication_map_[d], failed)
                     /\ NeighboursInv(d)

IInv == TypeOK /\ SentInv /\ DeviceInv

-----------------------------------------------------------------------------
(* Maps *)

\* What aging leaves of a map.
LEMMA AgedMap ==
  ASSUME NEW map, now \in Nat, MapInv(map)
  PROVE  /\ MapInv(Aged(map))
         /\ \A k \in DOMAIN map : now > map[k] + MaxDeDupAge \/ k \in DOMAIN Aged(map)
         /\ \A k \in DOMAIN Aged(map) : k \in DOMAIN map /\ Aged(map)[k] = map[k]
<1>1. DOMAIN Aged(map) \subseteq DOMAIN map
  BY Zenon DEF Aged, Only
<1>2. IsFiniteSet(DOMAIN Aged(map)) /\ Cardinality(DOMAIN Aged(map)) <= Cardinality(DOMAIN map)
  BY <1>1, FS_Subset, Zenon DEF MapInv
<1>3. Cardinality(DOMAIN Aged(map)) <= MaxThreads
  BY <1>1, <1>2, FS_CardinalityType, ThreadsAssumption DEF MapInv
<1>4. /\ \A k \in DOMAIN map : now > map[k] + MaxDeDupAge \/ k \in DOMAIN Aged(map)
      /\ \A k \in DOMAIN Aged(map) : k \in DOMAIN map /\ Aged(map)[k] = map[k]
  BY Zenon DEF Aged, Only, Expired
<1>5. IsMap(Aged(map), DeDuplicationKey)
  BY <1>1, <1>4, Zenon DEF MapInv, IsMap, Aged, Only
<1> QED BY <1>1, <1>2, <1>3, <1>4, <1>5, Zenon DEF MapInv

\* Refreshing an entry, or adding one below the limit.
LEMMA PutMap ==
  ASSUME NEW map, NEW key \in DeDuplicationKey, now \in Nat, MapInv(map),
         key \in DOMAIN map \/ Cardinality(DOMAIN map) < MaxThreads
  PROVE  MapInv(Put(map, key, now))
<1>1. DOMAIN Put(map, key, now) = DOMAIN map \cup {key}
  BY Zenon DEF Put
<1>2. /\ IsFiniteSet(DOMAIN map \cup {key})
      /\ Cardinality(DOMAIN map \cup {key}) <= MaxThreads
  <2>1. Cardinality(DOMAIN map) \in Nat
    BY FS_CardinalityType, Zenon DEF MapInv
  <2>2. /\ IsFiniteSet(DOMAIN map \cup {key})
        /\ Cardinality(DOMAIN map \cup {key}) =
             IF key \in DOMAIN map THEN Cardinality(DOMAIN map) ELSE Cardinality(DOMAIN map) + 1
    <3>1. IsFiniteSet(DOMAIN map)
      BY Zenon DEF MapInv
    <3> QED BY <3>1, FS_AddElement, Zenon
  <2>3. Cardinality(DOMAIN map) <= MaxThreads
    BY Zenon DEF MapInv
  <2> QED BY <2>1, <2>2, <2>3, ThreadsAssumption
<1>3. \A k \in DOMAIN map \cup {key} :
        Put(map, key, now)[k] \in Nat /\ Put(map, key, now)[k] <= now
  BY DEF Put, MapInv, IsMap
<1>4. IsMap(Put(map, key, now), DeDuplicationKey)
  BY <1>1, <1>3, Zenon DEF IsMap, Put, MapInv
<1> QED BY <1>1, <1>2, <1>3, <1>4, Zenon DEF MapInv

\* Erasing entries.
LEMMA OnlyMap ==
  ASSUME NEW map, NEW S, MapInv(map)
  PROVE  MapInv(Only(map, S))
<1>1. DOMAIN Only(map, S) \subseteq DOMAIN map
  BY Zenon DEF Only
<1>2. /\ IsFiniteSet(DOMAIN Only(map, S))
      /\ Cardinality(DOMAIN Only(map, S)) <= Cardinality(DOMAIN map)
  BY <1>1, FS_Subset, Zenon DEF MapInv
<1>3. Cardinality(DOMAIN Only(map, S)) <= MaxThreads
  BY <1>1, <1>2, FS_CardinalityType, ThreadsAssumption DEF MapInv
<1> QED BY <1>1, <1>2, <1>3, Zenon DEF MapInv, IsMap, Only

\* A packet is stored under a key of its identity.
LEMMA LookupInClass ==
  ASSUME NEW d \in Devices, NEW p \in Packet, NEW net \in BOOLEAN, NEW map
  PROVE  /\ LookupKey(d, p, net, map) \in DeDuplicationKey
         /\ Identity(d, p, net) \in DeDuplicationKey
         /\ LookupKey(d, p, net, map) \in Class(d, Identity(d, p, net))
         /\ Identity(d, p, net).src = p.src /\ Identity(d, p, net).mid = p.mid
  BY AddressAssumption
     DEF LookupKey, Identity, Class, Swapped, PacketKey, Packet, DeDuplicationKey

\* A packet from the network is looked up under every key of its identity.
LEMMA ClassIsSearched ==
  ASSUME NEW d \in Devices, NEW p \in Packet, NEW map,
         LookupKey(d, p, TRUE, map) \notin DOMAIN map
  PROVE  \A k \in Class(d, Identity(d, p, TRUE)) : k \notin DOMAIN map
  BY AddressAssumption
     DEF LookupKey, Identity, Class, Swapped, PacketKey, Packet, DeDuplicationKey

\* What is remembered when entries are kept or refreshed, or are of no accepted packet.
LEMMA RemembersKept ==
  ASSUME NEW d \in Devices, NEW accepted, NEW map, NEW map2, NEW fails, NEW fails2,
         now \in Nat, IsMap(accepted, DeDuplicationKey), MapInv(map), MapInv(map2),
         Remembers(d, accepted, map, fails), fails \subseteq fails2,
         \A k \in DOMAIN map : \/ now > map[k] + MaxDeDupAge
                               \/ k \in DOMAIN map2 /\ map[k] <= map2[k]
                               \/ \A id \in DOMAIN accepted : k \notin Class(d, id)
  PROVE  Remembers(d, accepted, map2, fails2)
<1> SUFFICES ASSUME NEW id \in DOMAIN accepted, <<d, id>> \notin fails2,
                    ~ (now > accepted[id] + MaxDeDupAge)
             PROVE  \E k \in Class(d, id) : k \in DOMAIN map2 /\ accepted[id] <= map2[k]
  BY Zenon DEF Remembers
<1>1. PICK k \in Class(d, id) : k \in DOMAIN map /\ accepted[id] <= map[k]
  BY Zenon DEF Remembers
<1>2. accepted[id] \in Nat /\ map[k] \in Nat
  BY <1>1, Zenon DEF MapInv, IsMap
<1>3. k \in DOMAIN map2 /\ map[k] <= map2[k]
  BY <1>1, <1>2, AgeAssumption
<1>4. map2[k] \in Nat
  BY <1>3, Zenon DEF MapInv, IsMap
<1> QED BY <1>1, <1>2, <1>3, <1>4

\* What is remembered when a packet is accepted.
LEMMA RemembersAccepted ==
  ASSUME NEW d \in Devices, NEW accepted, NEW map, NEW fails, NEW id, now \in Nat,
         Remembers(d, accepted, map, fails),
         <<d, id>> \in fails \/ \E k \in Class(d, id) : k \in DOMAIN map /\ map[k] = now
  PROVE  Remembers(d, Put(accepted, id, now), map, fails)
  BY DEF Remembers, Put

-----------------------------------------------------------------------------
(* handle_packet() *)

\* A local message is a new one; a packet from the network was sent by some local bus.
Fresh(p, net) == ~ net => ~ WasSent(MessageOf(p))

\* The keys that a failed new packet may have erased.
LEMMA ErasedKeys ==
  ASSUME IInv, NEW d \in Devices, NEW p \in Packet, NEW net \in BOOLEAN, NEW dst_if,
         NEW last \in Unicast(d, p, net, dst_if)
  PROVE  last \in Packet /\ MessageOf(last) = MessageOf(p) /\ ~ net
<1>1. DOMAIN neighbors_map_[d] \subseteq Devices
  BY Zenon DEF IInv, TypeOK, IsMap
<1>2. CASE last \in ReliableCopies(d, p, net)
  BY <1>1, <1>2 DEF ReliableCopies, Packet, MessageOf
<1>3. CASE last \notin ReliableCopies(d, p, net)
  BY <1>3, Zenon DEF Unicast, ToBridge
<1> QED BY <1>2, <1>3, Zenon

\* A new packet: the map, and what is remembered when it is accepted.
LEMMA NewPacket ==
  ASSUME IInv, NEW d \in Devices, NEW p \in Packet, NEW net \in BOOLEAN, Fresh(p, net),
         NEW erase, IsNew(d, p, net, erase), NEW fails, failed \subseteq fails,
         \/ erase = {}
         \/ /\ <<d, Identity(d, p, net)>> \in fails
            /\ \/ erase = {PacketKey(p)}
               \/ \E last \in Packet :
                    erase = {PacketKey(last)} /\ MessageOf(last) = MessageOf(p) /\ ~ net
  PROVE  /\ MapInv(de_duplication_map_'[d])
         /\ Remembers(d, Put(accepted_at[d], Identity(d, p, net), now),
                      de_duplication_map_'[d], fails)
<1> DEFINE old == de_duplication_map_[d]
           aged == Aged(old)
           key == LookupKey(d, p, net, aged)
           put == Put(aged, key, now)
           new == Only(put, DeDuplicationKey \ erase)
<1>1. /\ now \in Nat /\ MapInv(old) /\ Remembers(d, accepted_at[d], old, failed)
      /\ IsMap(accepted_at[d], DeDuplicationKey)
  BY Zenon DEF IInv, TypeOK, DeviceInv
<1>2. /\ key \notin DOMAIN aged /\ Cardinality(DOMAIN aged) < MaxThreads
      /\ de_duplication_map_'[d] = new
  BY Zenon DEF IsNew, Erased, IInv, TypeOK
<1>3. /\ MapInv(aged)
      /\ \A k \in DOMAIN old : now > old[k] + MaxDeDupAge \/ k \in DOMAIN aged
      /\ \A k \in DOMAIN aged : k \in DOMAIN old /\ aged[k] = old[k]
  BY <1>1, AgedMap, Zenon
<1>4. /\ key \in DeDuplicationKey /\ key \in Class(d, Identity(d, p, net))
      /\ key = PacketKey(p) \/ PacketKey(p) \notin DOMAIN aged
  BY LookupInClass, Zenon DEF LookupKey
<1>5. MapInv(new)
  <2>1. MapInv(put)
    BY <1>1, <1>2, <1>3, <1>4, PutMap, Zenon
  <2> QED BY <2>1, OnlyMap, Zenon
<1>6. \A k \in DOMAIN aged : k \notin erase \/ \A id \in DOMAIN accepted_at[d] : k \notin Class(d, id)
  <2>1. CASE erase = {}
    BY <2>1, Zenon
  <2>2. CASE erase = {PacketKey(p)}
    BY <2>2, <1>2, <1>4, Zenon
  <2>3. CASE \E last \in Packet :
               erase = {PacketKey(last)} /\ MessageOf(last) = MessageOf(p) /\ ~ net
    <3>1. PICK last \in Packet :
            erase = {PacketKey(last)} /\ MessageOf(last) = MessageOf(p) /\ ~ net
      BY <2>3, Zenon
    <3>2. PacketKey(last).src = p.src /\ PacketKey(last).mid = p.mid
      BY <3>1, Zenon DEF PacketKey, MessageOf
    <3>3. ASSUME NEW id \in DOMAIN accepted_at[d]
          PROVE  PacketKey(last) \notin Class(d, id)
      <4>1. id \in DeDuplicationKey /\ WasSent(<<id.src, id.mid>>)
        BY <1>1, Zenon DEF IInv, SentInv, IsMap
      <4>2. <<id.src, id.mid>> # <<p.src, p.mid>>
        BY <4>1, <3>1, Zenon DEF Fresh, MessageOf
      <4>3. \A k \in Class(d, id) : k.src = id.src /\ k.mid = id.mid
        BY <4>1, Zenon DEF Class, DeDuplicationKey
      <4> QED BY <4>2, <4>3, <3>2, Zenon
    <3> QED BY <3>1, <3>3, Zenon
  <2> QED BY <2>1, <2>2, <2>3, Zenon
<1>7. \A k \in DOMAIN old : \/ now > old[k] + MaxDeDupAge
                            \/ k \in DOMAIN new /\ old[k] <= new[k]
                            \/ \A id \in DOMAIN accepted_at[d] : k \notin Class(d, id)
  <2> SUFFICES ASSUME NEW k \in DOMAIN aged, k \notin erase
               PROVE  k \in DOMAIN new /\ old[k] <= new[k]
    BY <1>3, <1>6, Zenon
  <2>1. k \in DeDuplicationKey /\ old[k] \in Nat /\ k # key
    BY <1>1, <1>2, <1>3, Zenon DEF MapInv, IsMap
  <2>2. k \in DOMAIN new /\ new[k] = aged[k]
    BY <2>1, Zenon DEF Only, Put
  <2> QED BY <2>1, <2>2, <1>3
<1>8. Remembers(d, accepted_at[d], new, fails)
  BY <1>1, <1>5, <1>7, RemembersKept, Zenon
<1>9. \/ <<d, Identity(d, p, net)>> \in fails
      \/ \E k \in Class(d, Identity(d, p, net)) : k \in DOMAIN new /\ new[k] = now
  <2>1. CASE erase = {}
    <3>1. key \in DOMAIN new /\ new[key] = now
      BY <2>1, <1>4, Zenon DEF Only, Put
    <3> QED BY <3>1, <1>4, Zenon
  <2> QED BY <2>1, Zenon
<1>10. Remembers(d, Put(accepted_at[d], Identity(d, p, net), now), new, fails)
  BY <1>1, <1>8, <1>9, RemembersAccepted, Zenon
<1> QED BY <1>2, <1>5, <1>10, Zenon

\* A duplicate, or a packet that cannot be tracked.
LEMMA DroppedPacket ==
  ASSUME IInv, NEW d \in Devices, NEW p \in Packet, NEW net \in BOOLEAN,
         IsDuplicate(d, p, net) \/ IsUntrackable(d, p, net)
  PROVE  /\ MapInv(de_duplication_map_'[d])
         /\ Remembers(d, accepted_at[d], de_duplication_map_'[d], failed)
<1> DEFINE old == de_duplication_map_[d]
           aged == Aged(old)
           key == LookupKey(d, p, net, aged)
           put == Put(aged, key, now)
<1>1. /\ now \in Nat /\ MapInv(old) /\ Remembers(d, accepted_at[d], old, failed)
      /\ IsMap(accepted_at[d], DeDuplicationKey)
  BY Zenon DEF IInv, TypeOK, DeviceInv
<1>2. /\ MapInv(aged)
      /\ \A k \in DOMAIN old : now > old[k] + MaxDeDupAge \/ k \in DOMAIN aged
      /\ \A k \in DOMAIN aged : k \in DOMAIN old /\ aged[k] = old[k] /\ old[k] \in Nat
  BY <1>1, AgedMap, Zenon DEF MapInv, IsMap
<1>3. CASE IsDuplicate(d, p, net)
  <2>1. key \in DOMAIN aged /\ key \in DeDuplicationKey /\ de_duplication_map_'[d] = put
    BY <1>3, LookupInClass, Zenon DEF IsDuplicate, IInv, TypeOK
  <2>2. MapInv(put)
    BY <2>1, <1>1, <1>2, PutMap, Zenon
  <2>3. \A k \in DOMAIN aged : k \in DOMAIN put /\ old[k] <= put[k]
    BY <2>1, <1>1, <1>2 DEF Put, MapInv
  <2> QED BY <2>1, <2>2, <2>3, <1>1, <1>2, RemembersKept, Zenon
<1>4. CASE IsUntrackable(d, p, net)
  <2>1. de_duplication_map_'[d] = aged
    BY <1>4, Zenon DEF IsUntrackable, IInv, TypeOK
  <2>2. \A k \in DOMAIN aged : old[k] <= aged[k]
    BY <1>2
  <2> QED BY <2>1, <2>2, <1>1, <1>2, RemembersKept, Zenon
<1> QED BY <1>3, <1>4, Zenon

\* The frames and publications of a packet that is forwarded.
LEMMA ForwardStep ==
  ASSUME IInv, NEW d \in Devices, NEW p \in Packet, NEW rest \in SUBSET Frame,
         NEW broker, NEW links \in SUBSET Links, NEW unicast \in SUBSET Packet,
         \A c \in unicast : c.dst # Mcast /\ MessageOf(c) = MessageOf(p),
         Forward(d, p, rest, broker, links, unicast)
  PROVE  /\ inflight' \subseteq Frame
         /\ \A f \in inflight' : f \in rest \/ MessageOf(f.p) = MessageOf(p)
         /\ published' \in [Devices -> [Devices \X Mids -> Nat]]
<1>1. now + MaxDelay \in Nat
  BY NetworkBoundsAssumption DEF IInv, TypeOK
<1>2. \A f \in OnLinks(d, p, links) : f \in Frame /\ f.p = p
  <2> SUFFICES ASSUME NEW x \in (Devices \ {d}) \X links
               PROVE  [to |-> x[1], src_if |-> x[2], p |-> p, due |-> now + MaxDelay,
                       copy |-> FALSE] \in Frame
    BY DEF OnLinks
  <2>1. x[1] \in Devices /\ x[2] \in Links
    BY Zenon
  <2> QED BY <1>1, <2>1, Zenon DEF Frame
<1>3. \A f \in OnBridge(d, unicast) : f \in Frame /\ f.p \in unicast
  <2> SUFFICES ASSUME NEW c \in unicast
               PROVE  [to |-> c.dst, src_if |-> Bridge, p |-> c, due |-> now + MaxDelay,
                       copy |-> FALSE] \in Frame
    BY DEF OnBridge
  <2>1. c.dst \in Devices /\ c \in Packet
    BY Zenon DEF Packet
  <2> QED BY <1>1, <2>1, Zenon DEF Frame
<1>4. published' \in [Devices -> [Devices \X Mids -> Nat]]
  <2>1. published \in [Devices -> [Devices \X Mids -> Nat]] /\ MessageOf(p) \in Devices \X Mids
    BY Zenon DEF IInv, TypeOK, MessageOf, Packet
  <2> DEFINE count == published[d][MessageOf(p)] + (IF broker THEN 1 ELSE 0)
                        + (IF \E c \in unicast : c.dst = d THEN 1 ELSE 0)
  <2>2. count \in Nat
    <3>1. published[d][MessageOf(p)] \in Nat
      BY <2>1, Zenon
    <3> QED BY <3>1
  <2>3. published' = [published EXCEPT ![d] = [published[d] EXCEPT ![MessageOf(p)] = count]]
    BY <2>1, Zenon DEF Forward
  <2> HIDE DEF count
  <2> QED BY <2>1, <2>2, <2>3, Zenon
<1> QED BY <1>2, <1>3, <1>4, Zenon DEF Forward

\* The interfaces that a packet leaves on.
LEMMA LinksAreLinks ==
  ASSUME NEW d \in Devices, NEW p \in Packet, NEW net, NEW src_if,
         NEW dst_if \in Links \cup {NoIf}
  PROVE  ToNetworkInterfaces(Interfaces(d), p, net, src_if, dst_if) \subseteq Links
  BY Zenon DEF ToNetworkInterfaces, Interfaces

\* The unicast packets of a packet.
LEMMA UnicastPackets ==
  ASSUME IInv, NEW d \in Devices, NEW p \in Packet, NEW net \in BOOLEAN, NEW dst_if
  PROVE  /\ Unicast(d, p, net, dst_if) \in SUBSET Packet
         /\ \A c \in Unicast(d, p, net, dst_if) :
              c.dst # Mcast /\ MessageOf(c) = MessageOf(p) /\ ~ net
<1> SUFFICES ASSUME NEW c \in Unicast(d, p, net, dst_if)
             PROVE  c \in Packet /\ c.dst # Mcast /\ MessageOf(c) = MessageOf(p) /\ ~ net
  BY Zenon
<1>1. c \in Packet /\ MessageOf(c) = MessageOf(p) /\ ~ net
  BY ErasedKeys, Zenon
<1>2. DOMAIN neighbors_map_[d] \subseteq Devices
  BY Zenon DEF IInv, TypeOK, IsMap
<1>3. CASE c \in ReliableCopies(d, p, net)
  BY <1>1, <1>2, <1>3, AddressAssumption, Zenon DEF ReliableCopies, Packet
<1>4. CASE c \notin ReliableCopies(d, p, net)
  BY <1>1, <1>4, Zenon DEF Unicast, ToBridge
<1> QED BY <1>1, <1>3, <1>4, Zenon

\* What handling a packet does to the state of its device and of the network.
HandledWell(d, p, net, rest) ==
  /\ DOMAIN de_duplication_map_' = Devices
  /\ DOMAIN accepted_at' = Devices
  /\ \A e \in Devices \ {d} : /\ de_duplication_map_'[e] = de_duplication_map_[e]
                              /\ accepted_at'[e] = accepted_at[e]
  /\ MapInv(de_duplication_map_'[d])
  /\ IsMap(accepted_at'[d], DeDuplicationKey)
  /\ Remembers(d, accepted_at'[d], de_duplication_map_'[d], failed')
  /\ \/ accepted_at'[d] = accepted_at[d]
     \/ /\ accepted_at'[d] = Put(accepted_at[d], Identity(d, p, net), now)
        /\ LookupKey(d, p, net, Aged(de_duplication_map_[d]))
             \notin DOMAIN Aged(de_duplication_map_[d])
  /\ failed \subseteq failed' /\ failed' \subseteq Devices \X DeDuplicationKey
  /\ inflight' \subseteq Frame
  /\ \A f \in inflight' : f \in rest \/ MessageOf(f.p) = MessageOf(p)
  /\ published' \in [Devices -> [Devices \X Mids -> Nat]]
  /\ faults' \in Nat
  /\ disturbed' \subseteq Devices \X Mids

\* A packet that is dropped.
LEMMA DroppedWell ==
  ASSUME IInv, NEW d \in Devices, NEW p \in Packet, NEW net \in BOOLEAN,
         NEW rest \in SUBSET Frame, Duplicate(d, p, net, rest) \/ Untrackable(d, p, net, rest)
  PROVE  HandledWell(d, p, net, rest)
<1>1. IsDuplicate(d, p, net) \/ IsUntrackable(d, p, net)
  BY Zenon DEF Duplicate, Untrackable
<1>2. /\ MapInv(de_duplication_map_'[d])
      /\ Remembers(d, accepted_at[d], de_duplication_map_'[d], failed)
  BY <1>1, DroppedPacket, Zenon
<1>3. MessageOf(p) \in Devices \X Mids
  BY Zenon DEF MessageOf, Packet
<1>4. /\ inflight' = rest /\ published' = published /\ accepted_at' = accepted_at
      /\ failed' = failed /\ faults' = faults /\ disturbed' \subseteq Devices \X Mids
  BY <1>3, Zenon DEF Duplicate, Untrackable, IInv, TypeOK
<1>5. /\ DOMAIN de_duplication_map_' = Devices
      /\ \A e \in Devices \ {d} : de_duplication_map_'[e] = de_duplication_map_[e]
  BY <1>1, Zenon DEF IsDuplicate, IsUntrackable, IInv, TypeOK
<1> QED BY <1>2, <1>4, <1>5, Zenon DEF HandledWell, IInv, TypeOK

\* A packet that is forwarded, to all of its sinks or not.
LEMMA ForwardedWell ==
  ASSUME IInv, NEW d \in Devices, NEW p \in Packet, NEW net \in BOOLEAN, Fresh(p, net),
         NEW rest \in SUBSET Frame, NEW src_if, NEW dst_if \in Links \cup {NoIf},
         \/ ForwardPacket(d, p, net, src_if, dst_if, rest)
         \/ ForwardFails(d, p, net, src_if, dst_if, rest)
  PROVE  HandledWell(d, p, net, rest)
<1> DEFINE links == ToNetworkInterfaces(Interfaces(d), p, net, src_if, dst_if)
           unicast == Unicast(d, p, net, dst_if)
<1>1. links \subseteq Links
  BY LinksAreLinks, Zenon
<1>2. /\ unicast \in SUBSET Packet
      /\ \A c \in unicast : c.dst # Mcast /\ MessageOf(c) = MessageOf(p) /\ ~ net
  BY UnicastPackets
<1>3. Identity(d, p, net) \in DeDuplicationKey /\ MessageOf(p) \in Devices \X Mids
  BY LookupInClass, Zenon DEF MessageOf, Packet
<1>4. PICK erase, broker, ls, us :
        /\ IsNew(d, p, net, erase)
        /\ Forward(d, p, rest, broker, ls, us)
        /\ ls \in SUBSET links /\ us \in SUBSET unicast
        /\ \/ erase = {}
           \/ /\ <<d, Identity(d, p, net)>> \in failed'
              /\ erase = {PacketKey(p)} \/ \E last \in unicast : erase = {PacketKey(last)}
  <2>1. CASE ForwardPacket(d, p, net, src_if, dst_if, rest)
    <3>1. /\ IsNew(d, p, net, {}) /\ Forward(d, p, rest, ToBroker(d, p, dst_if), links, unicast)
      BY <2>1, Zenon DEF ForwardPacket
    <3> QED BY <3>1, Zenon
  <2>2. CASE ForwardFails(d, p, net, src_if, dst_if, rest)
    <3>1. <<d, Identity(d, p, net)>> \in failed'
      BY <2>2, Zenon DEF ForwardFails
    <3>2. CASE Forward(d, p, rest, FALSE, {}, {}) /\ IsNew(d, p, net, {PacketKey(p)})
      BY <3>1, <3>2, Zenon
    <3>3. CASE \E written \in (SUBSET links) \ {links} :
                 /\ Forward(d, p, rest, ToBroker(d, p, dst_if), written, {})
                 /\ IsNew(d, p, net, {PacketKey(p)})
      BY <3>1, <3>3
    <3>4. CASE \E written \in (SUBSET unicast) \ {unicast}, last \in unicast :
                 /\ Forward(d, p, rest, ToBroker(d, p, dst_if), links, written)
                 /\ IsNew(d, p, net, {PacketKey(last)})
      BY <3>1, <3>4, Zenon
    <3> QED BY <2>2, <3>2, <3>3, <3>4, Zenon DEF ForwardFails
  <2> QED BY <2>1, <2>2, Zenon
<1>5. /\ inflight' \subseteq Frame
      /\ \A f \in inflight' : f \in rest \/ MessageOf(f.p) = MessageOf(p)
      /\ published' \in [Devices -> [Devices \X Mids -> Nat]]
  <2>1. ls \in SUBSET Links /\ us \in SUBSET Packet
    BY <1>1, <1>2, <1>4, Zenon
  <2>2. \A c \in us : c.dst # Mcast /\ MessageOf(c) = MessageOf(p)
    BY <1>2, <1>4, Zenon
  <2>3. Forward(d, p, rest, broker, ls, us)
    BY <1>4, Zenon
  <2> HIDE DEF links, unicast
  <2> QED BY <2>1, <2>2, <2>3, ForwardStep, Zenon
<1>6. /\ accepted_at' = [accepted_at EXCEPT ![d] = Put(@, Identity(d, p, net), now)]
      /\ failed \subseteq failed' /\ failed' \subseteq Devices \X DeDuplicationKey
      /\ faults' \in Nat
      /\ disturbed' \subseteq Devices \X Mids
  <2>1. /\ failed \subseteq Devices \X DeDuplicationKey /\ faults \in Nat
        /\ disturbed \subseteq Devices \X Mids
    BY Zenon DEF IInv, TypeOK
  <2>2. CASE ForwardPacket(d, p, net, src_if, dst_if, rest)
    BY <2>1, <2>2, Zenon DEF ForwardPacket, Accept
  <2>3. CASE ForwardFails(d, p, net, src_if, dst_if, rest)
    <3>1. /\ Accept(d, Identity(d, p, net))
          /\ failed' = failed \cup {<<d, Identity(d, p, net)>>}
          /\ Disturb(p)
      BY <2>3, Zenon DEF ForwardFails
    <3> QED BY <2>1, <3>1, <1>3 DEF Accept, Disturb
  <2> QED BY <2>2, <2>3, Zenon
<1>7. /\ MapInv(de_duplication_map_'[d])
      /\ Remembers(d, Put(accepted_at[d], Identity(d, p, net), now),
                   de_duplication_map_'[d], failed')
  BY <1>2, <1>4, <1>6, NewPacket, Zenon
<1>8. /\ DOMAIN de_duplication_map_' = Devices
      /\ \A e \in Devices \ {d} : de_duplication_map_'[e] = de_duplication_map_[e]
      /\ LookupKey(d, p, net, Aged(de_duplication_map_[d]))
           \notin DOMAIN Aged(de_duplication_map_[d])
  BY <1>4, Zenon DEF IsNew, IInv, TypeOK
<1>9. /\ accepted_at'[d] = Put(accepted_at[d], Identity(d, p, net), now)
      /\ DOMAIN accepted_at' = Devices
      /\ \A e \in Devices \ {d} : accepted_at'[e] = accepted_at[e]
  BY <1>6, Zenon DEF IInv, TypeOK
<1>10. IsMap(Put(accepted_at[d], Identity(d, p, net), now), DeDuplicationKey)
  BY <1>3, Zenon DEF IsMap, Put, IInv, TypeOK
<1> QED BY <1>5, <1>6, <1>7, <1>8, <1>9, <1>10, Zenon DEF HandledWell

\* A packet, whatever becomes of it.
LEMMA HandledPacket ==
  ASSUME IInv, NEW d \in Devices, NEW p \in Packet, NEW net \in BOOLEAN, Fresh(p, net),
         NEW rest \in SUBSET Frame, NEW src_if, NEW dst_if \in Links \cup {NoIf},
         HandlePacket(d, p, net, src_if, dst_if, rest)
  PROVE  HandledWell(d, p, net, rest)
  BY DroppedWell, ForwardedWell, Zenon DEF HandlePacket

-----------------------------------------------------------------------------
(* update_neighbours() *)

\* The scan, and the packets between scans, keep the table from going stale.
LEMMA NeighboursStep ==
  ASSUME IInv, NEW d \in Devices, NEW src \in Devices, UpdateNeighbours(d, src),
         handled_at' = [handled_at EXCEPT ![d] = now], now' = now
  PROVE  /\ DOMAIN neighbors_map_' = Devices
         /\ \A e \in Devices : IsMap(neighbors_map_'[e], Devices) /\ NeighboursInv(e)'
         /\ removed_timeout_' \in [Devices -> Nat]
<1> DEFINE nb == neighbors_map_[d]
           max == MaxNeighbourAge
<1>1. /\ now \in Nat /\ IsMap(nb, Devices) /\ DOMAIN neighbors_map_ = Devices
      /\ removed_timeout_ \in [Devices -> Nat] /\ handled_at \in [Devices -> Nat]
      /\ max \in Nat /\ max >= 1
      /\ NeighboursInv(d)
  BY AgeAssumption, SMTT(30) DEF IInv, TypeOK, DeviceInv
<1>2. \A n \in DOMAIN nb : n \in Devices /\ nb[n] \in Nat
  BY <1>1, Zenon DEF IsMap
<1>3. CASE /\ now > removed_timeout_[d]
           /\ \E left \in TimesLeft(nb, src) :
                /\ ShortestWait(nb, src, left)
                /\ removed_timeout_' =
                     [removed_timeout_ EXCEPT ![d] = now + (IF left > 1 THEN left ELSE 1)]
           /\ neighbors_map_' =
                [neighbors_map_ EXCEPT ![d] = Put(Only(nb, Devices \ AgedOut(nb, src)), src, now)]
  <2> DEFINE new == Put(Only(nb, Devices \ AgedOut(nb, src)), src, now)
  <2>1. PICK left \in TimesLeft(nb, src) :
          /\ ShortestWait(nb, src, left)
          /\ removed_timeout_' =
               [removed_timeout_ EXCEPT ![d] = now + (IF left > 1 THEN left ELSE 1)]
    BY <1>3, Zenon
  <2>2. left \in Int /\ left <= max
    BY <2>1, <1>1, <1>2 DEF TimesLeft, ShortestWait
  <2>3. DOMAIN new \subseteq Devices /\ new[src] = now /\ src \in DOMAIN new
    BY Zenon DEF Put, Only
  <2>4. ASSUME NEW n \in DOMAIN new, n # src
        PROVE  /\ n \in DOMAIN nb /\ new[n] = nb[n]
               /\ now - nb[n] <= max
               /\ left <= max - (now - nb[n])
    <3>1. n \in DOMAIN nb /\ n \notin AgedOut(nb, src) /\ new[n] = nb[n]
      BY <2>4, Zenon DEF Put, Only
    <3>2. now - nb[n] <= max
      BY <3>1, <2>4, <1>1, <1>2 DEF AgedOut
    <3>3. max - (now - nb[n]) \in TimesLeft(nb, src)
      BY <3>1, <2>4, Zenon DEF TimesLeft
    <3> QED BY <3>1, <3>2, <3>3, <2>1, Zenon DEF ShortestWait
  <2>5. IsMap(new, Devices)
    <3>1. \A n \in DOMAIN new : new[n] \in Nat
      BY <2>3, <2>4, <1>1, <1>2, Zenon
    <3> QED BY <3>1, <2>3, Zenon DEF IsMap, Put
  <2>6. /\ neighbors_map_'[d] = new /\ DOMAIN neighbors_map_' = Devices
        /\ \A e \in Devices \ {d} : neighbors_map_'[e] = neighbors_map_[e]
    BY <1>1, <1>3, Zenon
  <2> DEFINE timeout == now + (IF left > 1 THEN left ELSE 1)
  <2>7. timeout \in Nat /\ timeout <= now + max
    BY <2>2, <1>1
  <2>8. /\ removed_timeout_'[d] = timeout /\ removed_timeout_' \in [Devices -> Nat]
        /\ \A e \in Devices \ {d} : removed_timeout_'[e] = removed_timeout_[e]
    <3> HIDE DEF timeout
    <3>1. removed_timeout_' = [removed_timeout_ EXCEPT ![d] = timeout]
      BY <2>1, Zenon DEF timeout
    <3> QED BY <3>1, <2>7, <1>1, Zenon
  <2>9. \A n \in DOMAIN new : timeout <= new[n] + max + 1 /\ now <= new[n] + max + 1
    <3> SUFFICES ASSUME NEW n \in DOMAIN new
                 PROVE  timeout <= new[n] + max + 1 /\ now <= new[n] + max + 1
      BY Zenon
    <3>1. CASE n = src
      BY <3>1, <2>3, <2>7, <1>1, SMTT(30)
    <3>2. CASE n # src
      <4>1. /\ n \in DOMAIN nb /\ new[n] = nb[n]
            /\ now - nb[n] <= max
            /\ left <= max - (now - nb[n])
        BY <3>2, <2>4, Zenon
      <4>2. nb[n] \in Nat
        BY <4>1, <1>2, Zenon
      <4> QED BY <4>1, <4>2, <2>2, <1>1, SMTT(30)
    <3> QED BY <3>1, <3>2, Zenon
  <2>10. NeighboursInv(d)'
    BY <2>6, <2>7, <2>8, <2>9, <1>1, Zenon DEF NeighboursInv
  <2>11. ASSUME NEW e \in Devices \ {d}
         PROVE  IsMap(neighbors_map_'[e], Devices) /\ NeighboursInv(e)'
    BY <2>6, <2>8, <1>1, Zenon DEF IInv, TypeOK, DeviceInv, NeighboursInv
  <2> QED BY <2>5, <2>6, <2>8, <2>10, <2>11, Zenon
<1>4. CASE /\ now <= removed_timeout_[d]
           /\ neighbors_map_' = [neighbors_map_ EXCEPT ![d] = Put(nb, src, now)]
           /\ UNCHANGED removed_timeout_
  <2> DEFINE new == Put(nb, src, now)
  <2>1. /\ neighbors_map_'[d] = new /\ DOMAIN neighbors_map_' = Devices
        /\ \A e \in Devices \ {d} : neighbors_map_'[e] = neighbors_map_[e]
    BY <1>1, <1>4, Zenon
  <2>2. \A n \in DOMAIN new : IF n = src THEN new[n] = now ELSE n \in DOMAIN nb /\ new[n] = nb[n]
    BY Zenon DEF Put
  <2>3. IsMap(new, Devices)
    <3>1. \A n \in DOMAIN new : n \in Devices /\ new[n] \in Nat
      BY <2>2, <1>1, <1>2, Zenon
    <3> QED BY <3>1, Zenon DEF IsMap, Put
  <2>4. NeighboursInv(d)'
    <3>1. ASSUME NEW n \in DOMAIN new
          PROVE  removed_timeout_[d] <= new[n] + max + 1 /\ now <= new[n] + max + 1
      <4>1. CASE n = src
        BY <4>1, <2>2, <1>1 DEF NeighboursInv
      <4>2. CASE n # src
        BY <4>2, <2>2, <1>1, <1>2, <1>4 DEF NeighboursInv
      <4> QED BY <4>1, <4>2, Zenon
    <3> QED BY <3>1, <2>1, <1>1, <1>4, Zenon DEF NeighboursInv
  <2>5. ASSUME NEW e \in Devices \ {d}
        PROVE  IsMap(neighbors_map_'[e], Devices) /\ NeighboursInv(e)'
    BY <2>1, <1>1, <1>4, Zenon DEF IInv, TypeOK, DeviceInv, NeighboursInv
  <2> QED BY <2>1, <2>3, <2>4, <2>5, <1>1, <1>4, Zenon
<1> QED BY <1>3, <1>4, Zenon DEF UpdateNeighbours

-----------------------------------------------------------------------------
(* The steps *)

\* A CMDU from the local bus is a new message.
LEMMA LocalIsFresh ==
  ASSUME NEW d, NEW p, NEW dst_if, CmduTx(d, p, dst_if)
  PROVE  Fresh(p, FALSE)
  BY Zenon DEF CmduTx, Fresh, WasSent

\* Handling a packet keeps the invariants of the map, of what was sent and the types.
LEMMA HandledKeeps ==
  ASSUME IInv, NEW d \in Devices, NEW p \in Packet, NEW net \in BOOLEAN, NEW rest,
         rest \subseteq inflight, HandledWell(d, p, net, rest),
         now' = now, sent \subseteq sent', sent' \subseteq Packet,
         \E s \in sent' : MessageOf(s) = MessageOf(p)
  PROVE  /\ SentInv'
         /\ \A e \in Devices : /\ MapInv(de_duplication_map_[e])'
                               /\ Remembers(e, accepted_at[e], de_duplication_map_[e], failed)'
                               /\ IsMap(accepted_at[e], DeDuplicationKey)'
<1>1. \A f \in inflight' : WasSent(MessageOf(f.p))'
  BY Zenon DEF HandledWell, IInv, SentInv, WasSent
<1>2. Identity(d, p, net).src = p.src /\ Identity(d, p, net).mid = p.mid
  BY LookupInClass, Zenon
<1>3. ASSUME NEW e \in Devices, NEW id \in DOMAIN accepted_at'[e]
      PROVE  WasSent(<<id.src, id.mid>>)'
  <2>1. CASE id \in DOMAIN accepted_at[e]
    BY <2>1, Zenon DEF IInv, SentInv, WasSent
  <2>2. CASE id \notin DOMAIN accepted_at[e]
    <3>1. accepted_at'[e] = Put(accepted_at[e], Identity(d, p, net), now)
      BY <2>2, <1>3, Zenon DEF HandledWell
    <3>2. id = Identity(d, p, net)
      BY <2>2, <1>3, <3>1, Zenon DEF Put
    <3> QED BY <3>2, <1>2, Zenon DEF WasSent, MessageOf
  <2> QED BY <2>1, <2>2, Zenon
<1>4. ASSUME NEW e \in Devices
      PROVE  /\ MapInv(de_duplication_map_[e])'
             /\ Remembers(e, accepted_at[e], de_duplication_map_[e], failed)'
             /\ IsMap(accepted_at[e], DeDuplicationKey)'
  <2>1. CASE e = d
    BY <2>1, Zenon DEF HandledWell, MapInv, Remembers
  <2>2. CASE e # d
    BY <2>2, Zenon DEF HandledWell, MapInv, Remembers, IInv, TypeOK, DeviceInv
  <2> QED BY <2>1, <2>2, Zenon
<1> QED BY <1>1, <1>3, <1>4, Zenon DEF SentInv

\* Every step keeps the invariant.
LEMMA Step ==
  ASSUME IInv, [Next]_vars
  PROVE  IInv'
<1>1. ASSUME NEW t \in Traffic, CmduTx(t[1].src, t[1], t[2])
      PROVE  IInv'
  <2> DEFINE d == t[1].src
             p == t[1]
             dst_if == t[2]
  <2>1. p \in Packet /\ dst_if \in Links \cup {NoIf} /\ d \in Devices
    BY TrafficAssumption, Zenon DEF Packet
  <2>2. /\ HandlePacket(d, p, FALSE, NoIf, dst_if, inflight) /\ sent' = sent \cup {p}
        /\ UNCHANGED <<now, neighbors_map_, removed_timeout_, handled_at>>
    BY <1>1, Zenon DEF CmduTx
  <2>3. Fresh(p, FALSE)
    BY <1>1, LocalIsFresh, Zenon
  <2> HIDE DEF d, p, dst_if
  <2>4. inflight \in SUBSET Frame /\ sent \subseteq Packet
    BY Zenon DEF IInv, TypeOK
  <2>5. HandledWell(d, p, FALSE, inflight)
    BY <2>1, <2>2, <2>3, <2>4, HandledPacket, Zenon
  <2>6. /\ SentInv'
        /\ \A e \in Devices : /\ MapInv(de_duplication_map_[e])'
                              /\ Remembers(e, accepted_at[e], de_duplication_map_[e], failed)'
                              /\ IsMap(accepted_at[e], DeDuplicationKey)'
    <3>1. sent' \subseteq Packet /\ \E s \in sent' : MessageOf(s) = MessageOf(p)
      BY <2>1, <2>2, <2>4, Zenon
    <3> QED BY <2>1, <2>2, <2>5, <3>1, HandledKeeps, Zenon
  <2>7. TypeOK'
    BY <2>1, <2>2, <2>5, <2>6, Zenon DEF HandledWell, MapInv, IInv, TypeOK
  <2>8. \A e \in Devices : NeighboursInv(e)'
    BY <2>2, Zenon DEF IInv, DeviceInv, NeighboursInv
  <2> QED BY <2>6, <2>7, <2>8, Zenon DEF IInv, DeviceInv
<1>2. ASSUME NEW f \in inflight, Receive(f)
      PROVE  IInv'
  <2>1. f \in Frame /\ f.to \in Devices /\ f.p \in Packet /\ f.p.src \in Devices
        /\ WasSent(MessageOf(f.p)) /\ inflight \ {f} \in SUBSET Frame
    BY Zenon DEF IInv, TypeOK, SentInv, Frame, Packet
  <2>2. /\ UpdateNeighbours(f.to, f.p.src)
        /\ HandlePacket(f.to, f.p, TRUE, f.src_if, NoIf, inflight \ {f})
        /\ handled_at' = [handled_at EXCEPT ![f.to] = now]
        /\ now' = now /\ sent' = sent
    BY <1>2, Zenon DEF Receive, Pollin
  <2>3. HandledWell(f.to, f.p, TRUE, inflight \ {f})
    <3>1. Fresh(f.p, TRUE)
      BY Zenon DEF Fresh
    <3> QED BY <3>1, <2>1, <2>2, HandledPacket, Zenon
  <2>4. /\ SentInv'
        /\ \A e \in Devices : /\ MapInv(de_duplication_map_[e])'
                              /\ Remembers(e, accepted_at[e], de_duplication_map_[e], failed)'
                              /\ IsMap(accepted_at[e], DeDuplicationKey)'
    <3>1. sent' \subseteq Packet /\ \E s \in sent' : MessageOf(s) = MessageOf(f.p)
      BY <2>1, <2>2, Zenon DEF IInv, TypeOK, WasSent
    <3> QED BY <2>1, <2>2, <2>3, <3>1, HandledKeeps, Zenon
  <2>5. /\ DOMAIN neighbors_map_' = Devices
        /\ \A e \in Devices : IsMap(neighbors_map_'[e], Devices) /\ NeighboursInv(e)'
        /\ removed_timeout_' \in [Devices -> Nat]
    BY <2>1, <2>2, NeighboursStep, Zenon
  <2>6. handled_at' \in [Devices -> Nat]
    BY <2>1, <2>2, Zenon DEF IInv, TypeOK
  <2>7. TypeOK'
    BY <2>2, <2>3, <2>4, <2>5, <2>6, Zenon DEF HandledWell, MapInv, IInv, TypeOK
  <2> QED BY <2>4, <2>5, <2>7, Zenon DEF IInv, DeviceInv
<1>3. ASSUME /\ inflight' \subseteq Frame /\ faults' \in Nat
             /\ \A f \in inflight' : WasSent(MessageOf(f.p))
             /\ disturbed' \subseteq Devices \X Mids
             /\ UNCHANGED <<transportVars, sent, published, accepted_at, failed, handled_at>>
      PROVE  IInv'
  <2>1. TypeOK'
    BY <1>3, Zenon DEF IInv, TypeOK, transportVars
  <2>2. SentInv'
    BY <1>3, Zenon DEF IInv, SentInv, WasSent
  <2>3. DeviceInv'
    BY <1>3, Zenon DEF IInv, DeviceInv, MapInv, Remembers, NeighboursInv, transportVars
  <2> QED BY <2>1, <2>2, <2>3, Zenon DEF IInv
<1>4. ASSUME NEW f \in inflight, Lose(f)
      PROVE  IInv'
  <2>1. MessageOf(f.p) \in Devices \X Mids
    BY Zenon DEF IInv, TypeOK, Frame, Packet, MessageOf
  <2>2. /\ inflight \subseteq Frame /\ faults \in Nat /\ disturbed \subseteq Devices \X Mids
        /\ \A g \in inflight : WasSent(MessageOf(g.p))
    BY Zenon DEF IInv, TypeOK, SentInv
  <2>3. /\ inflight' = inflight \ {f} /\ faults' = faults + 1
        /\ disturbed' = disturbed \cup {MessageOf(f.p)}
        /\ UNCHANGED <<transportVars, sent, published, accepted_at, failed, handled_at>>
    BY <1>4, Zenon DEF Lose, Disturb
  <2>4. /\ inflight' \subseteq Frame /\ faults' \in Nat /\ disturbed' \subseteq Devices \X Mids
        /\ \A g \in inflight' : WasSent(MessageOf(g.p))
    BY <2>1, <2>2, <2>3
  <2> QED BY <1>3, <2>3, <2>4, Zenon
<1>5. ASSUME NEW f \in inflight, DuplicateFrame(f)
      PROVE  IInv'
  <2>1. [f EXCEPT !.copy = TRUE] \in Frame /\ [f EXCEPT !.copy = TRUE].p = f.p
    BY Zenon DEF IInv, TypeOK, Frame
  <2>2. /\ inflight' \subseteq Frame /\ faults' \in Nat
        /\ \A g \in inflight' : WasSent(MessageOf(g.p))
    <3>1. /\ inflight \subseteq Frame /\ faults \in Nat
          /\ \A g \in inflight : WasSent(MessageOf(g.p))
      BY Zenon DEF IInv, TypeOK, SentInv
    <3>2. inflight' = inflight \cup {[f EXCEPT !.copy = TRUE]} /\ faults' = faults + 1
      BY <1>5, Zenon DEF DuplicateFrame
    <3>3. ASSUME NEW g \in inflight'
          PROVE  g \in Frame /\ WasSent(MessageOf(g.p))
      <4>1. CASE g \in inflight
        BY <4>1, <3>1, Zenon
      <4>2. CASE g = [f EXCEPT !.copy = TRUE]
        BY <4>2, <2>1, <3>1, Zenon
      <4> QED BY <4>1, <4>2, <3>2, Zenon
    <3>4. faults' \in Nat
      BY <3>1, <3>2
    <3> QED BY <3>3, <3>4, Zenon
  <2> QED BY <1>3, <1>5, <2>2, Zenon DEF DuplicateFrame, IInv, TypeOK
<1>6. ASSUME Tick
      PROVE  IInv'
  <2>1. now \in Nat /\ now' = now + 1
    BY <1>6, Zenon DEF Tick, IInv, TypeOK
  <2>2. TypeOK' /\ SentInv'
    <3>1. now' \in Nat
      BY <2>1
    <3>2. TypeOK'
      BY <1>6, <3>1, Zenon DEF Tick, IInv, TypeOK, ghostVars
    <3>3. SentInv'
      BY <1>6, Zenon DEF Tick, IInv, SentInv, WasSent, ghostVars
    <3> QED BY <3>2, <3>3, Zenon
  <2>3. ASSUME NEW e \in Devices
        PROVE  MapInv(de_duplication_map_[e])'
    BY <1>6, <2>1 DEF Tick, IInv, DeviceInv, MapInv, IsMap
  <2>4. ASSUME NEW e \in Devices
        PROVE  Remembers(e, accepted_at[e], de_duplication_map_[e], failed)'
    <3>1. \A id \in DOMAIN accepted_at[e] : accepted_at[e][id] + MaxDeDupAge \in Nat
      BY AgeAssumption, SMTT(30) DEF IInv, TypeOK, IsMap
    <3>2. Remembers(e, accepted_at[e], de_duplication_map_[e], failed)
      BY Zenon DEF IInv, DeviceInv
    <3> QED BY <1>6, <2>1, <3>1, <3>2, SMTT(30) DEF Tick, Remembers, ghostVars
  <2>5. ASSUME NEW e \in Devices
        PROVE  NeighboursInv(e)'
    <3>1. removed_timeout_[e] \in Nat /\ NeighboursInv(e)
      BY Zenon DEF IInv, TypeOK, DeviceInv
    <3> QED BY <1>6, <2>1, <3>1, AgeAssumption DEF Tick, NeighboursInv, ghostVars
  <2> QED BY <2>2, <2>3, <2>4, <2>5, Zenon DEF IInv, DeviceInv
<1>7. CASE UNCHANGED vars
  BY <1>3, <1>7, Zenon DEF vars, ghostVars, IInv, TypeOK, SentInv
<1> QED BY <1>1, <1>2, <1>4, <1>5, <1>6, <1>7, Zenon DEF Next

\* The initial state satisfies the invariant.
LEMMA Start == Init => IInv
<1> SUFFICES ASSUME Init
             PROVE  IInv
  BY Zenon
<1>1. IsFiniteSet({}) /\ Cardinality({}) = 0
  BY FS_EmptySet, Zenon
<1>2. DOMAIN EmptyMap = {} /\ EmptyMap \in [{} -> Nat]
  BY Zenon DEF EmptyMap
<1>3. \A d \in Devices : /\ neighbors_map_[d] = EmptyMap /\ de_duplication_map_[d] = EmptyMap
                         /\ accepted_at[d] = EmptyMap
  BY Zenon DEF Init, TransportInit
<1>4. IsMap(EmptyMap, Devices) /\ IsMap(EmptyMap, DeDuplicationKey)
  BY <1>2, Zenon DEF IsMap
<1>5. TypeOK
  BY <1>1, <1>2, <1>3, <1>4, ThreadsAssumption DEF Init, TransportInit, TypeOK
<1>6. SentInv
  BY <1>2, <1>3, Zenon DEF Init, SentInv
<1>7. DeviceInv
  BY <1>1, <1>2, <1>3, <1>4, ThreadsAssumption, AgeAssumption
     DEF DeviceInv, MapInv, Remembers, NeighboursInv, Init, TransportInit
<1> QED BY <1>5, <1>6, <1>7, Zenon DEF IInv

\* The invariant holds in every reachable state.
THEOREM RelayInvariance == Spec => []IInv
  BY Start, Step, PTL DEF Spec

\* Type correctness; the de-duplication map never exceeds its limit.
THEOREM RelayTypeCorrect == Spec => []TypeOK
<1>1. IInv => TypeOK
  BY Zenon DEF IInv
<1> QED BY RelayInvariance, <1>1, PTL

\* update_neighbours() never leaves a neighbour in the table that was silent for more than
\* kMaximumNeighbourAge and one second, however rarely it scans.
THEOREM NoStaleNeighbourHolds == Spec => []NoStaleNeighbour
<1>1. IInv => NoStaleNeighbour
  <2> SUFFICES ASSUME IInv, NEW d \in Devices, NEW n \in DOMAIN neighbors_map_[d]
               PROVE  handled_at[d] - neighbors_map_[d][n] <= MaxNeighbourAge + 1
    BY Zenon DEF NoStaleNeighbour
  <2>1. handled_at[d] \in Nat /\ neighbors_map_[d][n] \in Nat
    BY Zenon DEF IInv, TypeOK, IsMap
  <2>2. handled_at[d] <= neighbors_map_[d][n] + MaxNeighbourAge + 1
    BY Zenon DEF IInv, DeviceInv, NeighboursInv
  <2> QED BY <2>1, <2>2, AgeAssumption
<1> QED BY RelayInvariance, <1>1, PTL

\* When the entry of a packet is older than the age, so is any acceptance before it.
LEMMA OlderStill ==
  ASSUME NEW time \in Nat, NEW entry \in Nat, NEW accepted \in Nat,
         accepted <= entry, time > entry + MaxDeDupAge
  PROVE  time > accepted + MaxDeDupAge
  BY AgeAssumption

\* Only a packet from the network is taken for a new one again.
LEMMA AgainFromNetwork ==
  ASSUME IInv, Next, NEW e \in Devices, NEW k \in AcceptedAgain(e)
  PROVE  \E f \in inflight :
           /\ f.to = e /\ f.p \in Packet /\ k = Identity(e, f.p, TRUE)
           /\ LookupKey(e, f.p, TRUE, Aged(de_duplication_map_[e]))
                \notin DOMAIN Aged(de_duplication_map_[e])
<1>1. /\ k \in DOMAIN accepted_at[e] /\ accepted_at'[e][k] # accepted_at[e][k]
      /\ <<e, k>> \notin failed
  BY Zenon DEF AcceptedAgain
<1>2. ASSUME NEW t \in Traffic, CmduTx(t[1].src, t[1], t[2])
      PROVE  FALSE
  <2> DEFINE d == t[1].src
             p == t[1]
             dst_if == t[2]
  <2>1. p \in Packet /\ dst_if \in Links \cup {NoIf} /\ d \in Devices
    BY TrafficAssumption, Zenon DEF Packet
  <2>2. HandlePacket(d, p, FALSE, NoIf, dst_if, inflight) /\ Fresh(p, FALSE)
    BY <1>2, LocalIsFresh, Zenon DEF CmduTx
  <2> HIDE DEF d, p, dst_if
  <2>3. HandledWell(d, p, FALSE, inflight)
    BY <2>1, <2>2, HandledPacket, Zenon DEF IInv, TypeOK
  <2>4. k = Identity(d, p, FALSE)
    BY <2>3, <1>1, Zenon DEF HandledWell, Put
  <2>5. WasSent(MessageOf(p))
    BY <2>1, <2>4, <1>1, LookupInClass, Zenon DEF IInv, SentInv, MessageOf
  <2> QED BY <2>2, <2>5, Zenon DEF Fresh
<1>3. ASSUME NEW f \in inflight, Receive(f)
      PROVE  /\ f.to = e /\ f.p \in Packet /\ k = Identity(e, f.p, TRUE)
             /\ LookupKey(e, f.p, TRUE, Aged(de_duplication_map_[e]))
                  \notin DOMAIN Aged(de_duplication_map_[e])
  <2>1. f.to \in Devices /\ f.p \in Packet /\ inflight \ {f} \in SUBSET Frame
    BY Zenon DEF IInv, TypeOK, Frame
  <2>2. HandledWell(f.to, f.p, TRUE, inflight \ {f})
    <3>1. Fresh(f.p, TRUE)
      BY Zenon DEF Fresh
    <3>2. HandlePacket(f.to, f.p, TRUE, f.src_if, NoIf, inflight \ {f})
      BY <1>3, Zenon DEF Receive, Pollin
    <3> QED BY <2>1, <3>1, <3>2, HandledPacket, Zenon
  <2> QED BY <2>1, <2>2, <1>1, ZenonT(30) DEF HandledWell, Put
<1>4. ASSUME NEW f \in inflight, Lose(f) \/ DuplicateFrame(f)
      PROVE  FALSE
  BY <1>4, <1>1, Zenon DEF Lose, DuplicateFrame
<1>5. ASSUME Tick
      PROVE  FALSE
  BY <1>5, <1>1, Zenon DEF Tick, ghostVars
<1> QED BY <1>2, <1>3, <1>4, <1>5, Zenon DEF Next

\* No device takes a packet for a new one twice within kMaximumDeDuplicationAge, unless
\* forwarding it failed.
THEOREM ForwardedOncePerAgeHolds == Spec => ForwardedOncePerAge
<1> DEFINE Apart == \A d \in Devices : \A k \in AcceptedAgain(d) :
                      now > accepted_at[d][k] + MaxDeDupAge
<1>1. IInv /\ [Next]_vars => [Apart]_vars
  <2> SUFFICES ASSUME IInv, Next, NEW e \in Devices, NEW k \in AcceptedAgain(e)
               PROVE  now > accepted_at[e][k] + MaxDeDupAge
    BY Zenon
  <2> DEFINE map == de_duplication_map_[e]
  <2>1. k \in DOMAIN accepted_at[e] /\ <<e, k>> \notin failed
    BY Zenon DEF AcceptedAgain
  <2>2. PICK f \in inflight : /\ f.to = e /\ f.p \in Packet /\ k = Identity(e, f.p, TRUE)
                              /\ LookupKey(e, f.p, TRUE, Aged(map)) \notin DOMAIN Aged(map)
    BY AgainFromNetwork, Zenon
  <2>3. \A key \in Class(e, k) : key \notin DOMAIN Aged(map)
    BY <2>2, ClassIsSearched, Zenon
  <2>4. now \in Nat /\ MapInv(map) /\ Remembers(e, accepted_at[e], map, failed)
    BY Zenon DEF IInv, TypeOK, DeviceInv
  <2>5. SUFFICES ASSUME NEW key \in Class(e, k), key \in DOMAIN map,
                        accepted_at[e][k] <= map[key]
                 PROVE  now > accepted_at[e][k] + MaxDeDupAge
    BY <2>1, <2>4, Zenon DEF Remembers
  <2>6. now > map[key] + MaxDeDupAge
    BY <2>3, <2>4, <2>5, AgedMap, Zenon
  <2>7. map[key] \in Nat /\ accepted_at[e][k] \in Nat
    BY <2>1, <2>4, <2>5, Zenon DEF MapInv, IsMap, IInv, TypeOK
  <2>8. now \in Nat /\ accepted_at[e][k] <= map[key]
    BY <2>4, <2>5, Zenon
  <2> HIDE DEF map
  <2> QED BY <2>6, <2>7, <2>8, OlderStill, Zenon
<1> QED BY RelayInvariance, <1>1, PTL DEF Spec, ForwardedOncePerAge

=============================================================================
