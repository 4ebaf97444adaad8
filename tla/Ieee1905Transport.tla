-------------------------- MODULE Ieee1905Transport --------------------------
(***************************************************************************)
(* The packet processing of the IEEE 1905.1 transport process               *)
(* (framework/transport/ieee1905_transport), one instance per device:       *)
(* handle_packet() updates the neighbour table, drops duplicates, and       *)
(* forwards what is left to the local bus, to the network interfaces and,   *)
(* for unicast, to the bridge.  Locally generated reliable multicast is     *)
(* also sent as unicast to every neighbour.                                 *)
(*                                                                         *)
(* A packet is [src, dst, mid, relay]: mid stands for the messageType, the  *)
(* messageId and the fragmentId, which travel together.  A device is named  *)
(* by its AL MAC address.  Packets that verify_packet() drops and LLDP are  *)
(* not modelled.  Time is counted in units that divide both ages.           *)
(***************************************************************************)
EXTENDS Integers, FiniteSets

CONSTANTS Devices,           \* AL MAC addresses
          Mids,              \* message identities
          Reliable,          \* those with a reliable_multicast_msg_types type
          Mcast,             \* ieee1905_multicast_addr
          MaxNeighbourAge,   \* kMaximumNeighbourAge
          MaxDeDupAge,       \* kMaximumDeDuplicationAge
          MaxThreads         \* kMaximumDeDuplicationThreads

ASSUME AddressAssumption == Mcast \notin Devices /\ Reliable \subseteq Mids

ASSUME AgeAssumption == MaxNeighbourAge \in Nat \ {0} /\ MaxDeDupAge \in Nat

ASSUME ThreadsAssumption == MaxThreads \in Nat

VARIABLES now,
          neighbors_map_,       \* per device: last_seen of each neighbour
          removed_timeout_,     \* per device: removed_aged_neighbors_timeout_
          de_duplication_map_   \* per device: time of each key

transportVars == <<now, neighbors_map_, removed_timeout_, de_duplication_map_>>

\* A map: no entries, its entries at the keys in S, and one more or other entry.
EmptyMap == [x \in {} |-> 0]

Only(map, S) == [x \in DOMAIN map \cap S |-> map[x]]

Put(map, key, value) ==
  [x \in DOMAIN map \cup {key} |-> IF x = key THEN value ELSE map[x]]

\* An interface is the set of the devices it joins; NoIf is no interface.
NoIf == {}

Packet == [src : Devices, dst : Devices \cup {Mcast}, mid : Mids, relay : BOOLEAN]

DeDuplicationKey == [src : Devices, dst : Devices \cup {Mcast}, mid : Mids]

TransportInit ==
  /\ now = 0
  /\ neighbors_map_ = [d \in Devices |-> EmptyMap]
  /\ removed_timeout_ = [d \in Devices |-> 0]
  /\ de_duplication_map_ = [d \in Devices |-> EmptyMap]

-----------------------------------------------------------------------------
(* update_neighbours(), for a packet from the network *)

AgedOut(neighbors, src) ==
  {n \in DOMAIN neighbors \ {src} : now - neighbors[n] > MaxNeighbourAge}

\* The times until the remaining neighbours expire, other than the sender.
TimesLeft(neighbors, src) ==
  {MaxNeighbourAge}
    \cup {MaxNeighbourAge - (now - neighbors[n]) :
            n \in DOMAIN neighbors \ (AgedOut(neighbors, src) \cup {src})}

\* A mutant: the next scan is a full age away, whatever the neighbours.
LongestWait(neighbors, src, left) == left = MaxNeighbourAge

\* std::min over the neighbours, starting from kMaximumNeighbourAge.
ShortestWait(neighbors, src, left) ==
  /\ left \in TimesLeft(neighbors, src)
  /\ \A other \in TimesLeft(neighbors, src) : left <= other

\* The scan for aged neighbours runs when its timeout has passed; it sets the next
\* timeout to when the first of the remaining ones expires, one second away at least.
UpdateNeighbours(d, src) ==
  LET neighbors == neighbors_map_[d] IN
  /\ \/ /\ now > removed_timeout_[d]
        /\ \E left \in TimesLeft(neighbors, src) :
             /\ ShortestWait(neighbors, src, left)
             /\ removed_timeout_' =
                  [removed_timeout_ EXCEPT ![d] = now + (IF left > 1 THEN left ELSE 1)]
        /\ neighbors_map_' =
             [neighbors_map_ EXCEPT ![d] =
                Put(Only(neighbors, Devices \ AgedOut(neighbors, src)), src, now)]
     \/ /\ now <= removed_timeout_[d]
        /\ neighbors_map_' = [neighbors_map_ EXCEPT ![d] = Put(neighbors, src, now)]
        /\ UNCHANGED removed_timeout_

-----------------------------------------------------------------------------
(* de_duplicate_packet() *)

\* A mutant: an entry expires when it reaches the maximum age.
ExpiredAtAge(time) == now >= time + MaxDeDupAge

Expired(time) == now > time + MaxDeDupAge

\* The map after aging.
Aged(map) == Only(map, {k \in DOMAIN map : ~ Expired(map[k])})

PacketKey(p) == [src |-> p.src, dst |-> p.dst, mid |-> p.mid]

\* The other address under which a reliable multicast reaches d.
Swapped(d, key) ==
  [key EXCEPT !.dst = CASE key.dst = d -> Mcast
                        [] key.dst = Mcast -> d
                        [] OTHER -> key.dst]

\* A mutant: the two forms of a reliable multicast are told apart.
LookupKeyExact(d, p, net, map) == PacketKey(p)

\* The key under which the packet is looked up last, and stored.
LookupKey(d, p, net, map) ==
  IF PacketKey(p) \notin DOMAIN map /\ net /\ p.mid \in Reliable
  THEN Swapped(d, PacketKey(p))
  ELSE PacketKey(p)

\* A duplicate refreshes its entry.
IsDuplicate(d, p, net) ==
  LET map == Aged(de_duplication_map_[d]) IN
  /\ LookupKey(d, p, net, map) \in DOMAIN map
  /\ de_duplication_map_' =
       [de_duplication_map_ EXCEPT ![d] = Put(map, LookupKey(d, p, net, map), now)]

\* A packet that cannot be tracked is dropped as if it were a duplicate.
IsUntrackable(d, p, net) ==
  LET map == Aged(de_duplication_map_[d]) IN
  /\ LookupKey(d, p, net, map) \notin DOMAIN map
  /\ Cardinality(DOMAIN map) >= MaxThreads
  /\ de_duplication_map_' = [de_duplication_map_ EXCEPT ![d] = map]

\* remove_packet_from_de_duplication_map(): a key that is not there is no error.
Erased(map, keys) == Only(map, DeDuplicationKey \ keys)

\* A mutant: the size of the map is compared after it has grown past the limit.
IsNewUnbounded(d, p, net, erase) ==
  LET map == Aged(de_duplication_map_[d]) IN
  /\ LookupKey(d, p, net, map) \notin DOMAIN map
  /\ Cardinality(DOMAIN map) <= MaxThreads
  /\ de_duplication_map_' =
       [de_duplication_map_ EXCEPT ![d] =
          Erased(Put(map, LookupKey(d, p, net, map), now), erase)]

\* Any other packet is new and gets an entry.  If forwarding it fails,
\* remove_packet_from_de_duplication_map() erases the entry whose key has the
\* destination that the packet has by then: erase is {} or that key.
IsNew(d, p, net, erase) ==
  LET map == Aged(de_duplication_map_[d]) IN
  /\ LookupKey(d, p, net, map) \notin DOMAIN map
  /\ Cardinality(DOMAIN map) < MaxThreads
  /\ de_duplication_map_' =
       [de_duplication_map_ EXCEPT ![d] =
          Erased(Put(map, LookupKey(d, p, net, map), now), erase)]

-----------------------------------------------------------------------------
(* forward_packet_single(): the sinks of a packet.  dst_if is the interface  *)
(* that the sender on the local bus asked for, or NoIf.                      *)

ToBroker(d, p, dst_if) == dst_if = NoIf /\ p.dst \in {Mcast, d}

ToBridge(d, p, net, dst_if) == dst_if = NoIf /\ p.dst \notin {Mcast, d} /\ ~ net

\* A mutant: only what the device itself sends leaves on its interfaces.
ToNetworkInterfacesLocal(interfaces, p, net, src_if, dst_if) ==
  IF dst_if # NoIf THEN {dst_if} ELSE IF p.dst = Mcast /\ ~ net THEN interfaces ELSE {}

\* The interfaces a packet from interface src_if leaves on, if d has these interfaces.
ToNetworkInterfaces(interfaces, p, net, src_if, dst_if) ==
  IF dst_if # NoIf THEN {dst_if}
  ELSE IF p.dst = Mcast /\ (~ net \/ p.relay) THEN interfaces \ {src_if}
  ELSE {}

\* forward_packet(): a local relayed multicast of a reliable type is then sent to
\* every neighbour as unicast, with the relay indicator cleared.
ReliableCopies(d, p, net) ==
  IF p.dst = Mcast /\ p.relay /\ p.mid \in Reliable /\ ~ net
  THEN {[p EXCEPT !.dst = n, !.relay = FALSE] : n \in DOMAIN neighbors_map_[d]}
  ELSE {}

=============================================================================
