----------------------------- MODULE RelayNetwork -----------------------------
(***************************************************************************)
(* Devices that run the IEEE 1905.1 transport, joined by links.  A link is  *)
(* an interface of each of the two devices it joins.  The network delays a  *)
(* frame by at most MaxDelay, reorders, loses and duplicates frames; the    *)
(* Linux bridges carry a unicast frame to its destination.  Writing to the  *)
(* broker or to an interface may fail.                                      *)
(***************************************************************************)
EXTENDS Ieee1905Transport

CONSTANTS Links,       \* sets of two devices
          MaxDelay,    \* the longest time a frame is in flight
          Traffic,     \* the packets that the local buses send, with their dst_if
          MaxInputs, MaxTime   \* bounds on the sends and faults together, and on time

ASSUME LinksAssumption == Links \subseteq (SUBSET Devices) \ {NoIf}

ASSUME NetworkBoundsAssumption ==
  MaxDelay \in Nat /\ MaxInputs \in Nat /\ MaxTime \in Nat

ASSUME TrafficAssumption == Traffic \subseteq Packet \X (Links \cup {NoIf})

\* de_duplicate_packet(): kMaximumDeDuplicationAge is "long enough to allow for any
\* buffered/in-transit duplicate packets to be flushed", a hop for each device.
ASSUME FlushAssumption == IsFiniteSet(Devices) /\ MaxDelay * Cardinality(Devices) <= MaxDeDupAge

\* The links make one network of the devices.
ASSUME ConnectedAssumption ==
  \A S \in SUBSET Devices :
    S # {} /\ (\A l \in Links : l \cap S # {} => l \subseteq S) => S = Devices

VARIABLES inflight,     \* the frames in the network
          sent,         \* the packets of the CMDUs that the local buses sent
          published,    \* per device: how often each <<src, mid>> went to the local bus
          accepted_at,  \* per device: when the packet was last taken for a new one
          failed,       \* <<device, identity>> of the forwarding failures
          handled_at,   \* per device: time of the last packet from the network
          faults,       \* frames lost or duplicated, and failed writes
          disturbed     \* <<src, mid>> of the messages these and full maps hit

ghostVars == <<sent, published, accepted_at, failed, handled_at, faults, disturbed>>

vars == <<transportVars, inflight, ghostVars>>

\* The interface that bridged frames come from: none of the links.
Bridge == NoIf

Frame == [to : Devices, src_if : Links \cup {Bridge}, p : Packet, due : Nat,
          copy : BOOLEAN]

Interfaces(d) == {l \in Links : d \in l}

MessageOf(p) == <<p.src, p.mid>>

\* A reliable multicast and its unicast copy are one packet to the device they reach.
Identity(d, p, net) ==
  IF net /\ p.mid \in Reliable /\ p.dst = d THEN [PacketKey(p) EXCEPT !.dst = Mcast]
  ELSE PacketKey(p)

Init ==
  /\ TransportInit
  /\ inflight = {}
  /\ sent = {}
  /\ published = [d \in Devices |-> [i \in Devices \X Mids |-> 0]]
  /\ accepted_at = [d \in Devices |-> EmptyMap]
  /\ failed = {}
  /\ handled_at = [d \in Devices |-> 0]
  /\ faults = 0
  /\ disturbed = {}

-----------------------------------------------------------------------------
(* What forwarding does outside the device *)

OnLinks(d, p, links) ==
  {[to |-> x[1], src_if |-> x[2], p |-> p, due |-> now + MaxDelay, copy |-> FALSE] :
     x \in {y \in (Devices \ {d}) \X links : y[1] \in y[2]}}

\* The bridge of the device carries a unicast packet to another device.
OnBridge(d, copies) ==
  {[to |-> c.dst, src_if |-> Bridge, p |-> c, due |-> now + MaxDelay, copy |-> FALSE] :
     c \in {x \in copies : x.dst # d}}

\* The packet goes to the broker if it is to, and to the links; the unicast packets
\* go to the bridge or, those for the device itself, to the broker.
Forward(d, p, rest, broker, links, unicast) ==
  /\ inflight' = rest \cup OnLinks(d, p, links) \cup OnBridge(d, unicast)
  /\ published' =
       [published EXCEPT ![d][MessageOf(p)] =
          @ + (IF broker THEN 1 ELSE 0) + (IF \E c \in unicast : c.dst = d THEN 1 ELSE 0)]

\* The unicast packets that forwarding p amounts to.
Unicast(d, p, net, dst_if) ==
  ReliableCopies(d, p, net) \cup (IF ToBridge(d, p, net, dst_if) THEN {p} ELSE {})

InputsLeft == Cardinality(sent) + faults < MaxInputs

Disturb(p) == /\ faults' = faults + 1
              /\ disturbed' = disturbed \cup {MessageOf(p)}

-----------------------------------------------------------------------------
(* handle_packet() after update_neighbours() *)

Duplicate(d, p, net, rest) ==
  /\ IsDuplicate(d, p, net)
  /\ inflight' = rest
  /\ UNCHANGED <<published, accepted_at, failed, faults, disturbed>>

Untrackable(d, p, net, rest) ==
  /\ IsUntrackable(d, p, net)
  /\ inflight' = rest
  /\ disturbed' = disturbed \cup {MessageOf(p)}
  /\ UNCHANGED <<published, accepted_at, failed, faults>>

Accept(d, id) == accepted_at' = [accepted_at EXCEPT ![d] = Put(@, id, now)]

ForwardPacket(d, p, net, src_if, dst_if, rest) ==
  /\ IsNew(d, p, net, {})
  /\ Forward(d, p, rest, ToBroker(d, p, dst_if),
             ToNetworkInterfaces(Interfaces(d), p, net, src_if, dst_if),
             Unicast(d, p, net, dst_if))
  /\ Accept(d, Identity(d, p, net))
  /\ UNCHANGED <<failed, faults, disturbed>>

\* The write to the broker fails, or one to an interface after others were made, or
\* those of some of the unicast packets; the last neighbour's is the packet's
\* destination when the entry is to be removed.
ForwardFails(d, p, net, src_if, dst_if, rest) ==
  LET links == ToNetworkInterfaces(Interfaces(d), p, net, src_if, dst_if)
      unicast == Unicast(d, p, net, dst_if) IN
  /\ InputsLeft
  /\ \/ /\ ToBroker(d, p, dst_if)
        /\ Forward(d, p, rest, FALSE, {}, {})
        /\ IsNew(d, p, net, {PacketKey(p)})
     \/ \E written \in (SUBSET links) \ {links} :
          /\ Forward(d, p, rest, ToBroker(d, p, dst_if), written, {})
          /\ IsNew(d, p, net, {PacketKey(p)})
     \/ \E written \in (SUBSET unicast) \ {unicast}, last \in unicast :
          /\ Forward(d, p, rest, ToBroker(d, p, dst_if), links, written)
          /\ IsNew(d, p, net, {PacketKey(last)})
  /\ Accept(d, Identity(d, p, net))
  /\ failed' = failed \cup {<<d, Identity(d, p, net)>>}
  /\ Disturb(p)

HandlePacket(d, p, net, src_if, dst_if, rest) ==
  \/ Duplicate(d, p, net, rest)
  \/ Untrackable(d, p, net, rest)
  \/ ForwardPacket(d, p, net, src_if, dst_if, rest)
  \/ ForwardFails(d, p, net, src_if, dst_if, rest)

-----------------------------------------------------------------------------
(* handle_broker_cmdu_tx_message(): the CMDU gets a message identity of its own. *)
(* Only CMDUs that are not relayed are sent to an interface of the sender's choice. *)
CmduTx(d, p, dst_if) ==
  /\ InputsLeft
  /\ \A s \in sent : MessageOf(s) # MessageOf(p)
  /\ p.relay => p.dst = Mcast
  /\ dst_if # NoIf => p.dst = Mcast /\ ~ p.relay /\ d \in dst_if
  /\ HandlePacket(d, p, FALSE, NoIf, dst_if, inflight)
  /\ sent' = sent \cup {p}
  /\ UNCHANGED <<now, neighbors_map_, removed_timeout_, handled_at>>

(* handle_interface_pollin_event() *)
Pollin(f, rest) ==
  /\ UpdateNeighbours(f.to, f.p.src)
  /\ HandlePacket(f.to, f.p, TRUE, f.src_if, NoIf, rest)
  /\ handled_at' = [handled_at EXCEPT ![f.to] = now]
  /\ UNCHANGED <<now, sent>>

Receive(f) == Pollin(f, inflight \ {f})

\* The network.
Lose(f) ==
  /\ InputsLeft
  /\ inflight' = inflight \ {f}
  /\ Disturb(f.p)
  /\ UNCHANGED <<transportVars, sent, published, accepted_at, failed, handled_at>>

DuplicateFrame(f) ==
  /\ InputsLeft
  /\ inflight' = inflight \cup {[f EXCEPT !.copy = TRUE]}
  /\ faults' = faults + 1
  /\ UNCHANGED <<transportVars, sent, published, accepted_at, failed, handled_at, disturbed>>

Tick ==
  /\ now < MaxTime
  /\ \A f \in inflight : f.due > now
  /\ now' = now + 1
  /\ UNCHANGED <<neighbors_map_, removed_timeout_, de_duplication_map_, inflight, ghostVars>>

Next ==
  \/ \E t \in Traffic : CmduTx(t[1].src, t[1], t[2])
  \/ \E f \in inflight : Receive(f) \/ Lose(f) \/ DuplicateFrame(f)
  \/ Tick

Spec == Init /\ [][Next]_vars

-----------------------------------------------------------------------------
IsMap(map, K) == DOMAIN map \subseteq K /\ map \in [DOMAIN map -> Nat]

\* The de-duplication map never has more than kMaximumDeDuplicationThreads entries.
TypeOK ==
  /\ now \in Nat
  /\ DOMAIN neighbors_map_ = Devices
  /\ DOMAIN de_duplication_map_ = Devices
  /\ DOMAIN accepted_at = Devices
  /\ \A d \in Devices : /\ IsMap(neighbors_map_[d], Devices)
                        /\ IsMap(de_duplication_map_[d], DeDuplicationKey)
                        /\ Cardinality(DOMAIN de_duplication_map_[d]) <= MaxThreads
                        /\ IsMap(accepted_at[d], DeDuplicationKey)
  /\ removed_timeout_ \in [Devices -> Nat]
  /\ inflight \subseteq Frame
  /\ sent \subseteq Packet
  /\ published \in [Devices -> [Devices \X Mids -> Nat]]
  /\ failed \subseteq Devices \X DeDuplicationKey
  /\ handled_at \in [Devices -> Nat]
  /\ faults \in Nat
  /\ disturbed \subseteq Devices \X Mids

\* update_neighbours() scans rarely, yet when a packet has been handled no neighbour is
\* in the table that was silent for more than kMaximumNeighbourAge and one second.
NoStaleNeighbour ==
  \A d \in Devices : \A n \in DOMAIN neighbors_map_[d] :
    handled_at[d] - neighbors_map_[d][n] <= MaxNeighbourAge + 1

\* The packets that a step takes for new ones although they were before.
AcceptedAgain(d) ==
  {k \in DOMAIN accepted_at[d] : accepted_at'[d][k] # accepted_at[d][k] /\ <<d, k>> \notin failed}

\* de_duplicate_packet(): unless forwarding it failed, no device takes a packet for a new
\* one twice within kMaximumDeDuplicationAge, whether it comes as multicast or unicast.
ForwardedOncePerAge ==
  [][\A d \in Devices : \A k \in AcceptedAgain(d) : now > accepted_at[d][k] + MaxDeDupAge]_vars

\* de_duplicate_packet(): "long enough to allow for any buffered/in-transit duplicate
\* packets to be flushed": with frames that take up to MaxDelay a hop, a relayed packet
\* that goes round a loop is never taken for a new one.
NoRelayLoop ==
  [][\A d \in Devices : \A k \in AcceptedAgain(d) : \E e \in Devices : <<e, k>> \in failed]_vars

\* A message that no fault disturbed has left the network.
Settled(p) ==
  MessageOf(p) \notin disturbed /\ \A f \in inflight : MessageOf(f.p) # MessageOf(p)

\* forward_packet(): once it has left the network undisturbed, a relayed multicast that is
\* not reliable was published by every device, and a unicast by its destination once.
EveryDestinationHears ==
  \A p \in sent :
    Settled(p) =>
      /\ p.relay /\ p.mid \notin Reliable => \A d \in Devices : published[d][MessageOf(p)] = 1
      /\ p.dst \in Devices => published[p.dst][MessageOf(p)] = 1

Adjacent(d) == (UNION Interfaces(d)) \ {d}

\* forward_packet(): a device that has its sender on one of its links publishes a reliable
\* multicast that left the network undisturbed exactly once, though it gets two copies of
\* it, and no device but the sender publishes it twice.
NeighboursHearReliableOnce ==
  \A p \in sent :
    Settled(p) /\ p.mid \in Reliable /\ p.relay =>
      \A d \in Devices \ {p.src} :
        published[d][MessageOf(p)] \in IF d \in Adjacent(p.src) THEN {1} ELSE {0, 1}

-----------------------------------------------------------------------------
(* What the comment on the forwarding rules says of reliable multicast *)

\* "Such a packet should only be published once on the local bus (de duplicated)": a device
\* whose forwarding was not disturbed publishes no message twice.
PublishedOnce ==
  \A p \in sent : MessageOf(p) \notin disturbed =>
    \A d \in Devices : published[d][MessageOf(p)] <= 1

\* "Network, Multicast && relay==1: + (all but originating intf)": a relayed reliable
\* multicast that left the network undisturbed was published by every device.
RelayedReliableReachesAll ==
  \A p \in sent : Settled(p) /\ p.mid \in Reliable /\ p.relay =>
    \A d \in Devices : published[d][MessageOf(p)] >= 1

=============================================================================
