---------------------------- MODULE Fragmentation ----------------------------
(***************************************************************************)
(* How the transport of one device, tx, splits CMDUs into fragments         *)
(* (fragment_and_send_packet_to_network_interface) and that of another, rx, *)
(* puts them together again (de_fragment_packet), behind the neighbour      *)
(* table and the de-duplication of rx.                                      *)
(*                                                                         *)
(* A CMDU is the sequence of the offsets at which its TLVs end, the last of *)
(* them the end-of-message TLV.  A TLV in a frame or buffer is [call, pos]: *)
(* position pos of the CMDU sent by that call.  Pad stands for the bytes    *)
(* that Ethernet adds to a short frame, which read as an end-of-message     *)
(* TLV.  Sizes are without the IEEE 1905 header.  All CMDUs have one        *)
(* messageType and no messageId set by the sender; the bad formats that a   *)
(* local CMDU cannot have are left out.                                     *)
(***************************************************************************)
EXTENDS Ieee1905Transport, Sequences

CONSTANTS tx, rx,
          Cmdus,              \* the CMDUs that the local bus of tx sends
          Threshold,          \* kIeee1905FragmentationThreashold
          MessageIds,         \* 65536, the values of the 16-bit messageId
          FragmentIds,        \* 256, the values of the 8-bit fragmentId
          MaxBuffer,          \* kMaximumDeFragmentionSize
          MinBody,            \* a shorter frame is padded to this size
          MaxDeFragAge,       \* kMaximumDeFragmentationAge
          MaxDeFragThreads,   \* kMaximumDeFragmentationThreads
          MaxDelay,           \* the longest time a frame is in flight
          RestartTime,        \* the shortest time a restart takes
          MaxCalls, MaxFaults, MaxTime   \* bounds

\* The age is "long enough to allow for any buffered/in-transit fragments to arrive"
\* and "short enough to handle the case when a device reboots".
ASSUME DeFragAgeAssumption ==
  /\ MaxDelay <= MaxDeFragAge /\ MaxDelay <= MaxDeDupAge
  /\ MaxDelay + MaxDeFragAge < RestartTime /\ MaxDelay + MaxDeDupAge < RestartTime

\* Each TLV of a CMDU ends after the one before it.
ASSUME CmduAssumption ==
  \A cmdu \in Cmdus :
    /\ cmdu \in Seq(Nat \ {0}) /\ cmdu # << >>
    /\ \A i \in 1..Len(cmdu), j \in 1..Len(cmdu) : i < j => cmdu[i] < cmdu[j]

\* The messageIds that are given out between two restarts are different ones.
ASSUME MidsAssumption ==
  /\ {tx, rx} \subseteq Devices
  /\ MaxCalls \in Nat /\ MessageIds \in Nat /\ MaxCalls < MessageIds
  /\ (0..MaxCalls) \X (0..(FragmentIds - 1)) \subseteq Mids

ASSUME SizesAssumption ==
  /\ FragmentIds \in Nat \ {0} /\ MaxBuffer \in Nat \ {0}
  /\ {Threshold, MinBody, MaxDeFragAge, MaxDeFragThreads, MaxDelay, RestartTime,
      MaxFaults, MaxTime} \subseteq Nat

VARIABLES message_id_,           \* of tx
          ready_at,              \* tx is up from this time on
          sending,               \* the local variables of the fragmentation loop
          de_fragmentation_map_, \* of rx, by messageId
          inflight,
          calls,                 \* the CMDUs that tx was given to send, when their frames are
                                 \* due, where their fragments end, and what became of them
          published,             \* what rx published
          disturbed,             \* the calls that a fault or a limit hit
          faults

fragVars == <<message_id_, ready_at, sending>>
vars == <<transportVars, fragVars, de_fragmentation_map_, inflight, calls, published,
          disturbed, faults>>

Idle == [next |-> 0, fragmentId |-> 0]

Pad == [call |-> 0, pos |-> 0]

\* The size of the TLVs of a CMDU from one position to another.
Size(cmdu, first, last) ==
  (IF last = 0 THEN 0 ELSE cmdu[last]) - (IF first = 1 THEN 0 ELSE cmdu[first - 1])

\* The TLVs of a call from one position to another.
Tlvs(n, first, last) == [i \in 1..(last - first + 1) |-> [call |-> n, pos |-> first + i - 1]]

Init ==
  /\ TransportInit
  /\ message_id_ = 0
  /\ ready_at = 0
  /\ sending = Idle
  /\ de_fragmentation_map_ = EmptyMap
  /\ inflight = {}
  /\ calls = << >>
  /\ published = << >>
  /\ disturbed = {}
  /\ faults = 0

-----------------------------------------------------------------------------
(* fragment_and_send_packet_to_network_interface() *)

\* The frame with the TLVs of call n from first to last, and what is added to it.
Frame(n, cmdu, mid, id, first, last) ==
  LET length == Size(cmdu, first, last) IN
  [call |-> n, mid |-> mid, id |-> id, last |-> last = Len(cmdu),
   body |-> Tlvs(n, first, last), length |-> length,
   pad |-> IF length < MinBody THEN << Pad >> ELSE << >>,
   size |-> IF length < MinBody THEN MinBody ELSE length, copy |-> FALSE]

\* The CMDU gets the next messageId; up to the threshold it is sent as it is.
CmduTx(cmdu) ==
  LET n == Len(calls) + 1
      mid == (message_id_ + 1) % MessageIds
      whole == Size(cmdu, 1, Len(cmdu)) <= Threshold IN
  /\ sending = Idle
  /\ now >= ready_at
  /\ n <= MaxCalls
  /\ message_id_' = mid
  /\ calls' = Append(calls, [cmdu |-> cmdu, mid |-> mid, due |-> now + MaxDelay,
                             cuts |-> IF whole THEN << Len(cmdu) >> ELSE << >>,
                             last |-> whole, result |-> IF whole THEN "true" ELSE "none"])
  /\ IF whole
     THEN /\ inflight' = inflight \cup {Frame(n, cmdu, mid, 0, 1, Len(cmdu))}
          /\ UNCHANGED sending
     ELSE /\ sending' = [next |-> 1, fragmentId |-> 0]
          /\ UNCHANGED inflight
  /\ UNCHANGED <<transportVars, ready_at, de_fragmentation_map_, published, disturbed, faults>>

\* How far the loop gets from position first: the TLVs it includes stay below the
\* threshold together.
IsEnd(cmdu, first, end) ==
  /\ end \in (first - 1)..Len(cmdu)
  /\ end >= first => Size(cmdu, first, end) < Threshold
  /\ end < Len(cmdu) => Size(cmdu, first, end + 1) >= Threshold

\* It refuses a TLV above the threshold when it gets to it.
Oversized(cmdu, end) == end < Len(cmdu) /\ Size(cmdu, end + 1, end + 1) > Threshold

Returns(value) == calls' = [calls EXCEPT ![Len(calls)].result = value]

\* One iteration; the loop ends after the last TLV or the last fragmentId.
SendFragment(end) ==
  LET n == Len(calls)
      c == calls[n]
      done == end = Len(c.cmdu) \/ sending.fragmentId = FragmentIds - 1 IN
  /\ sending # Idle
  /\ IsEnd(c.cmdu, sending.next, end)
  /\ ~ Oversized(c.cmdu, end)
  /\ calls' = [calls EXCEPT ![n] = [c EXCEPT !.cuts = Append(@, end), !.last = (end = Len(c.cmdu)),
                                             !.result = IF done THEN "true" ELSE "none"]]
  /\ inflight' = inflight \cup {Frame(n, c.cmdu, c.mid, sending.fragmentId, sending.next, end)}
  /\ sending' = IF done THEN Idle
                ELSE [next |-> end + 1, fragmentId |-> sending.fragmentId + 1]
  /\ UNCHANGED <<transportVars, message_id_, ready_at, de_fragmentation_map_, published,
                 disturbed, faults>>

RefuseTlv(end) ==
  /\ sending # Idle
  /\ IsEnd(calls[Len(calls)].cmdu, sending.next, end)
  /\ Oversized(calls[Len(calls)].cmdu, end)
  /\ Returns("false")
  /\ sending' = Idle
  /\ UNCHANGED <<transportVars, message_id_, ready_at, de_fragmentation_map_, inflight,
                 published, disturbed, faults>>

Fault(n) ==
  /\ faults < MaxFaults
  /\ faults' = faults + 1
  /\ disturbed' = disturbed \cup {n}

\* The write of a fragment fails (that of a whole CMDU has the effect of Lose).
WriteFails ==
  /\ sending # Idle
  /\ Fault(Len(calls))
  /\ Returns("false")
  /\ sending' = Idle
  /\ UNCHANGED <<transportVars, message_id_, ready_at, de_fragmentation_map_, inflight,
                 published>>

\* tx goes down, in the middle of a CMDU or not, and begins with the first messageId.
Restart ==
  /\ calls # << >>
  /\ Fault(IF sending = Idle THEN 0 ELSE Len(calls))
  /\ message_id_' = 0
  /\ ready_at' = now + RestartTime
  /\ sending' = Idle
  /\ UNCHANGED <<transportVars, de_fragmentation_map_, inflight, calls, published>>

-----------------------------------------------------------------------------
(* de_fragment_packet() *)

NewEntry == [time |-> 0, numFragments |-> 0, buf |-> << >>, bufIndex |-> 0, complete |-> FALSE]

\* Two mutants: an entry is never too old, or too old a moment too early.
NeverTooOld(entry) == FALSE

TooOldAtAge(entry) == now >= entry.time + MaxDeFragAge

TooOld(entry) == now > entry.time + MaxDeFragAge

CleanedUp ==
  Only(de_fragmentation_map_,
       {mid \in DOMAIN de_fragmentation_map_ :
          ~ de_fragmentation_map_[mid].complete /\ ~ TooOld(de_fragmentation_map_[mid])})

\* The entry of the frame, made if there is none, with the time of the frame.
EntryOf(f) ==
  [(IF f.mid \in DOMAIN CleanedUp THEN CleanedUp[f.mid] ELSE NewEntry) EXCEPT !.time = now]

\* A mutant: the size is compared before the entry is made.
TooManyThreadsBefore(f) == Cardinality(DOMAIN CleanedUp) > MaxDeFragThreads

TooManyThreads(f) == Cardinality(DOMAIN CleanedUp \cup {f.mid}) > MaxDeFragThreads

Stored(f, entry) == de_fragmentation_map_' = Put(CleanedUp, f.mid, entry)

Fragmented(f) == f.id # 0 \/ ~ f.last

NoThread(f) ==
  /\ TooManyThreads(f)
  /\ de_fragmentation_map_' = Only(CleanedUp, DOMAIN CleanedUp \ {f.mid})

\* A fragment other than the expected one is dropped, but its entry stays or is made.
OutOfOrder(f) ==
  /\ ~ TooManyThreads(f)
  /\ EntryOf(f).numFragments # f.id
  /\ Stored(f, EntryOf(f))

\* The first fragment begins the buffer anew; its header is that of the CMDU.
Headed(f) ==
  IF f.id = 0 THEN [EntryOf(f) EXCEPT !.buf = << >>, !.bufIndex = 0] ELSE EntryOf(f)

Overflows(f) == Headed(f).bufIndex + f.size >= MaxBuffer

Overflow(f) ==
  /\ ~ TooManyThreads(f)
  /\ EntryOf(f).numFragments = f.id
  /\ Overflows(f)
  /\ Stored(f, Headed(f))

\* All but the last fragment end before the first padding.
Collected(f) ==
  [Headed(f) EXCEPT !.numFragments = (@ + 1) % FragmentIds,
                    !.buf = @ \o f.body \o (IF f.last THEN f.pad ELSE << >>),
                    !.bufIndex = @ + (IF f.last THEN f.size ELSE f.length),
                    !.complete = f.last]

Collects(f) == ~ TooManyThreads(f) /\ EntryOf(f).numFragments = f.id /\ ~ Overflows(f)

Collect(f) == Collects(f) /\ Stored(f, Collected(f))

\* A CMDU that is not fragmented does not touch the map.
DeFragment(f) ==
  \/ ~ Fragmented(f) /\ UNCHANGED de_fragmentation_map_
  \/ Fragmented(f) /\ (NoThread(f) \/ OutOfOrder(f) \/ Overflow(f) \/ Collect(f))

\* What goes to the broker.
Output(f) ==
  IF ~ Fragmented(f) THEN << f.body \o f.pad >>
  ELSE IF f.last /\ Collects(f) THEN << Collected(f).buf >> ELSE << >>

-----------------------------------------------------------------------------
(* The network, and the rest of handle_packet() at rx *)

PacketOf(f) == [src |-> tx, dst |-> rx, mid |-> <<f.mid, f.id>>, relay |-> FALSE]

\* An earlier fragment of the CMDU is still in flight.
Overtakes(f) == \E g \in inflight : g.call = f.call /\ g.id < f.id /\ ~ g.copy

HitsLimit(f) == Fragmented(f) /\ (TooManyThreads(f) \/ Overflows(f))

Duplicate(f) ==
  /\ IsDuplicate(rx, PacketOf(f), TRUE)
  /\ UNCHANGED <<de_fragmentation_map_, published, disturbed, faults>>

Untrackable(f) ==
  /\ IsUntrackable(rx, PacketOf(f), TRUE)
  /\ disturbed' = disturbed \cup {f.call}
  /\ UNCHANGED <<de_fragmentation_map_, published, faults>>

Forward(f) ==
  /\ IsNew(rx, PacketOf(f), TRUE, {})
  /\ DeFragment(f)
  /\ published' = published \o Output(f)
  /\ disturbed' = disturbed \cup (IF Overtakes(f) \/ HitsLimit(f) THEN {f.call} ELSE {})
  /\ UNCHANGED faults

\* The broker cannot be reached: the packet is no longer known, its entry is complete.
PublishFails(f) ==
  /\ Output(f) # << >>
  /\ IsNew(rx, PacketOf(f), TRUE, {PacketKey(PacketOf(f))})
  /\ \/ ~ Fragmented(f) /\ UNCHANGED de_fragmentation_map_
     \/ Fragmented(f) /\ Collect(f)
  /\ Fault(f.call)
  /\ UNCHANGED published

Receive(f) ==
  /\ inflight' = inflight \ {f}
  /\ UpdateNeighbours(rx, tx)
  /\ Duplicate(f) \/ Untrackable(f) \/ Forward(f) \/ PublishFails(f)
  /\ UNCHANGED <<now, fragVars, calls>>

Lose(f) ==
  /\ Fault(f.call)
  /\ inflight' = inflight \ {f}
  /\ UNCHANGED <<transportVars, fragVars, de_fragmentation_map_, calls, published>>

DuplicateFrame(f) ==
  /\ faults < MaxFaults
  /\ faults' = faults + 1
  /\ inflight' = inflight \cup {[f EXCEPT !.copy = TRUE]}
  /\ UNCHANGED <<transportVars, fragVars, de_fragmentation_map_, calls, published, disturbed>>

\* A CMDU is sent without waiting between its fragments.
Tick ==
  /\ now < MaxTime
  /\ sending = Idle
  /\ \A f \in inflight : calls[f.call].due > now
  /\ now' = now + 1
  /\ UNCHANGED <<neighbors_map_, removed_timeout_, de_duplication_map_, fragVars,
                 de_fragmentation_map_, inflight, calls, published, disturbed, faults>>

Next ==
  \/ \E cmdu \in Cmdus : CmduTx(cmdu)
  \/ sending # Idle /\ \E end \in 0..Len(calls[Len(calls)].cmdu) :
                        SendFragment(end) \/ RefuseTlv(end)
  \/ WriteFails \/ Restart
  \/ \E f \in inflight : Receive(f) \/ Lose(f) \/ DuplicateFrame(f)
  \/ Tick

Spec == Init /\ [][Next]_vars

-----------------------------------------------------------------------------
Tlv == [call : Nat, pos : Nat]

Call == [cmdu : Cmdus, mid : Nat, due : Nat, cuts : Seq(Nat), last : BOOLEAN,
         result : {"none", "true", "false"}]

FrameInFlight == [call : Nat, mid : Nat, id : 0..(FragmentIds - 1), last : BOOLEAN,
                  body : Seq(Tlv), length : Nat, pad : Seq(Tlv), size : Nat, copy : BOOLEAN]

DeFragmentationValue == [time : Nat, numFragments : 0..(FragmentIds - 1), buf : Seq(Tlv),
                         bufIndex : 0..(MaxBuffer - 1), complete : BOOLEAN]

\* The variables have their types; above all, the de-fragmentation map never has more
\* than kMaximumDeFragmentationThreads entries, and no buffer is ever filled to its size.
TypeOK ==
  /\ now \in Nat /\ ready_at \in Nat
  /\ message_id_ \in Nat /\ message_id_ < MessageIds
  /\ sending \in [next : Nat, fragmentId : 0..(FragmentIds - 1)]
  /\ \A mid \in DOMAIN de_fragmentation_map_ : de_fragmentation_map_[mid] \in DeFragmentationValue
  /\ Cardinality(DOMAIN de_fragmentation_map_) <= MaxDeFragThreads
  /\ inflight \subseteq FrameInFlight
  /\ calls \in Seq(Call)
  /\ published \in Seq(Seq(Tlv))
  /\ disturbed \subseteq 0..Len(calls)
  /\ faults \in 0..MaxFaults

IsCmdu(content, n) ==
  LET whole == Tlvs(n, 1, Len(calls[n].cmdu)) IN content \in {whole, Append(whole, Pad)}

\* de_fragment_packet(): whatever is lost, duplicated, reordered or cut short, also by a
\* restart after which tx uses a messageId again, each CMDU that rx publishes is one
\* that tx was given, TLV by TLV, and none is published twice.
PublishedAsSent ==
  \A i \in 1..Len(published) :
    \E n \in 1..Len(calls) :
      /\ IsCmdu(published[i], n)
      /\ \A j \in 1..Len(published) : j # i => ~ IsCmdu(published[j], n)

\* A CMDU whose last fragment was sent, whose fragments arrived in order and which no
\* fault or limit hit, is published once its frames have left the network: the age at
\* which entries are dropped "allow[s] for any buffered/in-transit fragments to arrive".
InOrderIsPublished ==
  \A n \in 1..Len(calls) :
    calls[n].last /\ n \notin disturbed /\ (\A f \in inflight : f.call # n)
      => \E i \in 1..Len(published) : IsCmdu(published[i], n)

-----------------------------------------------------------------------------
(* What comments on the fragmentation say *)

\* Only a TLV above the threshold "is too large to fit in any fragment", and a packet
\* that "is too long" is refused: a call that returns true has sent the last fragment.
SuccessIsComplete == \A n \in 1..Len(calls) : calls[n].result = "true" => calls[n].last

=============================================================================
