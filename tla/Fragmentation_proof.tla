------------------------- MODULE Fragmentation_proof -------------------------
(***************************************************************************)
(* Proofs about Fragmentation, for any CMDUs, sizes, ages and limits, and   *)
(* any number of faults: the map and the buffers keep their limits          *)
(* (TypeOK), what is published is a CMDU that was sent, once                *)
(* (PublishedAsSent), and what arrives in order is published                *)
(* (InOrderIsPublished).                                                    *)
(***************************************************************************)
EXTENDS Fragmentation, TLAPS

\* The position after which fragment k of a call begins.
CutAt(c, k) == IF k = 0 THEN 0 ELSE c.cuts[k]

\* The fragments of a call follow each other, and only the last one has the last TLV.
CutsInv(c) ==
  /\ Len(c.cuts) <= FragmentIds
  /\ \A k \in 0..Len(c.cuts) : CutAt(c, k) \in 0..Len(c.cmdu)
  /\ \A k \in 1..Len(c.cuts) : CutAt(c, k - 1) <= CutAt(c, k) /\ CutAt(c, k - 1) < Len(c.cmdu)
  /\ c.last <=> CutAt(c, Len(c.cuts)) = Len(c.cmdu)

\* The call begins after, and its frames are gone before, those of a later call with the
\* same messageId.  The calls since the last restart have the messageIds from 1 on.
EpochInv ==
  /\ message_id_ \in 0..Len(calls) /\ Len(calls) <= MaxCalls
  /\ ready_at <= now + RestartTime
  /\ message_id_ > 0 => ready_at <= now
  /\ \A n \in 1..Len(calls) :
       /\ calls[n].due <= now + MaxDelay
       /\ calls[n].mid \in 1..MaxCalls
       /\ IF n > Len(calls) - message_id_
          THEN calls[n].mid = n - (Len(calls) - message_id_)
          ELSE calls[n].due + RestartTime <= ready_at + MaxDelay
  /\ \A n \in 1..Len(calls), m \in 1..Len(calls) :
       n < m /\ calls[n].mid = calls[m].mid => calls[n].due + RestartTime <= calls[m].due

\* The locals of the loop agree with the fragments sent so far.
SendingInv ==
  sending # Idle =>
    LET c == calls[Len(calls)] IN
    /\ calls # << >> /\ ~ c.last /\ c.due = now + MaxDelay
    /\ Len(c.cuts) = sending.fragmentId
    /\ sending.next = CutAt(c, Len(c.cuts)) + 1

\* A frame in flight is a fragment of a call that is not overdue.
FrameInv(f) ==
  /\ f.call \in 1..Len(calls)
  /\ LET c == calls[f.call] IN
     /\ now <= c.due
     /\ f.mid = c.mid /\ f.id < Len(c.cuts)
     /\ f.body = Tlvs(f.call, CutAt(c, f.id) + 1, CutAt(c, f.id + 1))
     /\ f.last <=> CutAt(c, f.id + 1) = Len(c.cmdu)
     /\ f.pad \in {<< >>, << Pad >>} /\ f.length <= f.size

\* The key under which rx stores a packet of tx.
StoredKey(mid, id) ==
  [src |-> tx, dst |-> IF <<mid, id>> \in Reliable THEN Mcast ELSE rx, mid |-> <<mid, id>>]

KeysInv(map) ==
  \A k \in DOMAIN map :
    /\ map[k] \in Nat
    /\ \E n \in 1..Len(calls), id \in 0..(FragmentIds - 1) :
         k = StoredKey(calls[n].mid, id) /\ map[k] <= calls[n].due

\* An incomplete entry that has begun holds the first fragments of one call.
EntryInv(mid, e) ==
  \E n \in 1..Len(calls) :
    /\ calls[n].mid = mid /\ e.time <= calls[n].due
    /\ ~ e.complete /\ e.numFragments # 0 =>
         /\ e.numFragments <= Len(calls[n].cuts)
         /\ e.buf = Tlvs(n, 1, CutAt(calls[n], e.numFragments))

\* rx knows a fragment of call n, and has not known it from an earlier call.
Knows(n, id) ==
  LET k == StoredKey(calls[n].mid, id) IN
  /\ k \in DOMAIN de_duplication_map_[rx]
  /\ calls[n].due <= de_duplication_map_[rx][k] + MaxDelay

IsPublished(n) == \E i \in 1..Len(published) : IsCmdu(published[i], n)

\* A call is published at most once: rx knows the last fragment while one is in flight.
PublishedInv ==
  /\ \A i \in 1..Len(published) : \E n \in 1..Len(calls) : IsCmdu(published[i], n)
  /\ \A i \in 1..Len(published), j \in 1..Len(published), n \in 1..Len(calls) :
       IsCmdu(published[i], n) /\ IsCmdu(published[j], n) => i = j
  /\ \A n \in 1..Len(calls) : IsPublished(n) => calls[n].last
  /\ \A f \in inflight : f.last /\ IsPublished(f.call) => Knows(f.call, f.id)

IInv ==
  /\ TypeOK
  /\ IsFiniteSet(DOMAIN de_fragmentation_map_)
  /\ DOMAIN de_duplication_map_ = Devices
  /\ \A n \in 1..Len(calls) : CutsInv(calls[n])
  /\ EpochInv /\ SendingInv
  /\ \A f \in inflight : FrameInv(f)
  /\ KeysInv(de_duplication_map_[rx])
  /\ \A mid \in DOMAIN de_fragmentation_map_ : EntryInv(mid, de_fragmentation_map_[mid])
  /\ PublishedInv

\* The call is sent to the end, or still being sent.
Whole(n) == calls[n].last \/ (n = Len(calls) /\ sending # Idle)

\* rx takes the fragment for a new one when it comes: a key it has is of an earlier call.
NotKnown(n, id) ==
  LET k == StoredKey(calls[n].mid, id) IN
  k \in DOMAIN de_duplication_map_[rx] =>
    de_duplication_map_[rx][k] + MaxDeDupAge + MaxDelay < calls[n].due

\* rx has collected the first j fragments of call n, and no other.
HasCollected(n, j) ==
  LET mid == calls[n].mid
      e == de_fragmentation_map_[mid] IN
  IF j = 0
  THEN mid \in DOMAIN de_fragmentation_map_ =>
         \/ e.complete \/ e.numFragments = 0
         \/ e.time + MaxDeFragAge + MaxDelay < calls[n].due
  ELSE /\ mid \in DOMAIN de_fragmentation_map_ /\ ~ e.complete
       /\ e.numFragments = j /\ calls[n].due <= e.time + MaxDelay

\* The first j fragments have come in order and the others are in flight.
Arrived(n, j) ==
  /\ calls[n].last => j < Len(calls[n].cuts)
  /\ \A id \in j..(Len(calls[n].cuts) - 1) :
       \E f \in inflight : f.call = n /\ f.id = id /\ ~ f.copy
  /\ \A id \in 0..(FragmentIds - 1) : IF id < j THEN Knows(n, id) ELSE NotKnown(n, id)
  /\ HasCollected(n, j)

OrderInv ==
  \A n \in 1..Len(calls) :
    n \notin disturbed /\ ~ IsPublished(n) /\ Whole(n) =>
      \E j \in 0..Len(calls[n].cuts) : Arrived(n, j)

-----------------------------------------------------------------------------
(* Sequences and finite sets *)

\* The empty sequence, and that no other is of length 0.
LEMMA SeqEmpty ==
  ASSUME NEW S
  PROVE  /\ << >> \in Seq(S) /\ Len(<< >>) = 0
         /\ \A s \in Seq(S) : s # << >> => Len(s) \in Nat \ {0}
OBVIOUS

\* A sequence is a function on the numbers up to its length.
LEMMA SeqLength ==
  ASSUME NEW S, NEW s \in Seq(S)
  PROVE  Len(s) \in Nat /\ s \in [1..Len(s) -> S] /\ DOMAIN s = 1..Len(s)
OBVIOUS

\* An element of a sequence.
LEMMA SeqElement ==
  ASSUME NEW S, NEW s \in Seq(S), NEW n \in 1..Len(s)
  PROVE  s[n] \in S
OBVIOUS

\* A function on the numbers up to n is a sequence.
LEMMA SeqOfFunction ==
  ASSUME NEW S, NEW n \in Nat, NEW f \in [1..n -> S]
  PROVE  f \in Seq(S)
OBVIOUS

\* Two sequences with the same elements are the same.
LEMMA SeqSame ==
  ASSUME NEW S, NEW s \in Seq(S), NEW t \in Seq(S), Len(s) = Len(t),
         \A i \in 1..Len(s) : s[i] = t[i]
  PROVE  s = t
OBVIOUS

\* Two sequences after each other.
LEMMA SeqConcat ==
  ASSUME NEW S, NEW s \in Seq(S), NEW t \in Seq(S)
  PROVE  /\ s \o t \in Seq(S) /\ Len(s \o t) = Len(s) + Len(t)
         /\ \A i \in 1..(Len(s) + Len(t)) :
              (s \o t)[i] = IF i <= Len(s) THEN s[i] ELSE t[i - Len(s)]
OBVIOUS

\* The empty sequence before or after another.
LEMMA SeqConcatEmpty ==
  ASSUME NEW S, NEW s \in Seq(S)
  PROVE  s \o << >> = s /\ << >> \o s = s
OBVIOUS

\* What the proofs need to know of finite sets.  FiniteSetLawsHold, below, is where the
\* theorems of the library come in; the lemmas before it only assume these laws.
FiniteSetLaws ==
  /\ IsFiniteSet({}) /\ Cardinality({}) = 0
  /\ \A S : IsFiniteSet(S) => Cardinality(S) \in Nat
  /\ \A S, T : IsFiniteSet(S) /\ T \subseteq S => IsFiniteSet(T) /\ Cardinality(T) <= Cardinality(S)
  /\ \A S, x : IsFiniteSet(S) => IsFiniteSet(S \cup {x})

-----------------------------------------------------------------------------
(* TLVs and CMDUs *)

\* The types of the parts of a call.
LEMMA CallType ==
  ASSUME NEW c \in Call
  PROVE  /\ c.cmdu \in Cmdus /\ Len(c.cmdu) \in Nat /\ Len(c.cmdu) >= 1
         /\ c.mid \in Nat /\ c.due \in Nat /\ c.last \in BOOLEAN
         /\ c.cuts \in Seq(Nat) /\ Len(c.cuts) \in Nat
<1>1. /\ c.cmdu \in Cmdus /\ c.mid \in Nat /\ c.due \in Nat /\ c.last \in BOOLEAN
      /\ c.cuts \in Seq(Nat)
  BY Zenon DEF Call
<1>2. c.cmdu \in Seq(Nat \ {0}) /\ c.cmdu # << >>
  BY <1>1, CmduAssumption, Zenon
<1>3. Len(c.cmdu) \in Nat \ {0} /\ Len(c.cuts) \in Nat
  BY <1>1, <1>2, SeqEmpty, SeqLength, Zenon
<1> QED BY <1>1, <1>3

\* The calls of send_tlv_packet() so far are a finite sequence of calls.
LEMMA CallsType ==
  ASSUME TypeOK
  PROVE  Len(calls) \in Nat /\ \A n \in 1..Len(calls) : calls[n] \in Call /\ n \in Nat
<1>1. calls \in Seq(Call)
  BY Zenon DEF TypeOK
<1> QED BY <1>1, SeqElement, SeqLength

\* The TLVs between two positions are a sequence.
LEMMA TlvsType ==
  ASSUME NEW n \in Nat, NEW a \in Nat, NEW b \in Nat, a <= b
  PROVE  /\ Tlvs(n, a + 1, b) \in Seq(Tlv)
         /\ Len(Tlvs(n, a + 1, b)) = b - a
         /\ \A i \in 1..(b - a) : Tlvs(n, a + 1, b)[i] = [call |-> n, pos |-> a + i]
<1> DEFINE tlvs == [i \in 1..(b - a) |-> [call |-> n, pos |-> a + i]]
<1>1. b - (a + 1) + 1 = b - a /\ b - a \in Nat
  OBVIOUS
<1>2. \A i \in 1..(b - a) : (a + 1) + i - 1 = a + i /\ a + i \in Nat
  OBVIOUS
<1>3. Tlvs(n, a + 1, b) = tlvs
  BY <1>1, <1>2, Zenon DEF Tlvs
<1>4. tlvs \in [1..(b - a) -> Tlv]
  BY <1>2, Zenon DEF Tlv
<1>5. tlvs \in Seq(Tlv)
  BY <1>1, <1>4, SeqOfFunction, Zenon
<1>6. DOMAIN tlvs = 1..(b - a) /\ DOMAIN tlvs = 1..Len(tlvs) /\ Len(tlvs) \in Nat
  BY <1>5, SeqLength, Zenon
<1>7. Len(tlvs) = b - a
  <2> HIDE DEF tlvs
  <2> QED BY <1>1, <1>6
<1>8. \A i \in 1..(b - a) : tlvs[i] = [call |-> n, pos |-> a + i]
  BY Zenon
<1> HIDE DEF tlvs
<1> QED
  BY <1>3, <1>5, <1>7, <1>8, Zenon

\* The same from the first position on.
LEMMA FirstTlvs ==
  ASSUME NEW n \in Nat, NEW b \in Nat
  PROVE  /\ Tlvs(n, 1, b) \in Seq(Tlv) /\ Len(Tlvs(n, 1, b)) = b
         /\ \A i \in 1..b : Tlvs(n, 1, b)[i] = [call |-> n, pos |-> i]
<1> DEFINE zero == 0
<1>1. zero \in Nat /\ zero <= b /\ zero + 1 = 1 /\ b - zero = b /\ \A i \in 1..b : zero + i = i
  OBVIOUS
<1> HIDE DEF zero
<1>2. /\ Tlvs(n, zero + 1, b) \in Seq(Tlv)
      /\ Len(Tlvs(n, zero + 1, b)) = b - zero
      /\ \A i \in 1..(b - zero) : Tlvs(n, zero + 1, b)[i] = [call |-> n, pos |-> zero + i]
  BY <1>1, TlvsType, Zenon
<1> QED BY <1>1, <1>2, Zenon

\* The TLVs up to a position, and those from there on.
LEMMA TlvsJoin ==
  ASSUME NEW n \in Nat, NEW a \in Nat, NEW b \in Nat, a <= b
  PROVE  Tlvs(n, 1, a) \o Tlvs(n, a + 1, b) = Tlvs(n, 1, b)
<1> DEFINE one == Tlvs(n, 1, a)
           two == Tlvs(n, a + 1, b)
           all == Tlvs(n, 1, b)
<1>1. /\ one \in Seq(Tlv) /\ Len(one) = a
      /\ \A i \in 1..a : one[i] = [call |-> n, pos |-> i]
  BY FirstTlvs, Zenon
<1>2. /\ all \in Seq(Tlv) /\ Len(all) = b
      /\ \A i \in 1..b : all[i] = [call |-> n, pos |-> i]
  BY FirstTlvs, Zenon
<1>3. /\ two \in Seq(Tlv) /\ Len(two) = b - a
      /\ \A i \in 1..(b - a) : two[i] = [call |-> n, pos |-> a + i]
  BY TlvsType, Zenon
<1> HIDE DEF one, two, all
<1>4. /\ one \o two \in Seq(Tlv) /\ Len(one \o two) = a + (b - a)
      /\ \A i \in 1..(a + (b - a)) : (one \o two)[i] = IF i <= a THEN one[i] ELSE two[i - a]
  <2>1. /\ one \o two \in Seq(Tlv) /\ Len(one \o two) = Len(one) + Len(two)
        /\ \A i \in 1..(Len(one) + Len(two)) :
             (one \o two)[i] = IF i <= Len(one) THEN one[i] ELSE two[i - Len(one)]
    BY <1>1, <1>3, SeqConcat, Zenon
  <2> QED BY <1>1, <1>3, <2>1, Zenon
<1>5. a + (b - a) = b /\ \A i \in 1..b : i > a => i - a \in 1..(b - a) /\ a + (i - a) = i
  OBVIOUS
<1>6. \A i \in 1..b : (one \o two)[i] = all[i]
  <2> TAKE i \in 1..b
  <2>1. CASE i <= a
    <3>1. i \in 1..a
      BY <2>1
    <3>2. (one \o two)[i] = one[i]
      BY <1>4, <1>5, <2>1, Zenon
    <3> QED BY <1>1, <1>2, <3>1, <3>2, Zenon
  <2>2. CASE ~ (i <= a)
    <3>1. (one \o two)[i] = two[i - a]
      BY <1>4, <1>5, <2>2, Zenon
    <3>2. i - a \in 1..(b - a) /\ a + (i - a) = i
      BY <2>2
    <3> QED BY <1>2, <1>3, <3>1, <3>2
  <2> QED BY <2>1, <2>2, Zenon
<1>7. one \o two = all
  BY <1>2, <1>4, <1>5, <1>6, SeqSame, Zenon
<1> QED
  BY <1>7, Zenon DEF one, two, all

\* A CMDU, padded or not, tells the call it is from.
LEMMA CmduContent ==
  ASSUME NEW n \in Nat, NEW length \in Nat, length >= 1, NEW content,
         content \in {Tlvs(n, 1, length), Append(Tlvs(n, 1, length), Pad)}
  PROVE  content \in Seq(Tlv) /\ content[1].call = n
<1> DEFINE whole == Tlvs(n, 1, length)
<1>1. whole \in Seq(Tlv) /\ Len(whole) = length /\ whole[1] = [call |-> n, pos |-> 1]
  <2>1. 1 \in 1..length
    OBVIOUS
  <2> QED BY <2>1, FirstTlvs, Zenon
<1>2. Pad \in Tlv
  BY Zenon DEF Pad, Tlv
<1>3. content \in {whole, Append(whole, Pad)}
  BY Zenon
<1> HIDE DEF whole
<1> QED BY <1>1, <1>2, <1>3, SMTT(30)

\* A whole CMDU is a sequence of TLVs, the first of which tells the call it is from.
LEMMA CallOfCmdu ==
  ASSUME TypeOK, NEW n \in 1..Len(calls), NEW content, IsCmdu(content, n)
  PROVE  content \in Seq(Tlv) /\ content[1].call = n
<1>1. n \in Nat /\ Len(calls[n].cmdu) \in Nat /\ Len(calls[n].cmdu) >= 1
  BY CallsType, CallType, Zenon
<1> QED BY <1>1, CmduContent, Zenon DEF IsCmdu

\* No two calls have the same CMDU: the TLVs of each are its own.
LEMMA OneCall ==
  ASSUME TypeOK, NEW n \in 1..Len(calls), NEW m \in 1..Len(calls), NEW content,
         IsCmdu(content, n), IsCmdu(content, m)
  PROVE  n = m
  BY CallOfCmdu, Zenon

-----------------------------------------------------------------------------
(* Times and messageIds *)

\* Two calls with one messageId are so far apart that frames, keys or entries of both,
\* within an age, are of the same call.
LEMMA SameCall ==
  ASSUME IInv, NEW n \in 1..Len(calls), NEW m \in 1..Len(calls), calls[n].mid = calls[m].mid,
         NEW age \in Nat, MaxDelay + age < RestartTime,
         now <= calls[n].due + age, now <= calls[m].due + age
  PROVE  n = m
<1>1. /\ calls[n].due \in Nat /\ calls[m].due \in Nat /\ now \in Nat
      /\ n \in Nat /\ m \in Nat /\ MaxDelay \in Nat /\ RestartTime \in Nat
  <2>1. TypeOK /\ now \in Nat
    BY Zenon DEF IInv, TypeOK
  <2>2. calls[n] \in Call /\ calls[m] \in Call /\ n \in Nat /\ m \in Nat
    BY <2>1, CallsType, Zenon
  <2> QED BY <2>1, <2>2, CallType, SizesAssumption, Zenon
<1>2. /\ n < m => calls[n].due + RestartTime <= calls[m].due
      /\ m < n => calls[m].due + RestartTime <= calls[n].due
      /\ calls[n].due <= now + MaxDelay /\ calls[m].due <= now + MaxDelay
  BY Zenon DEF IInv, EpochInv
<1> QED BY <1>1, <1>2, SMTT(30)

\* What is known of a frame in flight and its call.
LEMMA FrameFacts ==
  ASSUME IInv, NEW f \in inflight
  PROVE  /\ f \in FrameInFlight /\ FrameInv(f)
         /\ f.call \in 1..Len(calls) /\ f.call \in Nat /\ calls[f.call] \in Call
         /\ CutsInv(calls[f.call])
         /\ f.mid = calls[f.call].mid /\ f.mid \in 1..MaxCalls
         /\ now \in Nat /\ calls[f.call].due \in Nat
         /\ now <= calls[f.call].due /\ calls[f.call].due <= now + MaxDelay
<1>1. f \in FrameInFlight /\ FrameInv(f)
  BY Zenon DEF IInv, TypeOK
<1>2. f.call \in 1..Len(calls) /\ now <= calls[f.call].due /\ f.mid = calls[f.call].mid
  BY <1>1, Zenon DEF FrameInv
<1>3. f.call \in Nat /\ calls[f.call] \in Call /\ calls[f.call].due \in Nat
  BY <1>2, CallsType, CallType, Zenon DEF IInv
<1>4. calls[f.call].due <= now + MaxDelay /\ calls[f.call].mid \in 1..MaxCalls
  BY <1>2, Zenon DEF IInv, EpochInv
<1> QED BY <1>1, <1>2, <1>3, <1>4, Zenon DEF IInv, TypeOK

-----------------------------------------------------------------------------
(* de_duplicate_packet() *)

\* What de_duplicate_packet() may do to a map: it forgets what has expired, and adds,
\* refreshes or erases one key.
Refreshed(old, new, key) ==
  /\ \A k \in DOMAIN new : \/ k \in DOMAIN old /\ new[k] = old[k]
                           \/ k = key /\ new[k] = now
  /\ \A k \in DOMAIN old : \/ k = key
                           \/ now > old[k] + MaxDeDupAge
                           \/ k \in DOMAIN new /\ new[k] = old[k]

\* The key of a fragment, and the key under which rx looks it up.
LEMMA LookupStored ==
  ASSUME IInv, NEW f \in inflight, NEW map, DOMAIN map \subseteq DOMAIN de_duplication_map_[rx]
  PROVE  /\ LookupKey(rx, PacketOf(f), TRUE, map) = StoredKey(f.mid, f.id)
         /\ StoredKey(f.mid, f.id) \in DeDuplicationKey
         /\ DOMAIN map \subseteq DeDuplicationKey
         /\ PacketKey(PacketOf(f)) = StoredKey(f.mid, f.id)
              \/ PacketKey(PacketOf(f)) \notin DOMAIN map
<1> DEFINE mid == <<f.mid, f.id>>
           key == [src |-> tx, dst |-> rx, mid |-> mid]
<1>1. f.mid \in 0..MaxCalls /\ f.id \in 0..(FragmentIds - 1)
  BY FrameFacts, MidsAssumption DEF FrameInFlight
<1>2. mid \in Mids /\ tx \in Devices /\ rx \in Devices /\ Mcast # rx
  BY <1>1, MidsAssumption, AddressAssumption, Zenon
<1>3. \A k \in DOMAIN map : \E m \in 0..MaxCalls, id \in 0..(FragmentIds - 1) : k = StoredKey(m, id)
  <2> TAKE k \in DOMAIN map
  <2>1. PICK n \in 1..Len(calls), id \in 0..(FragmentIds - 1) : k = StoredKey(calls[n].mid, id)
    BY Zenon DEF IInv, KeysInv
  <2>2. calls[n].mid \in 0..MaxCalls
    BY MidsAssumption DEF IInv, EpochInv
  <2> QED BY <2>1, <2>2, Zenon
<1>4. \A k \in DOMAIN map : k \in DeDuplicationKey /\ (k.mid \in Reliable => k.dst = Mcast)
  <2> TAKE k \in DOMAIN map
  <2>1. PICK m \in 0..MaxCalls, id \in 0..(FragmentIds - 1) : k = StoredKey(m, id)
    BY <1>3, Zenon
  <2>2. <<m, id>> \in Mids
    BY MidsAssumption, Zenon
  <2> QED BY <1>2, <2>1, <2>2, Zenon DEF StoredKey, DeDuplicationKey
<1>5. PacketOf(f).mid = mid /\ PacketKey(PacketOf(f)) = key
  BY Zenon DEF PacketOf, PacketKey
<1>6. StoredKey(f.mid, f.id) = IF mid \in Reliable THEN [key EXCEPT !.dst = Mcast] ELSE key
  BY Zenon DEF StoredKey
<1>7. Swapped(rx, key) = [key EXCEPT !.dst = Mcast]
  BY Zenon DEF Swapped
<1>8. mid \in Reliable => key \notin DOMAIN map
  <2>1. key.mid = mid /\ key.dst = rx
    BY Zenon
  <2> QED BY <1>2, <1>4, <2>1, Zenon
<1>9. [key EXCEPT !.dst = Mcast] \in DeDuplicationKey /\ key \in DeDuplicationKey
  BY <1>2, Zenon DEF DeDuplicationKey
<1> HIDE DEF key, mid
<1> QED BY <1>4, <1>5, <1>6, <1>7, <1>8, <1>9, Zenon DEF LookupKey

\* The map when a packet is dropped as a duplicate.
LEMMA DuplicatePacket ==
  ASSUME IInv, NEW f \in inflight, IsDuplicate(rx, PacketOf(f), TRUE)
  PROVE  LET old == de_duplication_map_[rx]
             new == de_duplication_map_'[rx]
             key == StoredKey(f.mid, f.id) IN
         /\ DOMAIN de_duplication_map_' = Devices
         /\ Refreshed(old, new, key)
         /\ key \in DOMAIN new /\ new[key] = now
         /\ key \in DOMAIN old /\ ~ (now > old[key] + MaxDeDupAge)
<1> DEFINE old == de_duplication_map_[rx]
           aged == Aged(old)
           key == StoredKey(f.mid, f.id)
<1>1. /\ DOMAIN aged \subseteq DOMAIN old /\ \A k \in DOMAIN aged : aged[k] = old[k]
      /\ \A k \in DOMAIN old : k \in DOMAIN aged <=> ~ (now > old[k] + MaxDeDupAge)
  BY Zenon DEF Aged, Only, Expired
<1>2. LookupKey(rx, PacketOf(f), TRUE, aged) = key
  BY <1>1, LookupStored, Zenon
<1>3. /\ key \in DOMAIN aged
      /\ de_duplication_map_' = [de_duplication_map_ EXCEPT ![rx] = Put(aged, key, now)]
  BY <1>2, Zenon DEF IsDuplicate
<1>4. /\ DOMAIN de_duplication_map_' = Devices
      /\ de_duplication_map_'[rx] = Put(aged, key, now)
  BY <1>3, MidsAssumption, Zenon DEF IInv
<1> HIDE DEF aged, key, old
<1>5. /\ DOMAIN Put(aged, key, now) = DOMAIN aged \cup {key}
      /\ Put(aged, key, now)[key] = now
      /\ \A k \in DOMAIN aged : k # key => Put(aged, key, now)[k] = aged[k]
  BY Zenon DEF Put
<1>6. Refreshed(old, Put(aged, key, now), key)
  BY <1>1, <1>5, Zenon DEF Refreshed
<1> QED BY <1>1, <1>3, <1>4, <1>5, <1>6, Zenon DEF key, old

\* The map when a packet cannot be tracked.
LEMMA UntrackablePacket ==
  ASSUME IInv, NEW f \in inflight, IsUntrackable(rx, PacketOf(f), TRUE)
  PROVE  LET old == de_duplication_map_[rx]
             new == de_duplication_map_'[rx]
             key == StoredKey(f.mid, f.id) IN
         /\ DOMAIN de_duplication_map_' = Devices
         /\ Refreshed(old, new, key)
         /\ key \in DOMAIN old => now > old[key] + MaxDeDupAge
<1> DEFINE old == de_duplication_map_[rx]
           aged == Aged(old)
           key == StoredKey(f.mid, f.id)
<1>1. /\ DOMAIN aged \subseteq DOMAIN old /\ \A k \in DOMAIN aged : aged[k] = old[k]
      /\ \A k \in DOMAIN old : k \in DOMAIN aged <=> ~ (now > old[k] + MaxDeDupAge)
  BY Zenon DEF Aged, Only, Expired
<1>2. LookupKey(rx, PacketOf(f), TRUE, aged) = key
  BY <1>1, LookupStored, Zenon
<1>3. /\ key \notin DOMAIN aged
      /\ de_duplication_map_' = [de_duplication_map_ EXCEPT ![rx] = aged]
  BY <1>2, Zenon DEF IsUntrackable
<1>4. /\ DOMAIN de_duplication_map_' = Devices
      /\ de_duplication_map_'[rx] = aged
  BY <1>3, MidsAssumption, Zenon DEF IInv
<1> HIDE DEF aged, key, old
<1>5. Refreshed(old, aged, key)
  BY <1>1, Zenon DEF Refreshed
<1> QED BY <1>1, <1>3, <1>4, <1>5, Zenon DEF key, old

\* The map when a packet is new, and its key is kept or erased.
LEMMA NewPacket ==
  ASSUME IInv, NEW f \in inflight, NEW erase, erase \in {{}, {PacketKey(PacketOf(f))}},
         IsNew(rx, PacketOf(f), TRUE, erase)
  PROVE  LET old == de_duplication_map_[rx]
             new == de_duplication_map_'[rx]
             key == StoredKey(f.mid, f.id) IN
         /\ DOMAIN de_duplication_map_' = Devices
         /\ Refreshed(old, new, key)
         /\ erase = {} => key \in DOMAIN new /\ new[key] = now
         /\ key \in DOMAIN old => now > old[key] + MaxDeDupAge
<1> DEFINE old == de_duplication_map_[rx]
           aged == Aged(old)
           key == StoredKey(f.mid, f.id)
           put == Put(aged, key, now)
           kept == Only(put, DeDuplicationKey \ erase)
<1>1. /\ DOMAIN aged \subseteq DOMAIN old /\ \A k \in DOMAIN aged : aged[k] = old[k]
      /\ \A k \in DOMAIN old : k \in DOMAIN aged <=> ~ (now > old[k] + MaxDeDupAge)
  BY Zenon DEF Aged, Only, Expired
<1>2. /\ LookupKey(rx, PacketOf(f), TRUE, aged) = key
      /\ key \in DeDuplicationKey /\ DOMAIN aged \subseteq DeDuplicationKey
      /\ \A k \in erase : k = key \/ k \notin DOMAIN aged
  BY <1>1, LookupStored, Zenon
<1>3. /\ key \notin DOMAIN aged
      /\ de_duplication_map_' = [de_duplication_map_ EXCEPT ![rx] = kept]
  BY <1>2, Zenon DEF IsNew, Erased
<1>4. /\ DOMAIN de_duplication_map_' = Devices
      /\ de_duplication_map_'[rx] = kept
  BY <1>3, MidsAssumption, Zenon DEF IInv
<1> HIDE DEF aged, key, old
<1>5. /\ DOMAIN put = DOMAIN aged \cup {key} /\ put[key] = now
      /\ \A k \in DOMAIN aged : k # key => put[k] = aged[k]
  BY Zenon DEF Put
<1> HIDE DEF put
<1>6. /\ DOMAIN kept = (DOMAIN aged \cup {key}) \ erase
      /\ \A k \in DOMAIN kept : kept[k] = put[k]
  BY <1>2, <1>5, Zenon DEF Only
<1> HIDE DEF kept
<1>7. Refreshed(old, kept, key)
  BY <1>1, <1>2, <1>5, <1>6, Zenon DEF Refreshed
<1> QED BY <1>1, <1>3, <1>4, <1>5, <1>6, <1>7, Zenon DEF key, old

\* The keys of rx after a fragment has been looked up.
LEMMA KeysKept ==
  ASSUME IInv, NEW f \in inflight, NEW new,
         Refreshed(de_duplication_map_[rx], new, StoredKey(f.mid, f.id))
  PROVE  KeysInv(new)
<1> SUFFICES ASSUME NEW k \in DOMAIN new
             PROVE  /\ new[k] \in Nat
                    /\ \E n \in 1..Len(calls), id \in 0..(FragmentIds - 1) :
                         k = StoredKey(calls[n].mid, id) /\ new[k] <= calls[n].due
  BY Zenon DEF KeysInv
<1>1. CASE k \in DOMAIN de_duplication_map_[rx] /\ new[k] = de_duplication_map_[rx][k]
  BY <1>1, Zenon DEF IInv, KeysInv
<1>2. CASE k = StoredKey(f.mid, f.id) /\ new[k] = now
  <2>1. f.id \in 0..(FragmentIds - 1)
    BY FrameFacts, Zenon DEF FrameInFlight
  <2> QED BY <1>2, <2>1, FrameFacts, Zenon
<1> QED BY <1>1, <1>2, Zenon DEF Refreshed

-----------------------------------------------------------------------------
(* de_fragment_packet() *)

\* The entries after the cleanup.
LEMMA CleanedUpEntries ==
  ASSUME IInv
  PROVE  /\ DOMAIN CleanedUp \subseteq DOMAIN de_fragmentation_map_
         /\ \A mid \in DOMAIN CleanedUp : CleanedUp[mid] = de_fragmentation_map_[mid]
         /\ \A mid \in DOMAIN de_fragmentation_map_ :
              LET e == de_fragmentation_map_[mid] IN
              mid \in DOMAIN CleanedUp <=>
                ~ e.complete /\ ~ (now > e.time + MaxDeFragAge)
  BY Zenon DEF CleanedUp, Only, TooOld

\* The entry of a fragment is of the same call as the fragment: if it is not a new one,
\* it was kept by the cleanup.
LEMMA EntryOfFrame ==
  ASSUME IInv, NEW f \in inflight
  PROVE  LET e == EntryOf(f)
             c == calls[f.call] IN
         /\ e \in DeFragmentationValue /\ e.time = now /\ ~ e.complete
         /\ f.mid \in DOMAIN CleanedUp => e.numFragments = CleanedUp[f.mid].numFragments
         /\ f.mid \notin DOMAIN CleanedUp => e.numFragments = 0
         /\ e.numFragments # 0 =>
              /\ e.numFragments <= Len(c.cuts)
              /\ e.buf = Tlvs(f.call, 1, CutAt(c, e.numFragments))
<1> DEFINE e == EntryOf(f)
           c == calls[f.call]
           old == de_fragmentation_map_[f.mid]
<1>1. now \in Nat
  BY FrameFacts, Zenon
<1>2. CASE f.mid \notin DOMAIN CleanedUp
  <2>1. e = [NewEntry EXCEPT !.time = now]
    BY <1>2, Zenon DEF EntryOf
  <2>2. << >> \in Seq(Tlv) /\ 0 \in 0..(FragmentIds - 1) /\ 0 \in 0..(MaxBuffer - 1)
    BY SizesAssumption
  <2>3. e \in DeFragmentationValue /\ e.time = now /\ ~ e.complete /\ e.numFragments = 0
    BY <1>1, <2>1, <2>2, Zenon DEF NewEntry, DeFragmentationValue
  <2> QED BY <1>2, <2>3, Zenon
<1>3. CASE f.mid \in DOMAIN CleanedUp
  <2>1. /\ f.mid \in DOMAIN de_fragmentation_map_ /\ CleanedUp[f.mid] = old
        /\ ~ old.complete /\ ~ (now > old.time + MaxDeFragAge)
    BY <1>3, CleanedUpEntries, Zenon
  <2>2. old \in DeFragmentationValue
    BY <2>1, Zenon DEF IInv, TypeOK
  <2>3. e = [old EXCEPT !.time = now]
    BY <1>3, <2>1, Zenon DEF EntryOf
  <2>4. /\ e \in DeFragmentationValue /\ e.time = now /\ ~ e.complete
        /\ e.numFragments = old.numFragments /\ e.buf = old.buf /\ old.time \in Nat
    BY <1>1, <2>1, <2>2, <2>3, Zenon DEF DeFragmentationValue
  <2>5. EntryInv(f.mid, old)
    BY <2>1, Zenon DEF IInv
  <2>6. PICK n \in 1..Len(calls) :
          /\ calls[n].mid = f.mid /\ old.time <= calls[n].due
          /\ old.numFragments # 0 =>
               /\ old.numFragments <= Len(calls[n].cuts)
               /\ old.buf = Tlvs(n, 1, CutAt(calls[n], old.numFragments))
    BY <2>1, <2>5, Zenon DEF EntryInv
  <2>7. n = f.call
    <3>1. calls[n].due \in Nat
      BY CallsType, CallType, Zenon DEF IInv
    <3>2. now \in Nat /\ old.time \in Nat /\ MaxDeFragAge \in Nat /\ c.due \in Nat
      BY <1>1, <2>4, FrameFacts, SizesAssumption, Zenon
    <3>3. now <= calls[n].due + MaxDeFragAge
      BY <2>1, <2>6, <3>1, <3>2
    <3>4. c.mid = f.mid /\ now <= c.due
      BY FrameFacts, Zenon
    <3>5. now <= c.due + MaxDeFragAge
      BY <3>2, <3>4
    <3>6. MaxDelay + MaxDeFragAge < RestartTime
      BY DeFragAgeAssumption, Zenon
    <3> QED BY <2>6, <3>2, <3>3, <3>4, <3>5, <3>6, FrameFacts, SameCall, Zenon
  <2> QED BY <1>3, <2>1, <2>4, <2>6, <2>7, Zenon
<1> QED BY <1>2, <1>3, Zenon

\* The entry when the first fragment begins the buffer anew.
LEMMA HeadedFrame ==
  ASSUME IInv, NEW f \in inflight
  PROVE  LET h == Headed(f) IN
         /\ h \in DeFragmentationValue /\ h.time = now /\ ~ h.complete
         /\ h.numFragments = EntryOf(f).numFragments
         /\ f.id = 0 => h.buf = << >>
         /\ f.id # 0 => h.buf = EntryOf(f).buf
<1>1. EntryOf(f) \in DeFragmentationValue /\ EntryOf(f).time = now /\ ~ EntryOf(f).complete
  BY EntryOfFrame, Zenon
<1>2. << >> \in Seq(Tlv) /\ 0 \in 0..(MaxBuffer - 1)
  BY SizesAssumption
<1> QED BY <1>1, <1>2, Zenon DEF Headed, DeFragmentationValue

\* The entry when the fragment has been appended: it holds the call up to this fragment.
LEMMA CollectedFrame ==
  ASSUME IInv, NEW f \in inflight, Collects(f)
  PROVE  LET e == Collected(f)
             c == calls[f.call] IN
         /\ e \in DeFragmentationValue /\ e.time = now /\ e.complete = f.last
         /\ e.numFragments = (f.id + 1) % FragmentIds
         /\ f.last => e.buf = Tlvs(f.call, 1, Len(c.cmdu)) \o f.pad
         /\ ~ f.last => e.buf = Tlvs(f.call, 1, CutAt(c, f.id + 1))
<1> DEFINE h == Headed(f)
           e == Collected(f)
           c == calls[f.call]
           from == CutAt(c, f.id)
           to == CutAt(c, f.id + 1)
           tail == IF f.last THEN f.pad ELSE << >>
           size == IF f.last THEN f.size ELSE f.length
<1>1. /\ h \in DeFragmentationValue /\ h.time = now
      /\ h.numFragments = f.id /\ h.bufIndex + f.size < MaxBuffer
      /\ f.id = 0 => h.buf = << >>
      /\ f.id # 0 => h.buf = EntryOf(f).buf
  <2>1. h.bufIndex \in Nat /\ f.size \in Nat /\ MaxBuffer \in Nat
    <3>1. h \in DeFragmentationValue /\ f \in FrameInFlight
      BY HeadedFrame, FrameFacts, Zenon
    <3>2. h.bufIndex \in 0..(MaxBuffer - 1) /\ f.size \in Nat
      BY <3>1, Zenon DEF DeFragmentationValue, FrameInFlight
    <3> QED BY <3>2, SizesAssumption
  <2>2. EntryOf(f).numFragments = f.id /\ ~ (h.bufIndex + f.size >= MaxBuffer)
    BY Zenon DEF Collects, Overflows
  <2> QED BY <2>1, <2>2, HeadedFrame
<1>2. /\ f.id \in 0..(FragmentIds - 1) /\ f.body \in Seq(Tlv) /\ f.pad \in Seq(Tlv)
      /\ f.last \in BOOLEAN /\ f.length \in Nat /\ f.size \in Nat /\ f.length <= f.size
      /\ f.id < Len(c.cuts) /\ f.body = Tlvs(f.call, from + 1, to)
      /\ f.last => to = Len(c.cmdu)
  BY FrameFacts, Zenon DEF FrameInFlight, FrameInv
<1>3. from \in Nat /\ to \in Nat /\ from <= to
  <2>1. Len(c.cuts) \in Nat /\ Len(c.cmdu) \in Nat
    BY FrameFacts, CallType, Zenon
  <2>2. f.id \in 0..Len(c.cuts) /\ f.id + 1 \in 1..Len(c.cuts) /\ (f.id + 1) - 1 = f.id
    BY <1>2, <2>1
  <2>3. /\ \A k \in 0..Len(c.cuts) : CutAt(c, k) \in 0..Len(c.cmdu)
        /\ \A k \in 1..Len(c.cuts) : CutAt(c, k - 1) <= CutAt(c, k)
    BY FrameFacts, Zenon DEF CutsInv
  <2> HIDE DEF c
  <2> QED BY <2>1, <2>2, <2>3
<1>4. h.buf = Tlvs(f.call, 1, from)
  <2>1. CASE f.id = 0
    <3>1. from = 0
      BY <2>1, Zenon DEF CutAt
    <3>2. Tlvs(f.call, 1, from) \in Seq(Tlv) /\ Len(Tlvs(f.call, 1, from)) = 0
      BY <3>1, FirstTlvs, FrameFacts
    <3>3. Tlvs(f.call, 1, from) = << >>
      BY <3>2, SeqEmpty, Zenon
    <3> QED BY <1>1, <2>1, <3>3, Zenon
  <2>2. CASE f.id # 0
    BY <1>1, <2>2, EntryOfFrame, HeadedFrame, Zenon
  <2> QED BY <2>1, <2>2, Zenon
<1>5. h.buf \o f.body = Tlvs(f.call, 1, to)
  <2>1. f.call \in Nat
    BY FrameFacts, Zenon
  <2> HIDE DEF from, to
  <2>2. Tlvs(f.call, 1, from) \o Tlvs(f.call, from + 1, to) = Tlvs(f.call, 1, to)
    BY <1>3, <2>1, TlvsJoin, Zenon
  <2> QED BY <1>2, <1>4, <2>2, Zenon
<1>6. Tlvs(f.call, 1, to) \in Seq(Tlv) /\ tail \in Seq(Tlv)
  BY <1>2, <1>3, FirstTlvs, FrameFacts, SeqEmpty, Zenon
<1>7. Tlvs(f.call, 1, to) \o << >> = Tlvs(f.call, 1, to)
  BY <1>6, SeqConcatEmpty, Zenon
<1>8. /\ h.bufIndex + size \in 0..(MaxBuffer - 1)
      /\ (h.numFragments + 1) % FragmentIds \in 0..(FragmentIds - 1)
  <2>1. h.bufIndex \in Nat /\ h.numFragments \in Nat /\ MaxBuffer \in Nat
    BY <1>1, <1>2, SizesAssumption DEF DeFragmentationValue
  <2>2. (h.numFragments + 1) % FragmentIds \in 0..(FragmentIds - 1)
    BY <2>1, SizesAssumption
  <2> QED BY <1>1, <1>2, <2>1, <2>2
<1>9. e = [h EXCEPT !.numFragments = (h.numFragments + 1) % FragmentIds,
                    !.buf = h.buf \o f.body \o tail,
                    !.bufIndex = h.bufIndex + size,
                    !.complete = f.last]
  BY Zenon DEF Collected
<1>10. h.buf \o f.body \o tail = Tlvs(f.call, 1, to) \o tail
  BY <1>5, Zenon
<1>11. Tlvs(f.call, 1, to) \o tail \in Seq(Tlv)
  BY <1>6, SeqConcat, Zenon
<1>12. /\ e.buf = Tlvs(f.call, 1, to) \o tail
       /\ e.time = now /\ e.complete = f.last
       /\ e.numFragments = (f.id + 1) % FragmentIds
       /\ e \in DeFragmentationValue
  <2> HIDE DEF e, tail, to, size, h
  <2> QED BY <1>1, <1>2, <1>8, <1>9, <1>10, <1>11, Zenon DEF DeFragmentationValue
<1> QED BY <1>2, <1>7, <1>12, Zenon

\* What is stored for a fragment is of its call.
GoodEntry(f, e) ==
  /\ e \in DeFragmentationValue /\ e.time = now
  /\ ~ e.complete /\ e.numFragments # 0 =>
       /\ e.numFragments <= Len(calls[f.call].cuts)
       /\ e.buf = Tlvs(f.call, 1, CutAt(calls[f.call], e.numFragments))

\* Each entry that handling a frame may leave in the map is a good one: the one found or
\* made for it, the one with its header added, and the one with its TLVs collected.
LEMMA StoredEntry ==
  ASSUME IInv, NEW f \in inflight
  PROVE  /\ GoodEntry(f, EntryOf(f))
         /\ EntryOf(f).numFragments = f.id => GoodEntry(f, Headed(f))
         /\ Collects(f) => GoodEntry(f, Collected(f))
<1>1. GoodEntry(f, EntryOf(f))
  BY EntryOfFrame, Zenon DEF GoodEntry
<1>2. ASSUME EntryOf(f).numFragments = f.id PROVE GoodEntry(f, Headed(f))
  BY <1>2, EntryOfFrame, HeadedFrame, Zenon DEF GoodEntry
<1>3. ASSUME Collects(f) PROVE GoodEntry(f, Collected(f))
  <2> DEFINE e == Collected(f)
  <2>1. /\ e \in DeFragmentationValue /\ e.time = now /\ e.complete = f.last
        /\ e.numFragments = (f.id + 1) % FragmentIds
        /\ ~ f.last => e.buf = Tlvs(f.call, 1, CutAt(calls[f.call], f.id + 1))
    BY <1>3, CollectedFrame, Zenon
  <2>2. /\ f.id \in 0..(FragmentIds - 1) /\ f.id < Len(calls[f.call].cuts)
        /\ FragmentIds \in Nat \ {0} /\ Len(calls[f.call].cuts) \in Nat
    BY FrameFacts, CallType, SizesAssumption, Zenon DEF FrameInv, FrameInFlight
  <2> HIDE DEF e
  <2>3. e.numFragments # 0 => e.numFragments = f.id + 1
    BY <2>1, <2>2
  <2>4. GoodEntry(f, e)
    BY <2>1, <2>2, <2>3 DEF GoodEntry
  <2> QED BY <2>4, Zenon DEF e
<1> QED BY <1>1, <1>2, <1>3, Zenon

\* The limits and the entries after any outcome of de_fragment_packet().
LEMMA DeFragmented ==
  ASSUME FiniteSetLaws, IInv, NEW f \in inflight, DeFragment(f)
  PROVE  LET map == de_fragmentation_map_' IN
         /\ IsFiniteSet(DOMAIN map) /\ Cardinality(DOMAIN map) <= MaxDeFragThreads
         /\ \A mid \in DOMAIN map : map[mid] \in DeFragmentationValue /\ EntryInv(mid, map[mid])
<1> DEFINE map == de_fragmentation_map_'
           old == de_fragmentation_map_
<1>1. /\ IsFiniteSet(DOMAIN old) /\ Cardinality(DOMAIN old) <= MaxDeFragThreads
      /\ \A mid \in DOMAIN old : old[mid] \in DeFragmentationValue /\ EntryInv(mid, old[mid])
      /\ MaxDeFragThreads \in Nat
  BY SizesAssumption, Zenon DEF IInv, TypeOK
<1>2. /\ DOMAIN CleanedUp \subseteq DOMAIN old
      /\ \A mid \in DOMAIN CleanedUp : CleanedUp[mid] = old[mid]
  BY CleanedUpEntries, Zenon
<1>3. CASE ~ Fragmented(f) /\ UNCHANGED de_fragmentation_map_
  BY <1>1, <1>3, Zenon
<1>4. CASE NoThread(f)
  <2>1. /\ DOMAIN map \subseteq DOMAIN old
        /\ \A mid \in DOMAIN map : map[mid] = old[mid]
    BY <1>2, <1>4, Zenon DEF NoThread, Only
  <2>2. IsFiniteSet(DOMAIN map) /\ Cardinality(DOMAIN map) <= Cardinality(DOMAIN old)
    BY <1>1, <2>1, Zenon DEF FiniteSetLaws
  <2>3. Cardinality(DOMAIN map) \in Nat /\ Cardinality(DOMAIN old) \in Nat
    BY <1>1, <2>2, Zenon DEF FiniteSetLaws
  <2> HIDE DEF map, old
  <2> QED BY <1>1, <2>1, <2>2, <2>3 DEF map
<1>5. ASSUME NEW e, ~ TooManyThreads(f), GoodEntry(f, e), Stored(f, e)
      PROVE  /\ IsFiniteSet(DOMAIN map) /\ Cardinality(DOMAIN map) <= MaxDeFragThreads
             /\ \A mid \in DOMAIN map :
                  map[mid] \in DeFragmentationValue /\ EntryInv(mid, map[mid])
  <2>1. /\ DOMAIN map = DOMAIN CleanedUp \cup {f.mid} /\ map[f.mid] = e
        /\ \A mid \in DOMAIN map : mid # f.mid => mid \in DOMAIN old /\ map[mid] = old[mid]
    BY <1>2, <1>5, Zenon DEF Stored, Put
  <2>2. IsFiniteSet(DOMAIN CleanedUp)
    BY <1>1, <1>2, Zenon DEF FiniteSetLaws
  <2>3. IsFiniteSet(DOMAIN map) /\ Cardinality(DOMAIN map) \in Nat
    <3>1. IsFiniteSet(DOMAIN CleanedUp \cup {f.mid})
      BY <2>2, Zenon DEF FiniteSetLaws
    <3>2. IsFiniteSet(DOMAIN map)
      BY <2>1, <3>1, Zenon
    <3> QED BY <3>2, Zenon DEF FiniteSetLaws
  <2>4. ~ (Cardinality(DOMAIN map) > MaxDeFragThreads)
    BY <1>5, <2>1, Zenon DEF TooManyThreads
  <2>5. EntryInv(f.mid, e)
    BY <1>5, FrameFacts, Zenon DEF EntryInv, GoodEntry
  <2>6. e \in DeFragmentationValue
    BY <1>5, Zenon DEF GoodEntry
  <2> HIDE DEF map, old
  <2> QED BY <1>1, <2>1, <2>3, <2>4, <2>5, <2>6
<1>6. CASE OutOfOrder(f)
  BY <1>5, <1>6, StoredEntry, Zenon DEF OutOfOrder
<1>7. CASE Overflow(f)
  BY <1>5, <1>7, StoredEntry, Zenon DEF Overflow
<1>8. CASE Collect(f)
  BY <1>5, <1>8, StoredEntry, Zenon DEF Collect, Collects
<1> QED BY <1>3, <1>4, <1>6, <1>7, <1>8, Zenon DEF DeFragment

\* What goes to the broker is the CMDU of the call, and the frame is its last one.
LEMMA OutputIsCmdu ==
  ASSUME IInv, NEW f \in inflight, Output(f) # << >>
  PROVE  f.last /\ \E content \in Seq(Tlv) : Output(f) = << content >> /\ IsCmdu(content, f.call)
<1> DEFINE c == calls[f.call]
           whole == Tlvs(f.call, 1, Len(c.cmdu))
<1>1. /\ f.pad \in {<< >>, << Pad >>} /\ f.id \in Nat
      /\ f.body = Tlvs(f.call, CutAt(c, f.id) + 1, CutAt(c, f.id + 1))
      /\ f.last => CutAt(c, f.id + 1) = Len(c.cmdu)
  BY FrameFacts DEF FrameInv, FrameInFlight
<1>2. f.last /\ Output(f) = << whole \o f.pad >>
  <2>1. CASE ~ Fragmented(f)
    <3>1. f.id = 0 /\ f.last /\ Output(f) = << f.body \o f.pad >>
      BY <2>1, Zenon DEF Fragmented, Output
    <3>2. CutAt(c, f.id) + 1 = 1
      BY <3>1 DEF CutAt
    <3> HIDE DEF c
    <3>3. f.body = whole
      BY <1>1, <3>1, <3>2, Zenon
    <3> QED BY <3>1, <3>3, Zenon
  <2>2. CASE Fragmented(f)
    <3>1. f.last /\ Collects(f) /\ Output(f) = << Collected(f).buf >>
      BY <2>2, Zenon DEF Output
    <3> QED BY <3>1, CollectedFrame, Zenon
  <2> QED BY <2>1, <2>2, Zenon
<1>3. whole \in Seq(Tlv) /\ Pad \in Tlv
  <2>1. f.call \in Nat /\ Len(c.cmdu) \in Nat
    BY FrameFacts, CallType, Zenon
  <2> QED BY <2>1, FirstTlvs, Zenon DEF Pad, Tlv
<1>4. IsCmdu(whole \o f.pad, f.call) /\ whole \o f.pad \in Seq(Tlv)
  <2>1. whole \o << >> = whole /\ whole \o << Pad >> = Append(whole, Pad)
    <3> HIDE DEF whole
    <3> QED BY <1>3
  <2>2. whole \o f.pad \in {whole, Append(whole, Pad)}
    BY <1>1, <2>1, Zenon
  <2>3. Append(whole, Pad) \in Seq(Tlv)
    <3> HIDE DEF whole
    <3> QED BY <1>3
  <2> QED BY <1>3, <2>2, <2>3, Zenon DEF IsCmdu
<1> HIDE DEF whole
<1> QED BY <1>2, <1>4, Zenon

-----------------------------------------------------------------------------
(* What rx knows *)

\* A key of the map tells the messageId and the index it was made from.
LEMMA StoredKeyInjective ==
  ASSUME NEW m1, NEW m2, NEW i1, NEW i2, StoredKey(m1, i1) = StoredKey(m2, i2)
  PROVE  m1 = m2 /\ i1 = i2
<1>1. StoredKey(m1, i1).mid = <<m1, i1>> /\ StoredKey(m2, i2).mid = <<m2, i2>>
  BY Zenon DEF StoredKey
<1>2. <<m1, i1>> = <<m2, i2>>
  BY <1>1, Zenon
<1>3. <<m1, i1>>[1] = m1 /\ <<m1, i1>>[2] = i1 /\ <<m2, i2>>[1] = m2 /\ <<m2, i2>>[2] = i2
  BY Zenon
<1> QED BY <1>2, <1>3, Zenon

\* A fragment of a call that is not overdue is a duplicate if it is known.
LEMMA KnownIsDuplicate ==
  ASSUME IInv, NEW n \in 1..Len(calls), NEW id, Knows(n, id), now <= calls[n].due
  PROVE  LET k == StoredKey(calls[n].mid, id) IN
         /\ k \in DOMAIN de_duplication_map_[rx]
         /\ ~ (now > de_duplication_map_[rx][k] + MaxDeDupAge)
<1> DEFINE k == StoredKey(calls[n].mid, id)
           time == de_duplication_map_[rx][k]
<1>1. k \in DOMAIN de_duplication_map_[rx] /\ calls[n].due <= time + MaxDelay
  BY Zenon DEF Knows
<1>2. time \in Nat
  BY <1>1, Zenon DEF IInv, KeysInv
<1>3. now \in Nat /\ calls[n].due \in Nat
  BY CallsType, CallType, Zenon DEF IInv, TypeOK
<1> HIDE DEF time, k
<1>4. ~ (now > time + MaxDeDupAge)
  <2>1. MaxDelay \in Nat /\ MaxDeDupAge \in Nat /\ MaxDelay <= MaxDeDupAge
    BY SizesAssumption, AgeAssumption, DeFragAgeAssumption, Zenon
  <2>2. PICK due \in Nat : due <= time + MaxDelay /\ now <= due
    BY <1>1, <1>3, Zenon
  <2> QED BY <1>2, <1>3, <2>1, <2>2
<1> QED BY <1>1, <1>4, Zenon DEF time, k

\* It stays known while other fragments are looked up, or itself once more.
LEMMA KnowsKept ==
  ASSUME IInv, NEW n \in 1..Len(calls), NEW id, Knows(n, id), now <= calls[n].due,
         NEW key, Refreshed(de_duplication_map_[rx], de_duplication_map_'[rx], key),
         StoredKey(calls[n].mid, id) = key =>
           key \in DOMAIN de_duplication_map_'[rx] /\ de_duplication_map_'[rx][key] = now,
         UNCHANGED calls
  PROVE  Knows(n, id)'
<1> DEFINE k == StoredKey(calls[n].mid, id)
           old == de_duplication_map_[rx]
           new == de_duplication_map_'[rx]
<1>1. k \in DOMAIN old /\ ~ (now > old[k] + MaxDeDupAge) /\ calls[n].due <= old[k] + MaxDelay
  BY KnownIsDuplicate, Zenon DEF Knows
<1>2. calls[n].due <= now + MaxDelay
  BY Zenon DEF IInv, EpochInv
<1>3. k \in DOMAIN new /\ (new[k] = old[k] \/ new[k] = now)
  <2> HIDE DEF k, old, new
  <2> QED BY <1>1, Zenon DEF Refreshed, k, old, new
<1>4. calls[n].due <= new[k] + MaxDelay
  <2> HIDE DEF k, old, new
  <2> QED BY <1>1, <1>2, <1>3, Zenon
<1>5. k' = k
  BY Zenon DEF StoredKey
<1> QED BY <1>3, <1>4, <1>5, Zenon DEF Knows

-----------------------------------------------------------------------------
(* The steps of rx *)

\* The part of the invariant that de_duplicate_packet() and de_fragment_packet() keep.
LEMMA HandledFrame ==
  ASSUME FiniteSetLaws, IInv, NEW f \in inflight, Receive(f), DOMAIN de_duplication_map_' = Devices,
         Refreshed(de_duplication_map_[rx], de_duplication_map_'[rx], StoredKey(f.mid, f.id)),
         UNCHANGED de_fragmentation_map_ \/ DeFragment(f),
         published' \in Seq(Seq(Tlv)), disturbed' \subseteq 0..Len(calls),
         faults' \in 0..MaxFaults, PublishedInv'
  PROVE  IInv'
<1>1. /\ inflight' \subseteq inflight
      /\ UNCHANGED <<now, message_id_, ready_at, sending, calls>>
  BY Zenon DEF Receive, fragVars
<1>2. /\ IsFiniteSet(DOMAIN de_fragmentation_map_')
      /\ Cardinality(DOMAIN de_fragmentation_map_') <= MaxDeFragThreads
      /\ \A mid \in DOMAIN de_fragmentation_map_' :
           /\ de_fragmentation_map_'[mid] \in DeFragmentationValue
           /\ EntryInv(mid, de_fragmentation_map_'[mid])
  <2>1. CASE UNCHANGED de_fragmentation_map_
    BY <2>1, Zenon DEF IInv, TypeOK
  <2>2. CASE DeFragment(f)
    BY <2>2, DeFragmented, Zenon
  <2> QED BY <2>1, <2>2, Zenon
<1>3. \A mid \in DOMAIN de_fragmentation_map_' : EntryInv(mid, de_fragmentation_map_[mid])'
  BY <1>1, <1>2, Zenon DEF EntryInv
<1>4. KeysInv(de_duplication_map_[rx])'
  <2>1. KeysInv(de_duplication_map_'[rx])
    BY KeysKept, Zenon
  <2> QED BY <1>1, <2>1, Zenon DEF KeysInv
<1>5. \A g \in inflight' : FrameInv(g)'
  BY <1>1, Zenon DEF IInv, FrameInv
<1>6. TypeOK'
  BY <1>1, <1>2, Zenon DEF IInv, TypeOK
<1>7. \A n \in 1..Len(calls') : CutsInv(calls[n])'
  BY <1>1, Zenon DEF IInv
<1>8. EpochInv'
  BY <1>1, Zenon DEF IInv, EpochInv
<1>9. SendingInv'
  BY <1>1, Zenon DEF IInv, SendingInv
<1> QED BY <1>2, <1>3, <1>4, <1>5, <1>6, <1>7, <1>8, <1>9, Zenon DEF IInv

\* Two frames with one key are fragments of one call.
LEMMA SameKey ==
  ASSUME IInv, NEW f \in inflight, NEW n \in 1..Len(calls), now <= calls[n].due, NEW id,
         StoredKey(calls[n].mid, id) = StoredKey(f.mid, f.id)
  PROVE  n = f.call /\ id = f.id
<1>1. calls[n].mid = calls[f.call].mid /\ id = f.id
  BY StoredKeyInjective, FrameFacts
<1>2. /\ calls[n].due \in Nat /\ now \in Nat
      /\ calls[f.call].due \in Nat /\ now <= calls[f.call].due
  BY CallsType, CallType, FrameFacts, Zenon DEF IInv, TypeOK
<1>3. 0 \in Nat /\ MaxDelay + 0 < RestartTime
  <2>1. /\ MaxDelay \in Nat /\ MaxDeFragAge \in Nat /\ RestartTime \in Nat
        /\ MaxDelay + MaxDeFragAge < RestartTime
    BY SizesAssumption, DeFragAgeAssumption, Zenon
  <2> QED BY <2>1
<1>4. now <= calls[n].due + 0 /\ now <= calls[f.call].due + 0
  BY <1>2
<1> QED BY <1>1, <1>3, <1>4, SameCall, FrameFacts, Zenon

\* The last fragment of a call has one identity.
LEMMA LastFragment ==
  ASSUME IInv, NEW f \in inflight, f.last
  PROVE  calls[f.call].last /\ f.id = Len(calls[f.call].cuts) - 1
<1> DEFINE c == calls[f.call]
<1>1. /\ CutsInv(c) /\ Len(c.cuts) \in Nat /\ f.id \in Nat /\ f.id < Len(c.cuts)
      /\ CutAt(c, f.id + 1) = Len(c.cmdu) /\ Len(c.cmdu) \in Nat
  <2>1. CutsInv(c) /\ c \in Call /\ FrameInv(f) /\ f \in FrameInFlight
    BY FrameFacts, Zenon
  <2> QED BY <2>1, CallType DEF FrameInv, FrameInFlight
<1> HIDE DEF c
<1>2. f.id + 1 = Len(c.cuts)
  <2> SUFFICES ASSUME f.id + 1 # Len(c.cuts) PROVE FALSE
    BY Zenon
  <2>1. f.id + 2 \in 1..Len(c.cuts) /\ (f.id + 2) - 1 = f.id + 1
    BY <1>1
  <2>2. CutAt(c, (f.id + 2) - 1) < Len(c.cmdu)
    BY <1>1, <2>1, Zenon DEF CutsInv
  <2> QED BY <1>1, <2>1, <2>2
<1>3. c.last
  BY <1>1, <1>2, Zenon DEF CutsInv
<1> QED BY <1>1, <1>2, <1>3 DEF c

\* Nothing is published: what was known of the published calls stays known.
LEMMA NothingPublished ==
  ASSUME IInv, NEW f \in inflight, inflight' \subseteq inflight, UNCHANGED <<calls, published>>,
         Refreshed(de_duplication_map_[rx], de_duplication_map_'[rx], StoredKey(f.mid, f.id)),
         Knows(f.call, f.id) => /\ StoredKey(f.mid, f.id) \in DOMAIN de_duplication_map_'[rx]
                                /\ de_duplication_map_'[rx][StoredKey(f.mid, f.id)] = now
  PROVE  PublishedInv'
<1>1. \A n : IsPublished(n)' <=> IsPublished(n)
  BY Zenon DEF IsPublished, IsCmdu
<1>2. \A i \in 1..Len(published'), n \in 1..Len(calls') :
        IsCmdu(published[i], n)' <=> IsCmdu(published[i], n)
  BY Zenon DEF IsCmdu
<1>3. ASSUME NEW g \in inflight', g.last, IsPublished(g.call) PROVE Knows(g.call, g.id)'
  <2>1. Knows(g.call, g.id)
    BY <1>3, Zenon DEF IInv, PublishedInv
  <2>2. g \in inflight /\ g.call \in 1..Len(calls) /\ now <= calls[g.call].due
    BY FrameFacts, Zenon
  <2>3. StoredKey(calls[g.call].mid, g.id) = StoredKey(f.mid, f.id) =>
          /\ StoredKey(f.mid, f.id) \in DOMAIN de_duplication_map_'[rx]
          /\ de_duplication_map_'[rx][StoredKey(f.mid, f.id)] = now
    BY <2>1, <2>2, SameKey, Zenon
  <2> QED BY <2>1, <2>2, <2>3, KnowsKept, Zenon
<1> QED BY <1>1, <1>2, <1>3, Zenon DEF IInv, PublishedInv

\* A new packet is not known.
LEMMA NewIsUnknown ==
  ASSUME IInv, NEW f \in inflight,
         StoredKey(f.mid, f.id) \in DOMAIN de_duplication_map_[rx] =>
           now > de_duplication_map_[rx][StoredKey(f.mid, f.id)] + MaxDeDupAge
  PROVE  ~ Knows(f.call, f.id)
  BY FrameFacts, KnownIsDuplicate, Zenon

\* A CMDU is published: it was not before, and its last fragment is now known.
LEMMA CmduPublished ==
  ASSUME IInv, NEW f \in inflight, inflight' \subseteq inflight, UNCHANGED calls,
         NEW content \in Seq(Tlv), IsCmdu(content, f.call), f.last,
         published' = Append(published, content),
         Refreshed(de_duplication_map_[rx], de_duplication_map_'[rx], StoredKey(f.mid, f.id)),
         ~ Knows(f.call, f.id),
         StoredKey(f.mid, f.id) \in DOMAIN de_duplication_map_'[rx],
         de_duplication_map_'[rx][StoredKey(f.mid, f.id)] = now
  PROVE  PublishedInv'
<1> DEFINE len == Len(published)
<1>1. f.call \in 1..Len(calls) /\ ~ IsPublished(f.call) /\ calls[f.call].last
  BY FrameFacts, LastFragment, Zenon DEF IInv, PublishedInv
<1>2. /\ len \in Nat /\ Len(published') = len + 1 /\ published'[len + 1] = content
      /\ \A i \in 1..len : published'[i] = published[i]
  <2>1. published \in Seq(Seq(Tlv))
    BY Zenon DEF IInv, TypeOK
  <2> QED BY <2>1, SMTT(30)
<1> HIDE DEF len
<1>3. \A x : \A n \in 1..Len(calls) : IsCmdu(x, n)' <=> IsCmdu(x, n)
  BY Zenon DEF IsCmdu
<1>4. \A n \in 1..Len(calls) : IsCmdu(content, n) <=> n = f.call
  BY <1>1, OneCall, Zenon DEF IInv
<1>5. \A n \in 1..Len(calls) : IsPublished(n)' <=> IsPublished(n) \/ n = f.call
  <2> TAKE n \in 1..Len(calls)
  <2>1. IsPublished(n)' <=> \E i \in 1..(len + 1) : IsCmdu(published'[i], n)
    BY <1>2, <1>3, Zenon DEF IsPublished
  <2>2. IsPublished(n) <=> \E i \in 1..len : IsCmdu(published[i], n)
    BY Zenon DEF IsPublished, len
  <2>3. \A i \in 1..(len + 1) : i \in 1..len \/ i = len + 1
    BY <1>2
  <2> QED BY <1>2, <1>4, <2>1, <2>2, <2>3, SMTT(30)
<1>6. \A i \in 1..Len(published') : \E n \in 1..Len(calls) : IsCmdu(published'[i], n)
  <2> TAKE i \in 1..Len(published')
  <2>1. CASE i = len + 1
    BY <1>1, <1>2, <2>1, Zenon
  <2>2. CASE i # len + 1
    <3>1. i \in 1..len
      BY <1>2, <2>2
    <3>2. \E n \in 1..Len(calls) : IsCmdu(published[i], n)
      BY <3>1, Zenon DEF IInv, PublishedInv, len
    <3> QED BY <1>2, <3>1, <3>2, Zenon
  <2> QED BY <2>1, <2>2, Zenon
<1>7. \A i \in 1..Len(published'), j \in 1..Len(published'), n \in 1..Len(calls) :
        IsCmdu(published'[i], n) /\ IsCmdu(published'[j], n) => i = j
  <2> SUFFICES ASSUME NEW i \in 1..(len + 1), NEW j \in 1..(len + 1), NEW n \in 1..Len(calls),
                      IsCmdu(published'[i], n), IsCmdu(published'[j], n)
               PROVE  i = j
    BY <1>2, Zenon
  <2>1. \A k \in 1..len : ~ IsCmdu(published[k], f.call)
    BY <1>1, Zenon DEF IsPublished, len
  <2>2. \A k \in 1..(len + 1) : k = len + 1 \/ (k \in 1..len /\ published'[k] = published[k])
    BY <1>2
  <2>3. n = f.call => i = len + 1 /\ j = len + 1
    BY <2>1, <2>2, Zenon
  <2>4. n # f.call => i \in 1..len /\ j \in 1..len
    BY <1>2, <1>4, <2>2
  <2>5. \A k \in 1..len, l \in 1..len : IsCmdu(published[k], n) /\ IsCmdu(published[l], n) => k = l
    BY Zenon DEF IInv, PublishedInv, len
  <2>6. CASE n # f.call
    BY <1>2, <2>4, <2>5, <2>6, Zenon
  <2> QED BY <2>3, <2>6, Zenon
<1>8. \A n \in 1..Len(calls) : IsPublished(n)' => calls[n].last
  BY <1>1, <1>5, Zenon DEF IInv, PublishedInv
<1>9. ASSUME NEW g \in inflight', g.last, IsPublished(g.call)' PROVE Knows(g.call, g.id)'
  <2>1. g \in inflight /\ g.call \in 1..Len(calls) /\ now <= calls[g.call].due
    BY FrameFacts, Zenon
  <2>2. CASE g.call = f.call
    <3>1. g.id = f.id
      BY <1>9, <2>1, <2>2, LastFragment, Zenon
    <3>2. calls[f.call].mid = f.mid /\ calls[f.call].due <= now + MaxDelay
      BY FrameFacts, Zenon
    <3>3. StoredKey(calls'[g.call].mid, g.id) = StoredKey(f.mid, f.id)
      BY <2>2, <3>1, <3>2, Zenon
    <3> QED BY <2>2, <3>2, <3>3, Zenon DEF Knows, StoredKey
  <2>3. CASE g.call # f.call
    <3>1. Knows(g.call, g.id)
      BY <1>5, <1>9, <2>1, <2>3, Zenon DEF IInv, PublishedInv
    <3> QED BY <2>1, <3>1, KnowsKept, Zenon
  <2> QED BY <2>2, <2>3, Zenon
<1>10. \A n \in 1..Len(calls), i \in 1..Len(published') :
         IsCmdu(published[i], n)' <=> IsCmdu(published'[i], n)
  BY <1>3, Zenon
<1> QED BY <1>6, <1>7, <1>8, <1>9, <1>10, Zenon DEF PublishedInv

\* The handling of a frame by rx keeps the invariant.
LEMMA ReceiveStep ==
  ASSUME FiniteSetLaws, IInv, NEW f \in inflight, Receive(f)
  PROVE  IInv'
<1> DEFINE key == StoredKey(f.mid, f.id)
           old == de_duplication_map_[rx]
           new == de_duplication_map_'[rx]
<1>1. inflight' \subseteq inflight /\ UNCHANGED calls
  BY Zenon DEF Receive
<1>2. /\ published \in Seq(Seq(Tlv)) /\ disturbed \subseteq 0..Len(calls)
      /\ faults \in 0..MaxFaults /\ f.call \in 0..Len(calls)
  BY FrameFacts DEF IInv, TypeOK
<1>3. CASE Duplicate(f)
  <2>1. /\ DOMAIN de_duplication_map_' = Devices /\ Refreshed(old, new, key)
        /\ key \in DOMAIN new /\ new[key] = now
    BY <1>3, DuplicatePacket, Zenon DEF Duplicate
  <2>2. UNCHANGED <<de_fragmentation_map_, published, disturbed, faults>>
    BY <1>3, Zenon DEF Duplicate
  <2>3. PublishedInv'
    BY <1>1, <2>1, <2>2, NothingPublished, Zenon
  <2> QED BY <1>2, <2>1, <2>2, <2>3, HandledFrame, Zenon
<1>4. CASE Untrackable(f)
  <2>1. /\ DOMAIN de_duplication_map_' = Devices /\ Refreshed(old, new, key)
        /\ key \in DOMAIN old => now > old[key] + MaxDeDupAge
    BY <1>4, UntrackablePacket, Zenon DEF Untrackable
  <2>2. /\ UNCHANGED <<de_fragmentation_map_, published, faults>>
        /\ disturbed' = disturbed \cup {f.call}
    BY <1>4, Zenon DEF Untrackable
  <2>3. ~ Knows(f.call, f.id)
    BY <2>1, NewIsUnknown, Zenon
  <2>4. PublishedInv'
    BY <1>1, <2>1, <2>2, <2>3, NothingPublished, Zenon
  <2>5. disturbed' \subseteq 0..Len(calls)
    BY <1>2, <2>2, Zenon
  <2> QED BY <1>2, <2>1, <2>2, <2>4, <2>5, HandledFrame, Zenon
<1>5. CASE Forward(f)
  <2> DEFINE none == {}
  <2>1. none \in {{}, {PacketKey(PacketOf(f))}} /\ IsNew(rx, PacketOf(f), TRUE, none)
    BY <1>5, Zenon DEF Forward
  <2>2. /\ DOMAIN de_duplication_map_' = Devices /\ Refreshed(old, new, key)
        /\ key \in DOMAIN new /\ new[key] = now
        /\ key \in DOMAIN old => now > old[key] + MaxDeDupAge
    <3>1. none = {}
      BY Zenon
    <3> HIDE DEF none
    <3> QED BY <2>1, <3>1, NewPacket, Zenon
  <2>3. /\ DeFragment(f) /\ published' = published \o Output(f) /\ UNCHANGED faults
        /\ disturbed' \subseteq disturbed \cup {f.call}
    BY <1>5, Zenon DEF Forward
  <2>4. ~ Knows(f.call, f.id)
    BY <2>2, NewIsUnknown, Zenon
  <2>5. PublishedInv' /\ published' \in Seq(Seq(Tlv))
    <3>1. CASE Output(f) = << >>
      <4>1. published' = published
        BY <1>2, <2>3, <3>1
      <4> QED BY <1>1, <1>2, <2>2, <4>1, NothingPublished, Zenon
    <3>2. CASE Output(f) # << >>
      <4>1. f.last
        BY <3>2, OutputIsCmdu, Zenon
      <4>2. PICK content \in Seq(Tlv) : Output(f) = << content >> /\ IsCmdu(content, f.call)
        BY <3>2, OutputIsCmdu, Zenon
      <4>3. published' = Append(published, content) /\ published' \in Seq(Seq(Tlv))
        BY <1>2, <2>3, <4>2
      <4> QED BY <1>1, <2>2, <2>4, <4>1, <4>2, <4>3, CmduPublished, Zenon
    <3> QED BY <3>1, <3>2, Zenon
  <2>6. disturbed' \subseteq 0..Len(calls)
    BY <1>2, <2>3, Zenon
  <2> QED BY <1>2, <2>2, <2>3, <2>5, <2>6, HandledFrame, Zenon
<1>6. CASE PublishFails(f)
  <2> DEFINE erase == {PacketKey(PacketOf(f))}
  <2>1. erase \in {{}, {PacketKey(PacketOf(f))}} /\ IsNew(rx, PacketOf(f), TRUE, erase)
    BY <1>6, Zenon DEF PublishFails
  <2>2. /\ DOMAIN de_duplication_map_' = Devices /\ Refreshed(old, new, key)
        /\ key \in DOMAIN old => now > old[key] + MaxDeDupAge
    <3> HIDE DEF erase
    <3> QED BY <2>1, NewPacket, Zenon
  <2>3. /\ DeFragment(f) /\ UNCHANGED published /\ faults < MaxFaults /\ faults' = faults + 1
        /\ disturbed' = disturbed \cup {f.call}
    BY <1>6, Zenon DEF PublishFails, DeFragment, Fault
  <2>4. ~ Knows(f.call, f.id)
    BY <2>2, NewIsUnknown, Zenon
  <2>5. PublishedInv'
    BY <1>1, <2>2, <2>3, <2>4, NothingPublished, Zenon
  <2>6. disturbed' \subseteq 0..Len(calls) /\ faults' \in 0..MaxFaults
    <3>1. disturbed' \subseteq 0..Len(calls)
      BY <1>2, <2>3, Zenon
    <3>2. faults' \in 0..MaxFaults
      BY <1>2, <2>3, SizesAssumption
    <3> QED BY <3>1, <3>2, Zenon
  <2> QED BY <1>2, <2>2, <2>3, <2>5, <2>6, HandledFrame, Zenon
<1> QED BY <1>3, <1>4, <1>5, <1>6, Zenon DEF Receive

\* A frame is lost or duplicated.
LEMMA NetworkStep ==
  ASSUME IInv, NEW f \in inflight, Lose(f) \/ DuplicateFrame(f)
  PROVE  IInv'
<1> DEFINE copy == [f EXCEPT !.copy = TRUE]
<1>1. /\ UNCHANGED <<now, de_duplication_map_, message_id_, ready_at, sending,
                     de_fragmentation_map_, calls, published>>
      /\ inflight' \subseteq inflight \cup {copy}
      /\ faults < MaxFaults /\ faults' = faults + 1
      /\ disturbed' \subseteq disturbed \cup {f.call}
  BY Zenon DEF Lose, DuplicateFrame, Fault, transportVars, fragVars
<1>2. /\ f \in FrameInFlight /\ FrameInv(f) /\ f.call \in 0..Len(calls)
      /\ disturbed \subseteq 0..Len(calls) /\ faults \in 0..MaxFaults
      /\ inflight \subseteq FrameInFlight /\ \A g \in inflight : FrameInv(g)
  BY FrameFacts DEF IInv, TypeOK
<1>3. /\ copy \in FrameInFlight
      /\ copy.call = f.call /\ copy.mid = f.mid /\ copy.id = f.id /\ copy.last = f.last
      /\ copy.body = f.body /\ copy.pad = f.pad /\ copy.length = f.length
      /\ copy.size = f.size
  BY <1>2, Zenon DEF FrameInFlight
<1>4. FrameInv(copy)
  BY <1>2, <1>3, Zenon DEF FrameInv
<1> HIDE DEF copy
<1>5. \A g \in inflight' : FrameInv(g)'
  BY <1>1, <1>2, <1>4, Zenon DEF FrameInv
<1>6. TypeOK'
  <2>1. disturbed' \subseteq 0..Len(calls) /\ inflight' \subseteq FrameInFlight
    BY <1>1, <1>2, <1>3, Zenon
  <2>2. faults' \in 0..MaxFaults
    BY <1>1, <1>2, SizesAssumption
  <2> QED BY <1>1, <2>1, <2>2, Zenon DEF IInv, TypeOK
<1>7. PublishedInv'
  <2>1. \A n, id : Knows(n, id)' <=> Knows(n, id)
    BY <1>1, Zenon DEF Knows, StoredKey
  <2>2. \A x, n : IsCmdu(x, n)' <=> IsCmdu(x, n)
    BY <1>1, Zenon DEF IsCmdu
  <2>3. \A n : IsPublished(n)' <=> IsPublished(n)
    BY <1>1, <2>2, Zenon DEF IsPublished
  <2>4. \A g \in inflight' : g.last /\ IsPublished(g.call) => Knows(g.call, g.id)
    BY <1>1, <1>3, Zenon DEF IInv, PublishedInv
  <2> QED BY <1>1, <2>1, <2>2, <2>3, <2>4, Zenon DEF IInv, PublishedInv
<1>8. KeysInv(de_duplication_map_[rx])'
  BY <1>1, Zenon DEF IInv, KeysInv, StoredKey
<1>9. \A mid \in DOMAIN de_fragmentation_map_' : EntryInv(mid, de_fragmentation_map_[mid])'
  BY <1>1, Zenon DEF IInv, EntryInv
<1>10. /\ \A n \in 1..Len(calls') : CutsInv(calls[n])'
       /\ IsFiniteSet(DOMAIN de_fragmentation_map_')
       /\ DOMAIN de_duplication_map_' = Devices
  BY <1>1, Zenon DEF IInv
<1>11. EpochInv' /\ SendingInv'
  BY <1>1, Zenon DEF IInv, EpochInv, SendingInv
<1> QED BY <1>5, <1>6, <1>7, <1>8, <1>9, <1>10, <1>11, Zenon DEF IInv

\* Time passes: no frame is overdue.
LEMMA TickStep ==
  ASSUME IInv, Tick
  PROVE  IInv'
<1>1. /\ UNCHANGED <<de_duplication_map_, message_id_, ready_at, sending, faults, disturbed,
                     de_fragmentation_map_, calls, published, inflight>>
      /\ now' = now + 1 /\ sending = Idle /\ \A f \in inflight : calls[f.call].due > now
  BY Zenon DEF Tick, fragVars
<1>2. now \in Nat /\ now' \in Nat /\ ready_at \in Nat /\ RestartTime \in Nat /\ MaxDelay \in Nat
  BY <1>1, SizesAssumption, SMTT(30) DEF IInv, TypeOK
<1>3. \A n \in 1..Len(calls) : calls[n].due \in Nat
  BY CallsType, CallType, Zenon DEF IInv
<1>4. \A f \in inflight : FrameInv(f)'
  <2> TAKE f \in inflight
  <2>1. FrameInv(f) /\ f.call \in 1..Len(calls)
    BY FrameFacts, Zenon
  <2>2. now' <= calls[f.call].due
    BY <1>1, <1>2, <1>3, <2>1, SMTT(30)
  <2> QED BY <1>1, <2>1, <2>2, Zenon DEF FrameInv
<1>5. EpochInv'
  <2>1. /\ message_id_ \in 0..Len(calls) /\ Len(calls) <= MaxCalls
        /\ \A n \in 1..Len(calls) :
             /\ calls[n].mid \in 1..MaxCalls
             /\ IF n > Len(calls) - message_id_
                THEN calls[n].mid = n - (Len(calls) - message_id_)
                ELSE calls[n].due + RestartTime <= ready_at + MaxDelay
        /\ \A n \in 1..Len(calls), m \in 1..Len(calls) :
             n < m /\ calls[n].mid = calls[m].mid => calls[n].due + RestartTime <= calls[m].due
    BY Zenon DEF IInv, EpochInv
  <2>2. ready_at <= now' + RestartTime /\ (message_id_ > 0 => ready_at <= now')
    BY <1>1, <1>2, SMTT(30) DEF IInv, EpochInv
  <2>3. \A n \in 1..Len(calls) : calls[n].due <= now' + MaxDelay
    <3> TAKE n \in 1..Len(calls)
    <3>1. calls[n].due <= now + MaxDelay
      BY Zenon DEF IInv, EpochInv
    <3> QED BY <1>1, <1>2, <1>3, <3>1
  <2> QED BY <1>1, <2>1, <2>2, <2>3, Zenon DEF EpochInv
<1>6. SendingInv'
  BY <1>1, Zenon DEF SendingInv, Idle
<1>7. TypeOK'
  BY <1>1, <1>2, Zenon DEF IInv, TypeOK
<1>8. PublishedInv'
  <2>1. \A n, id : Knows(n, id)' <=> Knows(n, id)
    BY <1>1, Zenon DEF Knows, StoredKey
  <2>2. \A x, n : IsCmdu(x, n)' <=> IsCmdu(x, n)
    BY <1>1, Zenon DEF IsCmdu
  <2>3. \A n : IsPublished(n)' <=> IsPublished(n)
    BY <1>1, <2>2, Zenon DEF IsPublished
  <2> QED BY <1>1, <2>1, <2>2, <2>3, Zenon DEF IInv, PublishedInv
<1>9. KeysInv(de_duplication_map_[rx])'
  BY <1>1, Zenon DEF IInv, KeysInv, StoredKey
<1>10. \A mid \in DOMAIN de_fragmentation_map_' : EntryInv(mid, de_fragmentation_map_[mid])'
  BY <1>1, Zenon DEF IInv, EntryInv
<1>11. /\ \A n \in 1..Len(calls') : CutsInv(calls[n])'
       /\ IsFiniteSet(DOMAIN de_fragmentation_map_')
       /\ DOMAIN de_duplication_map_' = Devices
  BY <1>1, Zenon DEF IInv
<1> QED BY <1>1, <1>4, <1>5, <1>6, <1>7, <1>8, <1>9, <1>10, <1>11, Zenon DEF IInv

-----------------------------------------------------------------------------
(* The steps of tx *)

\* What the calls keep when one is added or goes on.
Grown ==
  /\ calls' \in Seq(Call) /\ Len(calls) <= Len(calls')
  /\ \A n \in 1..Len(calls) :
       LET c == calls[n]
           d == calls'[n] IN
       /\ d.cmdu = c.cmdu /\ d.mid = c.mid /\ d.due = c.due
       /\ Len(c.cuts) <= Len(d.cuts) /\ (c.last => d.last)
       /\ \A k \in 0..Len(c.cuts) : CutAt(d, k) = CutAt(c, k)

\* What is known of frames, keys, entries and published CMDUs stays so.
LEMMA GrowthKeeps ==
  ASSUME IInv, Grown, UNCHANGED <<now, de_duplication_map_, de_fragmentation_map_, published>>
  PROVE  /\ \A f \in inflight : FrameInv(f)'
         /\ KeysInv(de_duplication_map_[rx])'
         /\ \A mid \in DOMAIN de_fragmentation_map_' : EntryInv(mid, de_fragmentation_map_[mid])'
         /\ \A n \in 1..Len(calls) : \A id : Knows(n, id)' <=> Knows(n, id)
         /\ \A n \in 1..Len(calls) : \A x : IsCmdu(x, n)' <=> IsCmdu(x, n)
         /\ \A n \in 1..Len(calls') : IsPublished(n)' <=> n \in 1..Len(calls) /\ IsPublished(n)
<1>1. /\ Len(calls) \in Nat /\ Len(calls') \in Nat /\ 1..Len(calls) \subseteq 1..Len(calls')
      /\ \A n \in 1..Len(calls) : calls[n] \in Call /\ n \in Nat
      /\ \A n \in 1..Len(calls') : calls'[n] \in Call /\ n \in Nat
  <2>1. Len(calls) \in Nat /\ \A n \in 1..Len(calls) : calls[n] \in Call /\ n \in Nat
    BY CallsType, Zenon DEF IInv
  <2>2. Len(calls') \in Nat /\ \A n \in 1..Len(calls') : calls'[n] \in Call /\ n \in Nat
    BY SeqElement, SeqLength DEF Grown
  <2> QED BY <2>1, <2>2 DEF Grown
<1>2. \A f \in inflight : FrameInv(f)'
  <2> TAKE f \in inflight
  <2> DEFINE c == calls[f.call]
             d == calls'[f.call]
  <2>1. /\ f.call \in 1..Len(calls) /\ f.id \in Nat /\ f.id < Len(c.cuts)
        /\ Len(c.cuts) \in Nat /\ Len(d.cuts) \in Nat
        /\ now <= c.due /\ f.mid = c.mid
        /\ f.body = Tlvs(f.call, CutAt(c, f.id) + 1, CutAt(c, f.id + 1))
        /\ f.last <=> CutAt(c, f.id + 1) = Len(c.cmdu)
        /\ f.pad \in {<< >>, << Pad >>} /\ f.length <= f.size
    <3>1. FrameInv(f) /\ f \in FrameInFlight /\ f.call \in 1..Len(calls)
      BY FrameFacts, Zenon
    <3>2. Len(c.cuts) \in Nat /\ Len(d.cuts) \in Nat
      BY <1>1, <3>1, CallType, Zenon
    <3> QED BY <3>1, <3>2 DEF FrameInv, FrameInFlight
  <2>2. /\ d.cmdu = c.cmdu /\ d.mid = c.mid /\ d.due = c.due /\ Len(c.cuts) <= Len(d.cuts)
        /\ \A k \in 0..Len(c.cuts) : CutAt(d, k) = CutAt(c, k)
    BY <2>1, Zenon DEF Grown
  <2> HIDE DEF c, d
  <2>3. CutAt(d, f.id) = CutAt(c, f.id) /\ CutAt(d, f.id + 1) = CutAt(c, f.id + 1)
    BY <2>1, <2>2
  <2>4. f.id < Len(d.cuts)
    BY <2>1, <2>2
  <2> QED BY <1>1, <2>1, <2>2, <2>3, <2>4, Zenon DEF FrameInv, d
<1>3. KeysInv(de_duplication_map_[rx])'
  <2> SUFFICES ASSUME NEW k \in DOMAIN de_duplication_map_[rx]
               PROVE  /\ de_duplication_map_[rx][k] \in Nat
                      /\ \E n \in 1..Len(calls'), id \in 0..(FragmentIds - 1) :
                           /\ k = StoredKey(calls'[n].mid, id)
                           /\ de_duplication_map_[rx][k] <= calls'[n].due
    BY Zenon DEF KeysInv, StoredKey
  <2>1. de_duplication_map_[rx][k] \in Nat
    BY Zenon DEF IInv, KeysInv
  <2>2. PICK n \in 1..Len(calls), id \in 0..(FragmentIds - 1) :
          k = StoredKey(calls[n].mid, id) /\ de_duplication_map_[rx][k] <= calls[n].due
    BY Zenon DEF IInv, KeysInv
  <2>3. calls'[n].mid = calls[n].mid /\ calls'[n].due = calls[n].due /\ n \in 1..Len(calls')
    BY <1>1, Zenon DEF Grown
  <2> QED BY <2>1, <2>2, <2>3, Zenon
<1>4. ASSUME NEW mid \in DOMAIN de_fragmentation_map_
      PROVE  EntryInv(mid, de_fragmentation_map_[mid])'
  <2> DEFINE e == de_fragmentation_map_[mid]
  <2>1. PICK n \in 1..Len(calls) :
          /\ calls[n].mid = mid /\ e.time <= calls[n].due
          /\ ~ e.complete /\ e.numFragments # 0 =>
               /\ e.numFragments <= Len(calls[n].cuts)
               /\ e.buf = Tlvs(n, 1, CutAt(calls[n], e.numFragments))
    BY <1>4, Zenon DEF IInv, EntryInv
  <2>2. e.numFragments \in Nat
    BY <1>4 DEF IInv, TypeOK, DeFragmentationValue
  <2>3. Len(calls[n].cuts) \in Nat /\ Len(calls'[n].cuts) \in Nat /\ n \in 1..Len(calls')
    BY <1>1, CallType, Zenon
  <2>4. /\ calls'[n].mid = calls[n].mid /\ calls'[n].due = calls[n].due
        /\ Len(calls[n].cuts) <= Len(calls'[n].cuts)
        /\ \A k \in 0..Len(calls[n].cuts) : CutAt(calls'[n], k) = CutAt(calls[n], k)
    BY Zenon DEF Grown
  <2> HIDE DEF e
  <2>5. ASSUME ~ e.complete, e.numFragments # 0
        PROVE  /\ e.numFragments <= Len(calls'[n].cuts)
               /\ e.buf = Tlvs(n, 1, CutAt(calls'[n], e.numFragments))
    <3>1. e.numFragments \in 0..Len(calls[n].cuts)
      BY <2>1, <2>2, <2>3, <2>5
    <3> QED BY <2>1, <2>2, <2>3, <2>4, <2>5, <3>1
  <2>6. de_fragmentation_map_'[mid] = e
    BY Zenon DEF e
  <2> QED BY <2>1, <2>3, <2>4, <2>5, <2>6, Zenon DEF EntryInv
<1>5. \A n \in 1..Len(calls) : \A id : Knows(n, id)' <=> Knows(n, id)
  BY Zenon DEF Grown, Knows, StoredKey
<1>6. \A n \in 1..Len(calls) : \A x : IsCmdu(x, n)' <=> IsCmdu(x, n)
  BY Zenon DEF Grown, IsCmdu
<1>7. ASSUME NEW n \in 1..Len(calls')
      PROVE  IsPublished(n)' <=> n \in 1..Len(calls) /\ IsPublished(n)
  <2>1. CASE n \in 1..Len(calls)
    BY <1>6, <2>1, Zenon DEF IsPublished
  <2>2. CASE n \notin 1..Len(calls)
    <3> SUFFICES ASSUME NEW i \in 1..Len(published), IsCmdu(published[i], n)' PROVE FALSE
      BY <2>2, Zenon DEF IsPublished
    <3>1. PICK m \in 1..Len(calls) : IsCmdu(published[i], m)
      BY Zenon DEF IInv, PublishedInv
    <3>2. published[i][1].call = m
      BY <3>1, CallOfCmdu, Zenon DEF IInv
    <3>3. /\ n \in Nat /\ Len(calls'[n].cmdu) \in Nat /\ Len(calls'[n].cmdu) >= 1
      BY <1>1, CallType, Zenon
    <3>4. published[i] \in {Tlvs(n, 1, Len(calls'[n].cmdu)),
                            Append(Tlvs(n, 1, Len(calls'[n].cmdu)), Pad)}
      BY Zenon DEF IsCmdu
    <3>5. published[i][1].call = n
      BY <3>3, <3>4, CmduContent, Zenon
    <3> QED BY <2>2, <3>2, <3>5, Zenon
  <2> QED BY <2>1, <2>2, Zenon
<1> QED BY <1>2, <1>3, <1>4, <1>5, <1>6, <1>7, Zenon

\* A step of tx keeps the invariant if the new frame, if any, is of a call that has not
\* been published.
LEMMA SenderStep ==
  ASSUME IInv, Grown, TypeOK', EpochInv', SendingInv',
         \A n \in 1..Len(calls') : CutsInv(calls[n])',
         UNCHANGED <<now, de_duplication_map_, de_fragmentation_map_, published>>,
         \A f \in inflight' : \/ f \in inflight
                              \/ FrameInv(f)' /\ ~ (f.call \in 1..Len(calls) /\ IsPublished(f.call))
  PROVE  IInv'
<1>1. /\ \A f \in inflight : FrameInv(f)'
      /\ KeysInv(de_duplication_map_[rx])'
      /\ \A mid \in DOMAIN de_fragmentation_map_' : EntryInv(mid, de_fragmentation_map_[mid])'
      /\ \A n \in 1..Len(calls) : \A id : Knows(n, id)' <=> Knows(n, id)
      /\ \A n \in 1..Len(calls) : \A x : IsCmdu(x, n)' <=> IsCmdu(x, n)
      /\ \A n \in 1..Len(calls') : IsPublished(n)' <=> n \in 1..Len(calls) /\ IsPublished(n)
  BY GrowthKeeps, Zenon
<1>2. \A f \in inflight' : FrameInv(f)'
  BY <1>1, Zenon
<1>3. 1..Len(calls) \subseteq 1..Len(calls')
  BY CallsType, SeqLength, SMTT(30) DEF Grown, IInv
<1>4. PublishedInv'
  <2>1. \A i \in 1..Len(published') : \E n \in 1..Len(calls') : IsCmdu(published[i], n)'
    <3> TAKE i \in 1..Len(published')
    <3>1. PICK n \in 1..Len(calls) : IsCmdu(published[i], n)
      BY Zenon DEF IInv, PublishedInv
    <3>2. IsCmdu(published[i], n)'
      BY <1>1, <3>1, Zenon
    <3> QED BY <1>3, <3>2, Zenon
  <2>2. ASSUME NEW i \in 1..Len(published), NEW j \in 1..Len(published), NEW n \in 1..Len(calls'),
               IsCmdu(published[i], n)', IsCmdu(published[j], n)'
        PROVE  i = j
    <3>1. n \in 1..Len(calls)
      BY <1>1, <2>2, Zenon DEF IsPublished
    <3>2. IsCmdu(published[i], n) /\ IsCmdu(published[j], n)
      BY <1>1, <2>2, <3>1, Zenon
    <3> QED BY <3>1, <3>2, Zenon DEF IInv, PublishedInv
  <2>3. \A n \in 1..Len(calls') : IsPublished(n)' => calls'[n].last
    BY <1>1, Zenon DEF IInv, PublishedInv, Grown
  <2>4. ASSUME NEW f \in inflight', f.last, IsPublished(f.call)' PROVE Knows(f.call, f.id)'
    <3>1. f.call \in 1..Len(calls')
      BY <1>2, Zenon DEF FrameInv
    <3>2. f.call \in 1..Len(calls) /\ IsPublished(f.call) /\ f \in inflight
      BY <1>1, <2>4, <3>1, Zenon
    <3>3. Knows(f.call, f.id)
      BY <2>4, <3>2, Zenon DEF IInv, PublishedInv
    <3> QED BY <1>1, <3>2, <3>3, Zenon
  <2> QED BY <2>1, <2>2, <2>3, <2>4, Zenon DEF PublishedInv
<1>5. IsFiniteSet(DOMAIN de_fragmentation_map_') /\ DOMAIN de_duplication_map_' = Devices
  BY Zenon DEF IInv
<1> QED BY <1>1, <1>2, <1>4, <1>5, Zenon DEF IInv

\* TLVs have a size.
LEMMA SizeType ==
  ASSUME NEW cmdu \in Cmdus, NEW first \in 1..Len(cmdu), NEW last \in (first - 1)..Len(cmdu)
  PROVE  Size(cmdu, first, last) \in Nat
<1>1. /\ cmdu \in Seq(Nat \ {0}) /\ Len(cmdu) \in Nat
      /\ \A i \in 1..Len(cmdu), j \in 1..Len(cmdu) : i < j => cmdu[i] < cmdu[j]
  BY CmduAssumption, SeqLength, Zenon
<1>2. \A i \in 1..Len(cmdu) : cmdu[i] \in Nat
  BY <1>1, SeqElement, Zenon
<1>3. first \in Nat /\ last \in Nat /\ first >= 1 /\ last >= first - 1 /\ last <= Len(cmdu)
      /\ first <= Len(cmdu)
  BY <1>1
<1>4. CASE last = 0
  BY <1>3, <1>4 DEF Size
<1>5. CASE last # 0 /\ first = 1
  BY <1>2, <1>3, <1>5 DEF Size
<1>6. CASE last # 0 /\ first # 1
  <2>1. first - 1 \in 1..Len(cmdu) /\ last \in 1..Len(cmdu)
    BY <1>3, <1>6
  <2>2. cmdu[first - 1] \in Nat /\ cmdu[last] \in Nat
    BY <1>2, <2>1, Zenon
  <2>3. cmdu[first - 1] <= cmdu[last]
    <3>1. CASE last = first - 1
      BY <2>2, <3>1
    <3>2. CASE last > first - 1
      <4>1. cmdu[first - 1] < cmdu[last]
        BY <1>1, <2>1, <3>2, Zenon
      <4> QED BY <2>2, <4>1
    <3> QED BY <1>3, <3>1, <3>2
  <2>4. Size(cmdu, first, last) = cmdu[last] - cmdu[first - 1]
    BY <1>6, Zenon DEF Size
  <2> QED BY <2>2, <2>3, <2>4
<1> QED BY <1>4, <1>5, <1>6, Zenon

\* The frame of the TLVs of a call from first to last.
IsFrame(f, n, cmdu, mid, id, first, last) ==
  /\ f \in FrameInFlight
  /\ f.call = n /\ f.mid = mid /\ f.id = id /\ (f.last <=> last = Len(cmdu))
  /\ f.body = Tlvs(n, first, last) /\ f.pad \in {<< >>, << Pad >>}
  /\ f.length <= f.size /\ f.copy = FALSE

\* The frame that send_fragment() makes has the type of a frame in flight and the parts given.
LEMMA FrameType ==
  ASSUME NEW n \in Nat, NEW cmdu \in Cmdus, NEW mid \in Nat, NEW id \in 0..(FragmentIds - 1),
         NEW first \in 1..Len(cmdu), NEW last \in (first - 1)..Len(cmdu)
  PROVE  IsFrame(Frame(n, cmdu, mid, id, first, last), n, cmdu, mid, id, first, last)
<1> PICK f : f = Frame(n, cmdu, mid, id, first, last)
  BY Zenon
<1> DEFINE length == Size(cmdu, first, last)
           size == IF length < MinBody THEN MinBody ELSE length
           final == last = Len(cmdu)
           pad == IF length < MinBody THEN << Pad >> ELSE << >>
<1>1. length \in Nat
  BY SizeType, Zenon
<1>2. first \in Nat /\ last \in Nat /\ last - first + 1 \in Nat
  <2>1. Len(cmdu) \in Nat
    BY CmduAssumption, SeqLength, Zenon
  <2> QED BY <2>1
<1>3. Tlvs(n, first, last) \in Seq(Tlv)
  <2> DEFINE a == first - 1
  <2>1. a \in Nat /\ a <= last /\ a + 1 = first
    BY <1>2
  <2> HIDE DEF a
  <2>2. Tlvs(n, a + 1, last) \in Seq(Tlv)
    BY <1>2, <2>1, TlvsType, Zenon
  <2> QED BY <2>1, <2>2, Zenon
<1>4. f = [call |-> n, mid |-> mid, id |-> id, last |-> final,
           body |-> Tlvs(n, first, last), length |-> length, pad |-> pad, size |-> size,
           copy |-> FALSE]
  BY Zenon DEF Frame
<1> HIDE DEF length
<1>5. size \in Nat /\ length <= size
  BY <1>1, SizesAssumption, SMTT(30)
<1>6. pad \in {<< >>, << Pad >>} /\ pad \in Seq(Tlv)
  <2>1. << >> \in Seq(Tlv) /\ << Pad >> \in Seq(Tlv)
    <3>1. Pad \in Tlv
      BY Zenon DEF Pad, Tlv
    <3> QED BY <3>1
  <2> QED BY <2>1, Zenon
<1>9. final \in BOOLEAN /\ (final <=> last = Len(cmdu))
  BY Zenon
<1> HIDE DEF size, pad, final
<1>7. f \in FrameInFlight
  BY <1>1, <1>3, <1>4, <1>5, <1>6, <1>9 DEF FrameInFlight
<1>8. /\ f.call = n /\ f.mid = mid /\ f.id = id /\ f.last = final
      /\ f.body = Tlvs(n, first, last) /\ f.pad = pad
      /\ f.length = length /\ f.size = size /\ f.copy = FALSE
  BY <1>4
<1> QED BY <1>5, <1>6, <1>7, <1>8, <1>9, Zenon DEF IsFrame

\* A call that goes on keeps the others as they are.
LEMMA LastReplaced ==
  ASSUME NEW s \in Seq(Call), s # << >>, NEW c \in Call, NEW t, t = [s EXCEPT ![Len(s)] = c]
  PROVE  /\ t \in Seq(Call) /\ Len(t) = Len(s) /\ Len(s) \in 1..Len(s)
         /\ t[Len(s)] = c
         /\ \A n \in 1..Len(s) : n # Len(s) => t[n] = s[n]
<1>1. Len(s) \in Nat /\ Len(s) # 0
  BY SeqLength, SeqEmpty, Zenon
<1>2. Len(s) \in 1..Len(s)
  BY <1>1
<1> QED BY <1>1, <1>2

\* When only the last call changes, and only by more fragments, the calls have grown and the
\* facts on cuts and on the calls since the last restart still hold.
LEMMA LastCallGrown ==
  ASSUME IInv, NEW c \in Call, NEW N, N = Len(calls), N \in 1..N,
         calls' \in Seq(Call), Len(calls') = N, calls'[N] = c,
         \A n \in 1..N : n # N => calls'[n] = calls[n],
         c.cmdu = calls[N].cmdu, c.mid = calls[N].mid, c.due = calls[N].due,
         Len(calls[N].cuts) <= Len(c.cuts), calls[N].last => c.last,
         \A k \in 0..Len(calls[N].cuts) : CutAt(c, k) = CutAt(calls[N], k),
         CutsInv(c)
  PROVE  /\ Grown
         /\ \A n \in 1..Len(calls') : CutsInv(calls[n])'
         /\ UNCHANGED <<now, ready_at, message_id_>> => EpochInv'
<1>1. N \in Nat /\ \A n \in 1..N : calls[n] \in Call /\ Len(calls[n].cuts) \in Nat
  BY CallsType, CallType, Zenon DEF IInv
<1>2. Grown
  <2>1. N <= N
    BY <1>1
  <2>2. ASSUME NEW n \in 1..N, n # N
        PROVE  Len(calls[n].cuts) <= Len(calls'[n].cuts) /\ calls'[n] = calls[n]
    BY <1>1, <2>2
  <2> QED BY <2>1, <2>2, Zenon DEF Grown
<1>3. \A n \in 1..Len(calls') : CutsInv(calls[n])'
  <2> SUFFICES ASSUME NEW n \in 1..N PROVE CutsInv(calls'[n])
    BY Zenon DEF CutsInv, CutAt
  <2>1. CutsInv(calls[n])
    BY Zenon DEF IInv
  <2> QED BY <2>1, Zenon
<1>4. ASSUME UNCHANGED <<now, ready_at, message_id_>> PROVE EpochInv'
  <2>1. \A n \in 1..N : calls'[n].mid = calls[n].mid /\ calls'[n].due = calls[n].due
    BY <1>2, Zenon DEF Grown
  <2>2. EpochInv
    BY Zenon DEF IInv
  <2> QED BY <1>4, <2>1, <2>2, Zenon DEF EpochInv
<1> QED BY <1>2, <1>3, <1>4, Zenon

\* A call that ends has no other effect on what is sent.
LEMMA ReturnsStep ==
  ASSUME IInv, sending # Idle, NEW value \in {"true", "false"}, Returns(value), sending' = Idle,
         disturbed' \subseteq 0..Len(calls), faults' \in 0..MaxFaults,
         UNCHANGED <<now, de_duplication_map_, message_id_, ready_at, de_fragmentation_map_,
                     inflight, published>>
  PROVE  /\ IInv' /\ Grown /\ Len(calls') = Len(calls) /\ ~ calls[Len(calls)].last
         /\ \A n \in 1..Len(calls) :
              calls'[n].cuts = calls[n].cuts /\ calls'[n].last = calls[n].last
<1> DEFINE N == Len(calls)
           b == calls[N]
           c == [b EXCEPT !.result = value]
<1>1. calls \in Seq(Call) /\ calls # << >> /\ TypeOK
  BY Zenon DEF IInv, TypeOK, SendingInv
<1>2. N \in 1..N /\ b \in Call
  <2>1. N \in Nat /\ N # 0
    BY <1>1, SeqLength, SeqEmpty, Zenon
  <2>2. N \in 1..N
    BY <2>1
  <2> QED BY <1>1, <2>2, SeqElement, Zenon
<1>3. /\ c \in Call /\ c.cmdu = b.cmdu /\ c.mid = b.mid /\ c.due = b.due /\ c.cuts = b.cuts
      /\ c.last = b.last
  BY <1>2, Zenon DEF Call
<1>4. calls' = [calls EXCEPT ![N] = c]
  BY <1>1, <1>2, Zenon DEF Returns
<1> HIDE DEF c
<1>5. /\ calls' \in Seq(Call) /\ Len(calls') = N /\ calls'[N] = c
      /\ \A n \in 1..N : n # N => calls'[n] = calls[n]
  BY <1>1, <1>3, <1>4, LastReplaced
<1>6. CutsInv(c)
  <2>1. CutsInv(b)
    BY <1>2, Zenon DEF IInv
  <2> QED BY <1>3, <2>1, Zenon DEF CutsInv, CutAt
<1>7. Len(b.cuts) <= Len(c.cuts) /\ \A k \in 0..Len(b.cuts) : CutAt(c, k) = CutAt(b, k)
  <2>1. Len(b.cuts) \in Nat
    BY <1>2, CallType, Zenon
  <2> QED BY <1>3, <2>1 DEF CutAt
<1> HIDE DEF N
<1>8. /\ Grown
      /\ \A n \in 1..Len(calls') : CutsInv(calls[n])'
      /\ EpochInv'
  <2>1. N = Len(calls)
    BY Zenon DEF N
  <2> QED BY <1>2, <1>3, <1>5, <1>6, <1>7, <2>1, LastCallGrown, ZenonT(30)
<1>9. TypeOK'
  <2>1. sending' \in [next : Nat, fragmentId : 0..(FragmentIds - 1)]
    BY SizesAssumption DEF Idle
  <2>2. disturbed' \subseteq 0..Len(calls')
    BY <1>5, Zenon DEF N
  <2> QED BY <1>1, <1>5, <2>1, <2>2, Zenon DEF TypeOK
<1>10. SendingInv'
  BY Zenon DEF SendingInv
<1>11. IInv'
  <2>1. \A f \in inflight' : f \in inflight
    BY Zenon
  <2> QED BY <1>8, <1>9, <1>10, <2>1, SenderStep, Zenon
<1>12. ~ b.last
  BY Zenon DEF IInv, SendingInv, N
<1>13. \A n \in 1..N : calls'[n].cuts = calls[n].cuts /\ calls'[n].last = calls[n].last
  BY <1>3, <1>5, Zenon
<1> QED BY <1>5, <1>8, <1>11, <1>12, <1>13, Zenon DEF N

\* send_tlv_packet(): a TLV that fits no fragment ends the call, and the facts still hold.
LEMMA RefuseTlvStep ==
  ASSUME IInv, NEW end, RefuseTlv(end)
  PROVE  IInv'
<1>1. sending # Idle /\ Returns("false") /\ sending' = Idle
  BY Zenon DEF RefuseTlv
<1>2. disturbed' \subseteq 0..Len(calls) /\ faults' \in 0..MaxFaults
  BY Zenon DEF RefuseTlv, IInv, TypeOK
<1>3. UNCHANGED <<now, de_duplication_map_, message_id_, ready_at, de_fragmentation_map_,
                  inflight, published>>
  BY Zenon DEF RefuseTlv, transportVars
<1> QED BY <1>1, <1>2, <1>3, ReturnsStep, Zenon

\* send_fragment(): a failed write ends the call, and the facts still hold.
LEMMA WriteFailsStep ==
  ASSUME IInv, WriteFails
  PROVE  IInv'
<1>1. sending # Idle /\ Returns("false") /\ sending' = Idle
  BY Zenon DEF WriteFails
<1>2. disturbed' \subseteq 0..Len(calls) /\ faults' \in 0..MaxFaults
  <2>1. Len(calls) \in Nat /\ disturbed \subseteq 0..Len(calls) /\ faults \in 0..MaxFaults
    BY SeqLength, Zenon DEF IInv, TypeOK
  <2>2. /\ faults < MaxFaults /\ faults' = faults + 1
        /\ disturbed' = disturbed \cup {Len(calls)}
    BY Zenon DEF WriteFails, Fault
  <2>3. Len(calls) \in 0..Len(calls)
    BY <2>1
  <2>4. faults' \in 0..MaxFaults
    BY <2>1, <2>2, SizesAssumption
  <2>5. disturbed' \subseteq 0..Len(calls)
    BY <2>1, <2>2, <2>3, Zenon
  <2> QED BY <2>4, <2>5, Zenon
<1>3. UNCHANGED <<now, de_duplication_map_, message_id_, ready_at, de_fragmentation_map_,
                  inflight, published>>
  BY Zenon DEF WriteFails, transportVars
<1> QED BY <1>1, <1>2, <1>3, ReturnsStep, Zenon

\* A restart of the transport: messageIds start again, and the facts still hold because no
\* frame of an earlier call is under way once it is ready.
LEMMA RestartStep ==
  ASSUME IInv, Restart
  PROVE  IInv'
<1>1. /\ TypeOK /\ Len(calls) \in Nat /\ now \in Nat /\ ready_at \in Nat /\ RestartTime \in Nat
      /\ MaxDelay \in Nat
      /\ \A n \in 1..Len(calls) : calls[n] \in Call /\ calls[n].due \in Nat
  BY SizesAssumption, CallsType, CallType, Zenon DEF IInv, TypeOK
<1>2. /\ message_id_' = 0 /\ ready_at' = now + RestartTime /\ sending' = Idle
      /\ faults < MaxFaults /\ faults' = faults + 1
      /\ disturbed' = disturbed \cup {IF sending = Idle THEN 0 ELSE Len(calls)}
      /\ UNCHANGED <<now, de_duplication_map_, de_fragmentation_map_, inflight, calls, published>>
  BY Zenon DEF Restart, Fault, transportVars
<1>3. TypeOK'
  <2>1. sending' \in [next : Nat, fragmentId : 0..(FragmentIds - 1)]
    BY <1>2, SizesAssumption DEF Idle
  <2>2. disturbed' \subseteq 0..Len(calls')
    <3>1. disturbed \subseteq 0..Len(calls)
      BY <1>1, Zenon DEF TypeOK
    <3>2. 0 \in 0..Len(calls) /\ Len(calls) \in 0..Len(calls)
      BY <1>1
    <3>3. calls' = calls /\ disturbed' = disturbed \cup {IF sending = Idle THEN 0 ELSE Len(calls)}
      BY <1>2, Zenon
    <3> QED BY <3>1, <3>2, <3>3, Zenon
  <2>3. faults' \in 0..MaxFaults
    <3>1. faults \in 0..MaxFaults
      BY <1>1, Zenon DEF TypeOK
    <3> QED BY <1>2, <3>1, SizesAssumption
  <2>4. ready_at' \in Nat /\ message_id_' \in Nat /\ message_id_' < MessageIds
    BY <1>1, <1>2, MidsAssumption
  <2> QED BY <1>1, <1>2, <2>1, <2>2, <2>3, <2>4, Zenon DEF TypeOK
<1>4. SendingInv'
  BY <1>2, Zenon DEF SendingInv
<1>5. EpochInv'
  <2>1. EpochInv
    BY Zenon DEF IInv
  <2>2. message_id_' \in 0..Len(calls') /\ Len(calls') <= MaxCalls
    BY <1>1, <1>2, <2>1 DEF EpochInv
  <2>3. ready_at' <= now' + RestartTime /\ ~ (message_id_' > 0)
    BY <1>1, <1>2
  <2>4. ASSUME NEW n \in 1..Len(calls)
        PROVE  /\ calls[n].due <= now + MaxDelay /\ calls[n].mid \in 1..MaxCalls
               /\ ~ (n > Len(calls) - 0)
               /\ calls[n].due + RestartTime <= ready_at' + MaxDelay
    <3>1. calls[n].due <= now + MaxDelay /\ calls[n].mid \in 1..MaxCalls
      BY <2>1, Zenon DEF EpochInv
    <3> QED BY <1>1, <1>2, <3>1, SMTT(30)
  <2>5. \A n \in 1..Len(calls), m \in 1..Len(calls) :
          n < m /\ calls[n].mid = calls[m].mid => calls[n].due + RestartTime <= calls[m].due
    BY <2>1, Zenon DEF EpochInv
  <2> QED BY <1>2, <2>2, <2>3, <2>4, <2>5, Zenon DEF EpochInv
<1>6. Grown
  <2>1. \A n \in 1..Len(calls) : Len(calls[n].cuts) \in Nat
    BY <1>1, CallType, Zenon
  <2>2. calls \in Seq(Call) /\ Len(calls) <= Len(calls)
    BY <1>1 DEF TypeOK
  <2>3. \A n \in 1..Len(calls) : Len(calls[n].cuts) <= Len(calls[n].cuts)
    BY <2>1
  <2> QED BY <1>2, <2>2, <2>3, Zenon DEF Grown
<1>7. \A n \in 1..Len(calls') : CutsInv(calls[n])'
  BY <1>2, Zenon DEF IInv, CutsInv, CutAt
<1>8. \A f \in inflight' : f \in inflight
  BY <1>2, Zenon
<1> QED BY <1>2, <1>3, <1>4, <1>5, <1>6, <1>7, <1>8, SenderStep, Zenon

\* Call c is call b with one more fragment.
IsCutAfter(c, b, end) ==
  /\ c \in Call /\ c.cmdu = b.cmdu /\ c.mid = b.mid /\ c.due = b.due
  /\ c.cuts = Append(b.cuts, end) /\ (c.last <=> end = Len(b.cmdu))

\* A call with one more cut keeps the earlier ones, and the cuts still go up.
LEMMA CutAdded ==
  ASSUME NEW b \in Call, CutsInv(b), ~ b.last, Len(b.cuts) < FragmentIds,
         NEW end \in (CutAt(b, Len(b.cuts)))..Len(b.cmdu),
         NEW c, IsCutAfter(c, b, end)
  PROVE  /\ Len(c.cuts) = Len(b.cuts) + 1 /\ CutAt(c, Len(b.cuts) + 1) = end
         /\ \A k \in 0..Len(b.cuts) : CutAt(c, k) = CutAt(b, k)
         /\ CutAt(b, Len(b.cuts)) \in 0..(Len(b.cmdu) - 1)
         /\ CutsInv(c)
<1> DEFINE L == Len(b.cuts)
           M == Len(b.cmdu)
<1>1. M \in Nat /\ M >= 1 /\ b.cuts \in Seq(Nat) /\ L \in Nat
  BY CallType, Zenon
<1>2. /\ \A k \in 0..L : CutAt(b, k) \in 0..M
      /\ \A k \in 1..L : CutAt(b, k - 1) <= CutAt(b, k) /\ CutAt(b, k - 1) < M
      /\ CutAt(b, L) # M
  BY Zenon DEF CutsInv
<1>3. L < FragmentIds /\ end \in (CutAt(b, L))..M
  BY Zenon
<1>4. c.cmdu = b.cmdu /\ c.cuts = Append(b.cuts, end) /\ (c.last <=> end = M)
  BY Zenon DEF IsCutAfter
<1> HIDE DEF L, M
<1>5. CutAt(b, L) \in 0..(M - 1) /\ end \in Nat /\ end \in 0..M /\ CutAt(b, L) <= end
  <2>1. CutAt(b, L) \in 0..M
    BY <1>1, <1>2
  <2> QED BY <1>1, <1>2, <1>3, <2>1
<1>7. Len(c.cuts) = L + 1 /\ c.cuts[L + 1] = end /\ \A k \in 1..L : c.cuts[k] = b.cuts[k]
  BY <1>1, <1>4, <1>5 DEF L
<1>8. CutAt(c, L + 1) = end /\ \A k \in 0..L : CutAt(c, k) = CutAt(b, k)
  BY <1>1, <1>7 DEF CutAt
<1>9. CutsInv(c)
  <2>1. Len(c.cuts) <= FragmentIds
    BY <1>1, <1>3, <1>7, SizesAssumption
  <2>2. ASSUME NEW k \in 0..(L + 1) PROVE CutAt(c, k) \in 0..M
    <3>1. k = L + 1 \/ k \in 0..L
      BY <1>1
    <3> QED BY <1>2, <1>5, <1>8, <3>1, Zenon
  <2>3. ASSUME NEW k \in 1..(L + 1)
        PROVE  CutAt(c, k - 1) <= CutAt(c, k) /\ CutAt(c, k - 1) < M
    <3>1. CASE k = L + 1
      <4>1. k - 1 = L /\ L \in 0..L
        BY <1>1, <3>1
      <4>2. CutAt(c, k - 1) = CutAt(b, L) /\ CutAt(c, k) = end
        BY <1>8, <3>1, <4>1, Zenon
      <4> QED BY <1>1, <1>5, <4>2
    <3>2. CASE k \in 1..L
      <4>1. k - 1 \in 0..L /\ k \in 0..L
        BY <1>1, <3>2
      <4>2. CutAt(c, k - 1) = CutAt(b, k - 1) /\ CutAt(c, k) = CutAt(b, k)
        BY <1>8, <4>1, Zenon
      <4> QED BY <1>2, <3>2, <4>2, Zenon
    <3>3. k = L + 1 \/ k \in 1..L
      BY <1>1
    <3> QED BY <3>1, <3>2, <3>3, Zenon
  <2>4. M = Len(c.cmdu) /\ CutAt(c, Len(c.cuts)) = end
    BY <1>4, <1>7, <1>8, Zenon DEF M
  <2>5. c.last <=> CutAt(c, Len(c.cuts)) = Len(c.cmdu)
    BY <1>4, <2>4, Zenon
  <2> QED BY <1>7, <2>1, <2>2, <2>3, <2>4, <2>5, Zenon DEF CutsInv
<1> QED BY <1>5, <1>7, <1>8, <1>9, Zenon DEF L, M

\* One iteration of the loop: the call grows by a fragment, which is in flight.
LEMMA SendFragmentFacts ==
  ASSUME IInv, NEW end, SendFragment(end)
  PROVE  \E g \in inflight' :
           LET N == Len(calls)
               b == calls[N] IN
           /\ N \in 1..N /\ Len(calls') = N /\ Grown
           /\ \A n \in 1..N : n # N => calls'[n] = calls[n]
           /\ (calls'[N].last <=> end = Len(b.cmdu))
           /\ Len(calls'[N].cuts) = Len(b.cuts) + 1
           /\ ~ b.last /\ sending.fragmentId = Len(b.cuts)
           /\ g.call = N /\ g.id = Len(b.cuts) /\ ~ g.copy
           /\ inflight' = inflight \cup {g}
           /\ IInv'
<1> DEFINE N == Len(calls)
           b == calls[N]
           L == Len(b.cuts)
           M == Len(b.cmdu)
           done == end = M \/ sending.fragmentId = FragmentIds - 1
           value == IF done THEN "true" ELSE "none"
           c == [b EXCEPT !.cuts = Append(@, end), !.last = (end = M), !.result = value]
<1> PICK g : g = Frame(N, b.cmdu, b.mid, sending.fragmentId, sending.next, end)
  BY Zenon
<1>1. calls \in Seq(Call) /\ calls # << >> /\ TypeOK /\ sending # Idle
  BY Zenon DEF IInv, TypeOK, SendingInv, SendFragment
<1>2. N \in 1..N /\ b \in Call /\ N \in Nat /\ N # 0
  <2>1. N \in Nat /\ N # 0
    BY <1>1, SeqLength, SeqEmpty, Zenon
  <2>2. N \in 1..N
    BY <2>1
  <2> QED BY <1>1, <2>1, <2>2, SeqElement, Zenon
<1>3. b.cmdu \in Cmdus /\ M \in Nat /\ M >= 1 /\ b.mid \in Nat /\ L \in Nat /\ b.due \in Nat
  BY <1>2, CallType, Zenon
<1>4. /\ ~ b.last /\ b.due = now + MaxDelay /\ L = sending.fragmentId
      /\ sending.next = CutAt(b, L) + 1
  BY <1>1, Zenon DEF IInv, SendingInv
<1>5. CutsInv(b)
  BY <1>2, Zenon DEF IInv
<1>6. sending.fragmentId \in 0..(FragmentIds - 1) /\ sending.next \in Nat
  BY <1>1, Zenon DEF TypeOK
<1>7. end \in (sending.next - 1)..M
  BY Zenon DEF SendFragment, IsEnd
<1>9. calls' = [calls EXCEPT ![N] = c]
  BY Zenon DEF SendFragment
<1>10. /\ inflight' = inflight \cup {g}
       /\ sending' = IF done THEN Idle
                     ELSE [next |-> end + 1, fragmentId |-> sending.fragmentId + 1]
  BY Zenon DEF SendFragment
<1>11. UNCHANGED <<now, de_duplication_map_, de_fragmentation_map_, published, message_id_,
                   ready_at, disturbed, faults>>
  BY Zenon DEF SendFragment, transportVars
<1>12. ~ IsPublished(N)
  BY <1>2, <1>4, Zenon DEF IInv, PublishedInv
<1>13. N = Len(calls) /\ b = calls[N] /\ L = Len(b.cuts) /\ M = Len(b.cmdu)
  BY Zenon
<1>14. value \in {"none", "true"}
  BY Zenon
<1> HIDE DEF N, b, L, M, value, c
<1>15. L < FragmentIds /\ end \in (CutAt(b, L))..M
  <2>1. L < FragmentIds
    BY <1>3, <1>4, <1>6, SizesAssumption
  <2>2. CutAt(b, L) \in Int
    BY <1>3, <1>5, <1>13 DEF CutsInv
  <2> QED BY <1>4, <1>7, <2>1, <2>2
<1>16. /\ c \in Call /\ c.cmdu = b.cmdu /\ c.mid = b.mid /\ c.due = b.due
       /\ (c.last <=> end = M) /\ Len(c.cuts) = L + 1 /\ CutAt(c, L + 1) = end
       /\ \A k \in 0..L : CutAt(c, k) = CutAt(b, k)
       /\ CutAt(b, L) \in 0..(M - 1)
       /\ CutsInv(c)
  <2>1. IsCutAfter(c, b, end)
    <3> DEFINE cuts == Append(b.cuts, end)
               final == end = M
    <3>1. cuts \in Seq(Nat)
      <4>1. b.cuts \in Seq(Nat) /\ end \in Nat
        <5>1. CutAt(b, L) \in Nat
          BY <1>3, <1>5, <1>13, SMTT(30) DEF CutsInv
        <5> QED BY <1>2, <1>3, <1>15, <5>1, CallType
      <4> QED BY <4>1
    <3>2. final \in BOOLEAN /\ (final <=> end = M)
      BY Zenon
    <3>3. c = [b EXCEPT !.cuts = cuts, !.last = final, !.result = value]
      BY Zenon DEF c
    <3>4. cuts = Append(b.cuts, end)
      BY Zenon
    <3> HIDE DEF cuts, final
    <3>5. c \in Call
      BY <1>2, <1>14, <3>1, <3>2, <3>3, Zenon DEF Call
    <3>6. c.cmdu = b.cmdu /\ c.mid = b.mid /\ c.due = b.due /\ c.cuts = cuts /\ c.last = final
      BY <1>2, <3>3, Zenon DEF Call
    <3>7. c.last <=> end = Len(b.cmdu)
      BY <1>13, <3>2, <3>6, Zenon
    <3> QED BY <3>4, <3>5, <3>6, <3>7, Zenon DEF IsCutAfter
  <2>2. /\ b \in Call /\ CutsInv(b) /\ ~ b.last /\ Len(b.cuts) < FragmentIds
        /\ end \in (CutAt(b, Len(b.cuts)))..Len(b.cmdu)
    BY <1>2, <1>4, <1>5, <1>13, <1>15, Zenon
  <2>3. /\ Len(c.cuts) = Len(b.cuts) + 1 /\ CutAt(c, Len(b.cuts) + 1) = end
        /\ \A k \in 0..Len(b.cuts) : CutAt(c, k) = CutAt(b, k)
        /\ CutAt(b, Len(b.cuts)) \in 0..(Len(b.cmdu) - 1)
        /\ CutsInv(c)
    BY <2>1, <2>2, CutAdded, Zenon
  <2> QED BY <1>13, <2>1, <2>3, Zenon DEF IsCutAfter
<1>17. /\ calls' \in Seq(Call) /\ Len(calls') = N /\ calls'[N] = c
       /\ \A n \in 1..N : n # N => calls'[n] = calls[n]
  BY <1>1, <1>9, <1>13, <1>16, LastReplaced
<1>18. /\ Grown
       /\ \A n \in 1..Len(calls') : CutsInv(calls[n])'
       /\ EpochInv'
  <2>1. L <= Len(c.cuts) /\ ~ b.last
    BY <1>3, <1>4, <1>16
  <2>2. UNCHANGED <<now, ready_at, message_id_>>
    BY <1>11, Zenon
  <2> QED BY <1>2, <1>13, <1>16, <1>17, <2>1, <2>2, LastCallGrown, Zenon
<1>19. sending.next \in 1..M /\ end \in Nat
  BY <1>3, <1>4, <1>15, <1>16
<1>20. /\ g \in FrameInFlight /\ g.call = N /\ g.mid = b.mid /\ g.id = L
       /\ (g.last <=> end = M) /\ g.body = Tlvs(N, CutAt(b, L) + 1, end)
       /\ g.pad \in {<< >>, << Pad >>} /\ g.length <= g.size /\ g.copy = FALSE
  <2> DEFINE cmdu == b.cmdu
             mid == b.mid
             id == sending.fragmentId
             first == sending.next
  <2>1. /\ N \in Nat /\ cmdu \in Cmdus /\ mid \in Nat /\ id \in 0..(FragmentIds - 1)
        /\ first \in 1..Len(cmdu) /\ end \in (first - 1)..Len(cmdu)
        /\ g = Frame(N, cmdu, mid, id, first, end)
    BY <1>2, <1>3, <1>6, <1>7, <1>13, <1>19, Zenon
  <2>2. id = L /\ first = CutAt(b, L) + 1 /\ Len(cmdu) = M /\ mid = b.mid
    BY <1>4, <1>13, Zenon
  <2> HIDE DEF cmdu, mid, id, first
  <2>3. IsFrame(g, N, cmdu, mid, id, first, end)
    BY <2>1, FrameType, Zenon
  <2> QED BY <2>2, <2>3, Zenon DEF IsFrame
<1>21. FrameInv(g)'
  <2>1. L < L + 1 /\ L \in 0..L
    BY <1>3
  <2>2. now <= b.due
    BY <1>1, <1>4, SizesAssumption, SMTT(30) DEF TypeOK
  <2>3. g.call \in 1..Len(calls') /\ calls'[g.call] = c
    BY <1>2, <1>17, <1>20, Zenon
  <2>4. now' <= c.due /\ g.mid = c.mid /\ g.id < Len(c.cuts)
    BY <1>11, <1>16, <1>20, <2>1, <2>2, Zenon
  <2>5. CutAt(c, g.id) = CutAt(b, L) /\ CutAt(c, g.id + 1) = end /\ M = Len(c.cmdu)
    BY <1>13, <1>16, <1>20, <2>1, Zenon
  <2>6. g.body = Tlvs(g.call, CutAt(c, g.id) + 1, CutAt(c, g.id + 1))
    BY <1>20, <2>5, Zenon
  <2>7. g.last <=> CutAt(c, g.id + 1) = Len(c.cmdu)
    BY <1>20, <2>5, Zenon
  <2> QED BY <1>20, <2>3, <2>4, <2>6, <2>7, Zenon DEF FrameInv
<1>22. SendingInv' /\ sending' \in [next : Nat, fragmentId : 0..(FragmentIds - 1)]
  <2>1. CASE done
    BY <1>10, <2>1, SizesAssumption DEF SendingInv, Idle
  <2>2. CASE ~ done
    <3>1. end # M /\ L # FragmentIds - 1
      BY <1>4, <2>2, Zenon
    <3>2. sending' = [next |-> end + 1, fragmentId |-> L + 1]
      BY <1>4, <1>10, <2>2, Zenon
    <3>3. L + 1 \in 0..(FragmentIds - 1) /\ end + 1 \in Nat
      BY <1>3, <1>15, <1>19, <3>1, SizesAssumption
    <3>4. calls' # << >>
      BY <1>2, <1>17, SeqEmpty, Zenon
    <3>5. ~ c.last /\ c.due = now' + MaxDelay /\ calls'[Len(calls')] = c
      BY <1>4, <1>11, <1>16, <1>17, <3>1, Zenon
    <3> QED BY <1>16, <3>2, <3>3, <3>4, <3>5, Zenon DEF SendingInv
  <2> QED BY <2>1, <2>2, Zenon
<1>23. TypeOK'
  <2>1. inflight' \subseteq FrameInFlight
    BY <1>1, <1>10, <1>20, Zenon DEF TypeOK
  <2>2. disturbed' \subseteq 0..Len(calls')
    BY <1>1, <1>11, <1>13, <1>17, Zenon DEF TypeOK
  <2> QED BY <1>1, <1>11, <1>17, <1>22, <2>1, <2>2, Zenon DEF TypeOK
<1>24. \A f \in inflight' : \/ f \in inflight
                            \/ FrameInv(f)' /\ ~ (f.call \in 1..Len(calls) /\ IsPublished(f.call))
  <2> TAKE f \in inflight'
  <2>1. CASE f = g
    BY <1>12, <1>20, <1>21, <2>1, Zenon
  <2> QED BY <1>10, <2>1, Zenon
<1>25. IInv'
  <2>1. UNCHANGED <<now, de_duplication_map_, de_fragmentation_map_, published>>
    BY <1>11, Zenon
  <2> QED BY <1>18, <1>22, <1>23, <1>24, <2>1, SenderStep, Zenon
<1>26. g \in inflight' /\ ~ g.copy
  BY <1>10, <1>20, Zenon
<1>27. /\ N \in 1..N /\ Len(calls') = N /\ Grown
       /\ \A n \in 1..N : n # N => calls'[n] = calls[n]
       /\ (calls'[N].last <=> end = Len(b.cmdu))
       /\ Len(calls'[N].cuts) = Len(b.cuts) + 1
       /\ ~ b.last /\ sending.fragmentId = Len(b.cuts)
       /\ g.call = N /\ g.id = Len(b.cuts) /\ ~ g.copy
       /\ inflight' = inflight \cup {g}
       /\ IInv'
  BY <1>2, <1>4, <1>10, <1>13, <1>16, <1>17, <1>18, <1>20, <1>25, <1>26, Zenon
<1> QED BY <1>26, <1>27, Zenon DEF N, b

\* A CMDU from the local bus: the new call is whole and in flight, or the loop begins.
LEMMA CmduTxFacts ==
  ASSUME IInv, NEW cmdu \in Cmdus, CmduTx(cmdu)
  PROVE  \E N, c :
           /\ N = Len(calls) + 1 /\ Len(calls') = N /\ N \in 1..N /\ Grown
           /\ calls'[N] = c /\ c.due = now + MaxDelay
           /\ \A n \in 1..Len(calls) : calls'[n] = calls[n]
           /\ \/ /\ c.last /\ Len(c.cuts) = 1
                 /\ \E g \in inflight' : /\ g.call = N /\ g.id = 0 /\ ~ g.copy
                                         /\ inflight' = inflight \cup {g}
              \/ ~ c.last /\ Len(c.cuts) = 0 /\ inflight' = inflight
           /\ IInv'
<1> DEFINE N == Len(calls) + 1
           mid == (message_id_ + 1) % MessageIds
           M == Len(cmdu)
           whole == Size(cmdu, 1, M) <= Threshold
           cuts == IF whole THEN << M >> ELSE << >>
           result == IF whole THEN "true" ELSE "none"
           c == [cmdu |-> cmdu, mid |-> mid, due |-> now + MaxDelay, cuts |-> cuts,
                 last |-> whole, result |-> result]
           frame == Frame(N, cmdu, mid, 0, 1, M)
<1>1. /\ TypeOK /\ calls \in Seq(Call) /\ now \in Nat /\ Len(calls) \in Nat
      /\ message_id_ \in Nat /\ ready_at \in Nat
      /\ \A n \in 1..Len(calls) : calls[n] \in Call
  BY CallsType, Zenon DEF IInv, TypeOK
<1>2. sending = Idle /\ now >= ready_at /\ N <= MaxCalls /\ message_id_' = mid
  BY Zenon DEF CmduTx
<1>3. calls' = Append(calls, c)
  BY Zenon DEF CmduTx
<1>4. \/ whole /\ inflight' = inflight \cup {frame} /\ sending' = sending
      \/ ~ whole /\ sending' = [next |-> 1, fragmentId |-> 0] /\ inflight' = inflight
  BY Zenon DEF CmduTx
<1>5. UNCHANGED <<now, de_duplication_map_, de_fragmentation_map_, published, ready_at,
                  disturbed, faults>>
  BY Zenon DEF CmduTx, transportVars
<1>6. /\ cmdu \in Cmdus /\ M \in Nat /\ M >= 1
      /\ cuts = IF whole THEN << M >> ELSE << >>
      /\ result \in {"none", "true", "false"} /\ whole \in BOOLEAN
  <2>1. M \in Nat /\ M >= 1
    BY CmduAssumption, SeqLength, SeqEmpty
  <2> HIDE DEF M
  <2> QED BY <2>1
<1>0. N = Len(calls) + 1 /\ M = Len(cmdu)
  BY Zenon
<1> HIDE DEF N, M, whole, cuts, result
<1>7. mid = message_id_ + 1
  <2>1. message_id_ <= Len(calls)
    BY SMTT(30) DEF IInv, EpochInv
  <2>2. message_id_ + 1 \in Nat /\ message_id_ + 1 < MessageIds
    BY <1>0, <1>1, <1>2, <2>1, MidsAssumption
  <2> QED BY <2>2, MidsAssumption
<1>9. mid \in Nat /\ now + MaxDelay \in Nat
  <2> HIDE DEF mid
  <2> QED BY <1>1, <1>7, SizesAssumption
<1> HIDE DEF mid
<1>8. PICK g : g = frame
  BY Zenon
<1>10. /\ c \in Call /\ c.cmdu = cmdu /\ c.mid = mid /\ c.due = now + MaxDelay /\ c.last = whole
       /\ c.cuts = cuts
  <2>1. << M >> \in Seq(Nat) /\ << >> \in Seq(Nat)
    BY <1>6
  <2>2. cuts \in Seq(Nat)
    BY <1>6, <2>1, Zenon
  <2>3. c \in Call
    BY <1>6, <1>9, <2>2, Zenon DEF Call
  <2> QED BY <2>3, Zenon
<1> HIDE DEF c, frame
<1>11. \/ whole /\ Len(c.cuts) = 1 /\ CutAt(c, 1) = M
       \/ ~ whole /\ Len(c.cuts) = 0
  BY <1>6, <1>10 DEF CutAt
<1>12. CutsInv(c)
  <2>0. M = Len(c.cmdu) /\ CutAt(c, 0) = 0 /\ FragmentIds \in Nat /\ FragmentIds >= 1
    BY <1>0, <1>10, SizesAssumption DEF CutAt
  <2>1. CASE whole
    <3>1. Len(c.cuts) = 1 /\ CutAt(c, 1) = M /\ c.last
      BY <1>10, <1>11, <2>1, Zenon
    <3>2. \A k \in 0..1 : CutAt(c, k) \in 0..M
      <4> TAKE k \in 0..1
      <4>1. k = 0 \/ k = 1
        OBVIOUS
      <4> QED BY <1>6, <2>0, <3>1, <4>1
    <3>3. \A k \in 1..1 : CutAt(c, k - 1) <= CutAt(c, k) /\ CutAt(c, k - 1) < M
      <4> TAKE k \in 1..1
      <4>1. k = 1 /\ k - 1 = 0
        OBVIOUS
      <4> QED BY <1>6, <2>0, <3>1, <4>1
    <3> QED BY <2>0, <3>1, <3>2, <3>3, Zenon DEF CutsInv
  <2>2. CASE ~ whole
    <3>1. Len(c.cuts) = 0 /\ ~ c.last
      BY <1>10, <1>11, <2>2, Zenon
    <3>2. \A k \in 0..0 : CutAt(c, k) \in 0..M
      <4> TAKE k \in 0..0
      <4>1. k = 0
        OBVIOUS
      <4> QED BY <1>6, <2>0, <4>1
    <3>3. 1..0 = {} /\ M # 0 /\ 0 <= FragmentIds
      BY <1>6, <2>0
    <3> QED BY <2>0, <3>1, <3>2, <3>3, Zenon DEF CutsInv
  <2> QED BY <1>6, <2>1, <2>2, Zenon
<1>13. /\ calls' \in Seq(Call) /\ Len(calls') = N /\ calls'[N] = c /\ N \in 1..N
       /\ \A n \in 1..Len(calls) : calls'[n] = calls[n]
  BY <1>0, <1>1, <1>3, <1>10
<1>14. Grown
  <2>1. \A n \in 1..Len(calls) : Len(calls[n].cuts) <= Len(calls[n].cuts)
    BY <1>1, CallType
  <2>2. Len(calls) <= Len(calls')
    BY <1>0, <1>1, <1>13
  <2> QED BY <1>13, <2>1, <2>2, Zenon DEF Grown
<1>15. \A n \in 1..Len(calls') : CutsInv(calls[n])'
  <2> SUFFICES ASSUME NEW n \in 1..N PROVE CutsInv(calls'[n])
    BY <1>13, Zenon DEF CutsInv, CutAt
  <2>1. n = N \/ n \in 1..Len(calls)
    BY <1>0, <1>1
  <2>2. \A m \in 1..Len(calls) : CutsInv(calls[m])
    BY Zenon DEF IInv
  <2> QED BY <1>12, <1>13, <2>1, <2>2, Zenon
<1>16. EpochInv'
  <2> DEFINE base == Len(calls) - message_id_
  <2>1. EpochInv
    BY Zenon DEF IInv
  <2>2. base \in Nat /\ base = N - message_id_' /\ message_id_' \in 0..N /\ message_id_' = message_id_ + 1
    BY <1>0, <1>1, <1>2, <1>7, <2>1 DEF EpochInv
  <2>3. \A n \in 1..Len(calls) :
          /\ calls[n].due <= now + MaxDelay
          /\ calls[n].mid \in 1..MaxCalls
          /\ IF n > base
             THEN calls[n].mid = n - base
             ELSE calls[n].due + RestartTime <= ready_at + MaxDelay
    BY <2>1, Zenon DEF EpochInv
  <2>4. \A n \in 1..Len(calls), m \in 1..Len(calls) :
          n < m /\ calls[n].mid = calls[m].mid => calls[n].due + RestartTime <= calls[m].due
    BY <2>1, Zenon DEF EpochInv
  <2>5. /\ c.due <= now + MaxDelay /\ c.mid \in 1..MaxCalls /\ N > base /\ c.mid = N - base
    <3>1. c.mid = message_id_ + 1 /\ c.due = now + MaxDelay /\ message_id_ <= Len(calls)
      BY <1>7, <1>10, <2>1 DEF EpochInv
    <3> QED BY <1>0, <1>1, <1>2, <1>9, <2>2, <3>1, MidsAssumption
  <2>6. ASSUME NEW n \in 1..Len(calls), calls[n].mid = c.mid
        PROVE  calls[n].due + RestartTime <= c.due
    <3>1. calls[n].due \in Nat /\ RestartTime \in Nat /\ MaxDelay \in Nat
      BY <1>1, CallType, SizesAssumption, Zenon
    <3>2. n <= base
      <4> HIDE DEF base
      <4>1. ASSUME n > base PROVE FALSE
        <5>1. calls[n].mid = n - base
          BY <2>3, <4>1, Zenon
        <5> QED BY <1>0, <1>1, <2>2, <2>5, <2>6, <5>1
      <4> QED BY <2>2, <4>1
    <3>3. calls[n].due + RestartTime <= ready_at + MaxDelay
      <4> HIDE DEF base
      <4> QED BY <1>1, <2>2, <2>3, <3>2
    <3> QED BY <1>1, <1>2, <1>10, <3>1, <3>3
  <2>7. ready_at <= now + RestartTime
    BY <1>1, <1>2, SizesAssumption
  <2> HIDE DEF base
  <2>8. ASSUME NEW n \in 1..N
        PROVE  /\ calls'[n].due <= now + MaxDelay
               /\ calls'[n].mid \in 1..MaxCalls
               /\ IF n > base
                  THEN calls'[n].mid = n - base
                  ELSE calls'[n].due + RestartTime <= ready_at + MaxDelay
    <3>1. n = N \/ n \in 1..Len(calls)
      BY <1>0, <1>1
    <3>2. CASE n = N
      BY <1>13, <2>5, <3>2, Zenon
    <3>3. CASE n \in 1..Len(calls)
      BY <1>13, <2>3, <3>3, Zenon
    <3> QED BY <3>1, <3>2, <3>3, Zenon
  <2>9. ASSUME NEW n \in 1..N, NEW m \in 1..N, n < m, calls'[n].mid = calls'[m].mid
        PROVE  calls'[n].due + RestartTime <= calls'[m].due
    <3>1. n \in 1..Len(calls) /\ (m = N \/ m \in 1..Len(calls))
      BY <1>0, <1>1, <2>9
    <3> QED BY <1>13, <2>4, <2>6, <2>9, <3>1, Zenon
  <2> QED BY <1>2, <1>5, <1>13, <2>2, <2>7, <2>8, <2>9, Zenon DEF EpochInv
<1>17. IsFrame(g, N, cmdu, mid, 0, 1, M)
  <2> DEFINE id == 0
             first == 1
  <2>1. /\ N \in Nat /\ id \in 0..(FragmentIds - 1) /\ first \in 1..Len(cmdu)
        /\ M \in (first - 1)..Len(cmdu) /\ g = Frame(N, cmdu, mid, id, first, M)
    BY <1>0, <1>1, <1>6, <1>8, SizesAssumption DEF frame
  <2> HIDE DEF id, first
  <2>2. IsFrame(g, N, cmdu, mid, id, first, M)
    BY <1>6, <1>9, <2>1, FrameType, Zenon
  <2> QED BY <2>2, Zenon DEF id, first
<1>18. /\ g \in FrameInFlight /\ g.call = N /\ g.mid = mid /\ g.id = 0 /\ g.last
       /\ g.body = Tlvs(N, 1, M) /\ g.pad \in {<< >>, << Pad >>} /\ g.length <= g.size
       /\ g.copy = FALSE
  BY <1>0, <1>17, Zenon DEF IsFrame
<1>19. ASSUME whole PROVE FrameInv(g)'
  <2>1. g.call \in 1..Len(calls') /\ calls'[g.call] = c
    BY <1>13, <1>18, Zenon
  <2>2. now' <= c.due
    BY <1>1, <1>5, <1>10, SizesAssumption
  <2>3. Len(c.cuts) = 1 /\ CutAt(c, 1) = M /\ M = Len(c.cmdu) /\ CutAt(c, 0) = 0
    BY <1>0, <1>10, <1>11, <1>19, Zenon DEF CutAt
  <2>4. /\ g.id < Len(c.cuts)
        /\ g.body = Tlvs(g.call, CutAt(c, g.id) + 1, CutAt(c, g.id + 1))
        /\ CutAt(c, g.id + 1) = Len(c.cmdu)
    BY <1>18, <2>3
  <2> QED BY <1>10, <1>18, <2>1, <2>2, <2>4, Zenon DEF FrameInv
<1>20. SendingInv' /\ sending' \in [next : Nat, fragmentId : 0..(FragmentIds - 1)]
  <2>1. CASE whole
    BY <1>2, <1>4, <2>1, SizesAssumption DEF SendingInv, Idle
  <2>2. CASE ~ whole
    <3>1. sending' = [next |-> 1, fragmentId |-> 0]
      BY <1>4, <2>2, Zenon
    <3>2. Len(c.cuts) = 0 /\ ~ c.last /\ CutAt(c, 0) = 0
      BY <1>10, <1>11, <2>2, Zenon DEF CutAt
    <3>3. calls' # << >> /\ calls'[Len(calls')] = c
      BY <1>0, <1>1, <1>13, SeqEmpty
    <3>4. c.due = now' + MaxDelay
      BY <1>5, <1>10, Zenon
    <3>5. 0 \in 0..(FragmentIds - 1)
      BY SizesAssumption
    <3> QED BY <3>1, <3>2, <3>3, <3>4, <3>5 DEF SendingInv
  <2> QED BY <1>6, <2>1, <2>2, Zenon
<1>21. TypeOK'
  <2>1. inflight' \subseteq FrameInFlight
    BY <1>1, <1>4, <1>8, <1>18, Zenon DEF TypeOK
  <2>2. disturbed' \subseteq 0..Len(calls')
    <3>1. disturbed \subseteq 0..Len(calls)
      BY <1>1, Zenon DEF TypeOK
    <3>2. 0..Len(calls) \subseteq 0..Len(calls')
      BY <1>0, <1>1, <1>13
    <3> QED BY <1>5, <3>1, <3>2, Zenon
  <2>3. message_id_' \in Nat /\ message_id_' < MessageIds
    <3>1. message_id_ <= Len(calls)
      BY SMTT(30) DEF IInv, EpochInv
    <3> QED BY <1>0, <1>1, <1>2, <1>7, <3>1, MidsAssumption
  <2> QED BY <1>1, <1>5, <1>13, <1>20, <2>1, <2>2, <2>3, Zenon DEF TypeOK
<1>22. \A f \in inflight' : \/ f \in inflight
                            \/ FrameInv(f)' /\ ~ (f.call \in 1..Len(calls) /\ IsPublished(f.call))
  <2> TAKE f \in inflight'
  <2>1. f \in inflight \/ (whole /\ f = g)
    BY <1>4, <1>8, Zenon
  <2>2. N \notin 1..Len(calls)
    BY <1>0, <1>1
  <2> QED BY <1>18, <1>19, <2>1, <2>2, Zenon
<1>23. IInv'
  <2>1. UNCHANGED <<now, de_duplication_map_, de_fragmentation_map_, published>>
    BY <1>5, Zenon
  <2> QED BY <1>14, <1>15, <1>16, <1>20, <1>21, <1>22, <2>1, SenderStep, Zenon
<1>24. \/ /\ c.last /\ Len(c.cuts) = 1
          /\ g \in inflight' /\ g.call = N /\ g.id = 0 /\ ~ g.copy /\ inflight' = inflight \cup {g}
       \/ ~ c.last /\ Len(c.cuts) = 0 /\ inflight' = inflight
  BY <1>4, <1>6, <1>8, <1>10, <1>11, <1>18, Zenon
<1> QED BY <1>0, <1>10, <1>13, <1>14, <1>23, <1>24, Zenon

-----------------------------------------------------------------------------
(* The invariant *)

\* The facts hold when the transport starts.
LEMMA Start ==
  ASSUME FiniteSetLaws, Init
  PROVE  IInv
<1>1. /\ now = 0 /\ de_duplication_map_ = [d \in Devices |-> EmptyMap] /\ message_id_ = 0
      /\ ready_at = 0 /\ sending = Idle /\ de_fragmentation_map_ = EmptyMap /\ inflight = {}
      /\ calls = << >> /\ published = << >> /\ disturbed = {} /\ faults = 0
  BY Zenon DEF Init, TransportInit
<1>2. Len(calls) = 0 /\ 1..Len(calls) = {} /\ Len(published) = 0 /\ 1..Len(published) = {}
  BY <1>1
<1>3. DOMAIN de_fragmentation_map_ = {} /\ DOMAIN de_duplication_map_[rx] = {}
  BY <1>1, MidsAssumption, Zenon DEF EmptyMap
<1>4. IsFiniteSet(DOMAIN de_fragmentation_map_) /\ Cardinality(DOMAIN de_fragmentation_map_) = 0
  BY <1>3, Zenon DEF FiniteSetLaws
<1>5. TypeOK
  <2>1. sending \in [next : Nat, fragmentId : 0..(FragmentIds - 1)]
    BY <1>1, SizesAssumption DEF Idle
  <2>2. calls \in Seq(Call) /\ published \in Seq(Seq(Tlv))
    BY <1>1
  <2>3. 0 <= MaxDeFragThreads /\ 0 \in 0..MaxFaults /\ 0 < MessageIds
    BY SizesAssumption, MidsAssumption
  <2> QED BY <1>1, <1>3, <1>4, <2>1, <2>2, <2>3, Zenon DEF TypeOK
<1>6. EpochInv
  <2>1. 0 \in 0..0 /\ 0 <= MaxCalls /\ 0 <= 0 + RestartTime /\ ~ (0 > 0)
    BY SizesAssumption, MidsAssumption
  <2> QED BY <1>1, <1>2, <2>1, Zenon DEF EpochInv
<1>7. SendingInv /\ KeysInv(de_duplication_map_[rx]) /\ PublishedInv
  BY <1>1, <1>2, <1>3, Zenon DEF SendingInv, KeysInv, PublishedInv
<1>8. DOMAIN de_duplication_map_ = Devices
  BY <1>1, Zenon
<1> QED BY <1>1, <1>2, <1>3, <1>4, <1>5, <1>6, <1>7, <1>8, Zenon DEF IInv

\* The facts are kept by every step.
LEMMA Step ==
  ASSUME FiniteSetLaws, IInv, [Next]_vars
  PROVE  IInv'
<1>1. ASSUME NEW cmdu \in Cmdus, CmduTx(cmdu) PROVE IInv'
  BY <1>1, CmduTxFacts, Zenon
<1>2. ASSUME NEW end, SendFragment(end) PROVE IInv'
  BY <1>2, SendFragmentFacts, Zenon
<1>3. ASSUME NEW end, RefuseTlv(end) PROVE IInv'
  BY <1>3, RefuseTlvStep, Zenon
<1>4. CASE WriteFails
  BY <1>4, WriteFailsStep, Zenon
<1>5. CASE Restart
  BY <1>5, RestartStep, Zenon
<1>6. ASSUME NEW f \in inflight, Receive(f) PROVE IInv'
  BY <1>6, ReceiveStep, Zenon
<1>7. ASSUME NEW f \in inflight, Lose(f) \/ DuplicateFrame(f) PROVE IInv'
  BY <1>7, NetworkStep, Zenon
<1>8. CASE Tick
  BY <1>8, TickStep, Zenon
<1>9. CASE UNCHANGED vars
  <2>1. /\ UNCHANGED <<now, de_duplication_map_, message_id_, ready_at, sending, inflight, calls>>
        /\ UNCHANGED <<de_fragmentation_map_, published, disturbed, faults>>
    BY <1>9, Zenon DEF vars, transportVars, fragVars
  <2>2. TypeOK'
    BY <2>1, Zenon DEF IInv, TypeOK
  <2>3. EpochInv' /\ SendingInv'
    BY <2>1, Zenon DEF IInv, EpochInv, SendingInv, CutAt
  <2>4. \A n \in 1..Len(calls') : CutsInv(calls[n])'
    BY <2>1, Zenon DEF IInv, CutsInv, CutAt
  <2>5. Grown
    <3>1. calls \in Seq(Call) /\ Len(calls) <= Len(calls)
      BY SeqLength DEF IInv, TypeOK
    <3>2. \A n \in 1..Len(calls) : Len(calls[n].cuts) <= Len(calls[n].cuts)
      BY CallsType, CallType DEF IInv
    <3> QED BY <2>1, <3>1, <3>2, Zenon DEF Grown
  <2>6. \A f \in inflight' : f \in inflight
    BY <2>1, Zenon
  <2> QED BY <2>1, <2>2, <2>3, <2>4, <2>5, <2>6, SenderStep, Zenon
<1> QED BY <1>1, <1>2, <1>3, <1>4, <1>5, <1>6, <1>7, <1>8, <1>9, Zenon DEF Next

-----------------------------------------------------------------------------
(* The order in which the fragments of a call arrive *)

\* A call of which a fragment is still to be sent or to arrive is not overdue.
LEMMA ArrivedIsLive ==
  ASSUME IInv, NEW n \in 1..Len(calls), Whole(n), NEW j \in 0..Len(calls[n].cuts), Arrived(n, j)
  PROVE  now <= calls[n].due
<1>1. now \in Nat /\ MaxDelay \in Nat /\ Len(calls[n].cuts) \in Nat
  BY CallsType, CallType, SizesAssumption, Zenon DEF IInv, TypeOK
<1>2. CASE calls[n].last
  <2>1. j \in j..(Len(calls[n].cuts) - 1)
    BY <1>1, <1>2 DEF Arrived
  <2>2. PICK f \in inflight : f.call = n
    BY <2>1, Zenon DEF Arrived
  <2> QED BY <2>2, FrameFacts, Zenon
<1>3. CASE n = Len(calls) /\ sending # Idle
  <2>1. calls[n].due = now + MaxDelay
    BY <1>3, Zenon DEF IInv, SendingInv
  <2> QED BY <1>1, <2>1
<1> QED BY <1>2, <1>3, Zenon DEF Whole

\* What has arrived of a call stays so when tx goes on with another, and when it goes on
\* with this one.
LEMMA ArrivedKept ==
  ASSUME IInv, NEW n \in 1..Len(calls), NEW j \in 0..Len(calls[n].cuts), Arrived(n, j),
         calls'[n].mid = calls[n].mid, calls'[n].due = calls[n].due,
         UNCHANGED <<de_duplication_map_, de_fragmentation_map_>>,
         calls'[n].last => j < Len(calls'[n].cuts),
         \A id \in j..(Len(calls'[n].cuts) - 1) :
           \E f \in inflight' : f.call = n /\ f.id = id /\ ~ f.copy
  PROVE  Arrived(n, j)'
<1>1. \A id \in 0..(FragmentIds - 1) : IF id < j THEN Knows(n, id)' ELSE NotKnown(n, id)'
  BY Zenon DEF Arrived, Knows, NotKnown, StoredKey
<1>2. HasCollected(n, j)'
  BY Zenon DEF Arrived, HasCollected
<1> QED BY <1>1, <1>2, Zenon DEF Arrived

\* A call that has neither gone on nor lost a frame.
LEMMA OldCallKept ==
  ASSUME IInv, NEW n \in 1..Len(calls), NEW j \in 0..Len(calls[n].cuts), Arrived(n, j),
         calls'[n].mid = calls[n].mid, calls'[n].due = calls[n].due,
         calls'[n].cuts = calls[n].cuts, calls'[n].last = calls[n].last,
         UNCHANGED <<de_duplication_map_, de_fragmentation_map_>>,
         \A f \in inflight : f.call = n => f \in inflight'
  PROVE  j \in 0..Len(calls'[n].cuts) /\ Arrived(n, j)'
<1>1. /\ calls'[n].last => j < Len(calls'[n].cuts)
      /\ \A id \in j..(Len(calls'[n].cuts) - 1) :
           \E f \in inflight' : f.call = n /\ f.id = id /\ ~ f.copy
  BY Zenon DEF Arrived
<1> QED BY <1>1, ArrivedKept, Zenon

\* For rx the first fragment of a call is new: keys and entries of a call with the same
\* messageId are too old.
LEMMA NothingArrived ==
  ASSUME IInv, Grown, EpochInv', NEW N, N = Len(calls) + 1, Len(calls') = N,
         UNCHANGED <<de_duplication_map_, de_fragmentation_map_>>
  PROVE  /\ \A id \in 0..(FragmentIds - 1) : NotKnown(N, id)'
         /\ HasCollected(N, 0)'
<1>1. /\ Len(calls) \in Nat /\ N \in 1..N /\ N \in Nat /\ calls'[N].due \in Nat
      /\ MaxDelay \in Nat /\ MaxDeDupAge \in Nat /\ MaxDeFragAge \in Nat /\ RestartTime \in Nat
      /\ \A n \in 1..Len(calls) : calls[n] \in Call /\ calls[n].due \in Nat /\ n < N /\ n \in 1..N
  <2>1. Len(calls) \in Nat /\ \A n \in 1..Len(calls) : calls[n] \in Call /\ calls[n].due \in Nat
    BY CallsType, CallType, Zenon DEF IInv
  <2>2. N \in 1..N /\ N \in Nat /\ \A n \in 1..Len(calls) : n < N /\ n \in 1..N
    BY <2>1
  <2>3. calls'[N] \in Call
    BY <2>2, SeqElement, Zenon DEF Grown
  <2> QED BY <2>1, <2>2, <2>3, CallType, SizesAssumption, AgeAssumption, Zenon
<1>2. ASSUME NEW m \in 1..Len(calls), calls[m].mid = calls'[N].mid
      PROVE  calls[m].due + RestartTime <= calls'[N].due
  <2>1. calls'[m].mid = calls[m].mid /\ calls'[m].due = calls[m].due
    BY Zenon DEF Grown
  <2>2. m \in 1..Len(calls') /\ N \in 1..Len(calls') /\ m < N
    BY <1>1, Zenon
  <2>3. \A n \in 1..Len(calls'), k \in 1..Len(calls') :
          n < k /\ calls'[n].mid = calls'[k].mid => calls'[n].due + RestartTime <= calls'[k].due
    BY Zenon DEF EpochInv
  <2> QED BY <1>2, <2>1, <2>2, <2>3, Zenon
<1>3. ASSUME NEW id, StoredKey(calls'[N].mid, id) \in DOMAIN de_duplication_map_[rx]
      PROVE  de_duplication_map_[rx][StoredKey(calls'[N].mid, id)] + MaxDeDupAge + MaxDelay
               < calls'[N].due
  <2> DEFINE k == StoredKey(calls'[N].mid, id)
             time == de_duplication_map_[rx][k]
  <2>1. time \in Nat
    BY <1>3, Zenon DEF IInv, KeysInv
  <2>2. PICK m \in 1..Len(calls), i \in 0..(FragmentIds - 1) :
          k = StoredKey(calls[m].mid, i) /\ time <= calls[m].due
    BY <1>3, Zenon DEF IInv, KeysInv
  <2>3. calls[m].mid = calls'[N].mid
    BY <2>2, StoredKeyInjective
  <2>4. calls[m].due + RestartTime <= calls'[N].due
    BY <1>2, <2>3, Zenon
  <2> HIDE DEF time, k
  <2>5. time + MaxDeDupAge + MaxDelay < calls'[N].due
    BY <1>1, <2>1, <2>2, <2>4, DeFragAgeAssumption
  <2> QED BY <2>5, Zenon DEF time, k
<1>4. \A id \in 0..(FragmentIds - 1) : NotKnown(N, id)'
  BY <1>3, Zenon DEF NotKnown, StoredKey
<1>5. ASSUME calls'[N].mid \in DOMAIN de_fragmentation_map_
      PROVE  de_fragmentation_map_[calls'[N].mid].time + MaxDeFragAge + MaxDelay < calls'[N].due
  <2> DEFINE e == de_fragmentation_map_[calls'[N].mid]
  <2>1. e.time \in Nat
    BY <1>5, Zenon DEF IInv, TypeOK, DeFragmentationValue
  <2>2. PICK m \in 1..Len(calls) : calls[m].mid = calls'[N].mid /\ e.time <= calls[m].due
    BY <1>5, Zenon DEF IInv, EntryInv
  <2>3. calls[m].due + RestartTime <= calls'[N].due
    BY <1>2, <2>2, Zenon
  <2> HIDE DEF e
  <2>4. e.time + MaxDeFragAge + MaxDelay < calls'[N].due
    BY <1>1, <2>1, <2>2, <2>3, DeFragAgeAssumption, SMTT(30)
  <2> QED BY <2>4, Zenon DEF e
<1>6. HasCollected(N, 0)'
  BY <1>5, Zenon DEF HasCollected
<1> QED BY <1>4, <1>6, Zenon

\* The claim of OrderInv for one call.
InOrder(n) ==
  n \notin disturbed /\ ~ IsPublished(n) /\ Whole(n) =>
    \E j \in 0..Len(calls[n].cuts) : Arrived(n, j)

\* A call that a step of tx or of the network leaves alone.
LEMMA LeftAlone ==
  ASSUME IInv, OrderInv, NEW n \in 1..Len(calls),
         calls'[n].cmdu = calls[n].cmdu, calls'[n].mid = calls[n].mid,
         calls'[n].due = calls[n].due, calls'[n].cuts = calls[n].cuts,
         calls'[n].last = calls[n].last,
         UNCHANGED <<de_duplication_map_, de_fragmentation_map_, published>>,
         n \notin disturbed' => n \notin disturbed,
         Whole(n)' => Whole(n),
         n \notin disturbed' => \A f \in inflight : f.call = n => f \in inflight'
  PROVE  InOrder(n)'
<1> SUFFICES ASSUME n \notin disturbed', ~ IsPublished(n)', Whole(n)'
             PROVE  \E j \in 0..Len(calls'[n].cuts) : Arrived(n, j)'
  BY Zenon DEF InOrder
<1>1. ~ IsPublished(n)
  BY Zenon DEF IsPublished, IsCmdu
<1>2. PICK j \in 0..Len(calls[n].cuts) : Arrived(n, j)
  BY <1>1, Zenon DEF OrderInv
<1>3. j \in 0..Len(calls'[n].cuts) /\ Arrived(n, j)'
  BY <1>2, OldCallKept, Zenon
<1> QED BY <1>3, Zenon

\* A CMDU from the local bus: its fragments are all under way, and the others as they were.
LEMMA CmduTxOrder ==
  ASSUME IInv, OrderInv, NEW cmdu \in Cmdus, CmduTx(cmdu)
  PROVE  OrderInv'
<1>1. PICK N, c :
        /\ N = Len(calls) + 1 /\ Len(calls') = N /\ N \in 1..N /\ Grown
        /\ calls'[N] = c
        /\ \A n \in 1..Len(calls) : calls'[n] = calls[n]
        /\ \/ /\ c.last /\ Len(c.cuts) = 1
              /\ \E g \in inflight' : /\ g.call = N /\ g.id = 0 /\ ~ g.copy
                                      /\ inflight' = inflight \cup {g}
           \/ ~ c.last /\ Len(c.cuts) = 0 /\ inflight' = inflight
        /\ IInv'
  BY CmduTxFacts, Zenon
<1>2. /\ UNCHANGED <<de_duplication_map_, de_fragmentation_map_, published, disturbed>>
      /\ sending = Idle /\ Len(calls) \in Nat
  BY CallsType, Zenon DEF CmduTx, transportVars, IInv
<1>3. ASSUME NEW n \in 1..Len(calls) PROVE InOrder(n)'
  <2>1. calls'[n] = calls[n] /\ n # Len(calls')
    BY <1>1, <1>2
  <2>2. Whole(n)' => Whole(n)
    BY <2>1, Zenon DEF Whole
  <2>3. inflight \subseteq inflight'
    BY <1>1, Zenon
  <2> QED BY <1>2, <2>1, <2>2, <2>3, LeftAlone, Zenon
<1>4. InOrder(N)'
  <2>1. (\A id \in 0..(FragmentIds - 1) : NotKnown(N, id)') /\ HasCollected(N, 0)'
    BY <1>1, <1>2, NothingArrived, Zenon DEF IInv
  <2>2. c.last => 0 < Len(c.cuts)
    <3>1. c.last => Len(c.cuts) = 1
      BY <1>1, Zenon
    <3>2. 0 < 1
      OBVIOUS
    <3> QED BY <3>1, <3>2, Zenon
  <2>3. \A id \in 0..(Len(c.cuts) - 1) : \E f \in inflight' : f.call = N /\ f.id = id /\ ~ f.copy
    <3> TAKE id \in 0..(Len(c.cuts) - 1)
    <3>1. Len(c.cuts) = 1 \/ Len(c.cuts) = 0
      BY <1>1, Zenon
    <3>2. Len(c.cuts) = 1 /\ id = 0
      <4> DEFINE L == Len(c.cuts)
      <4>1. (L = 1 \/ L = 0) /\ id \in 0..(L - 1)
        BY <3>1, Zenon
      <4> HIDE DEF L
      <4>2. L = 1 /\ id = 0
        BY <4>1
      <4> QED BY <4>2, Zenon DEF L
    <3> QED BY <1>1, <3>2
  <2>4. \A id \in 0..(FragmentIds - 1) : ~ (id < 0)
    OBVIOUS
  <2>5. Arrived(N, 0)'
    BY <1>1, <2>1, <2>2, <2>3, <2>4, Zenon DEF Arrived
  <2>6. 0 \in 0..Len(calls'[N].cuts)
    BY <1>1
  <2> QED BY <2>5, <2>6, Zenon DEF InOrder
<1>5. \A n \in 1..Len(calls') : n = N \/ n \in 1..Len(calls)
  BY <1>1, <1>2
<1> QED BY <1>3, <1>4, <1>5, Zenon DEF OrderInv, InOrder

\* One iteration of the loop: the new fragment is under way after the ones before it.
LEMMA SendFragmentOrder ==
  ASSUME IInv, OrderInv, NEW end, SendFragment(end)
  PROVE  OrderInv'
<1> PICK N : N = Len(calls)
  BY Zenon
<1> DEFINE b == calls[N]
<1>1. PICK g \in inflight' :
        /\ N \in 1..N /\ Len(calls') = N /\ Grown
        /\ \A n \in 1..N : n # N => calls'[n] = calls[n]
        /\ Len(calls'[N].cuts) = Len(b.cuts) + 1
        /\ ~ b.last
        /\ g.call = N /\ g.id = Len(b.cuts) /\ ~ g.copy
        /\ inflight' = inflight \cup {g}
  BY SendFragmentFacts, Zenon
<1>2. /\ UNCHANGED <<de_duplication_map_, de_fragmentation_map_, published, disturbed>>
      /\ sending # Idle /\ N \in Nat /\ Len(b.cuts) \in Nat
  BY <1>1, CallsType, CallType, Zenon DEF SendFragment, transportVars, IInv
<1>3. ASSUME NEW n \in 1..N, n # N PROVE InOrder(n)'
  <2>1. calls'[n] = calls[n] /\ n # Len(calls') /\ n # Len(calls)
    BY <1>1, <1>3, Zenon
  <2>2. Whole(n)' => Whole(n)
    BY <2>1, Zenon DEF Whole
  <2> QED BY <1>1, <1>2, <2>1, <2>2, LeftAlone, Zenon
<1>4. InOrder(N)'
  <2> SUFFICES ASSUME N \notin disturbed'
               PROVE  \E j \in 0..Len(calls'[N].cuts) : Arrived(N, j)'
    BY <1>1, Zenon DEF InOrder
  <2>1. ~ IsPublished(N)
    BY <1>1, Zenon DEF IInv, PublishedInv
  <2>2. PICK j \in 0..Len(b.cuts) : Arrived(N, j)
    BY <1>1, <1>2, <2>1, Zenon DEF OrderInv, Whole
  <2>3. calls'[N].mid = b.mid /\ calls'[N].due = b.due
    BY <1>1, Zenon DEF Grown
  <2>4. j \in 0..Len(calls'[N].cuts) /\ j < Len(calls'[N].cuts)
    BY <1>1, <1>2
  <2>5. \A id \in j..(Len(calls'[N].cuts) - 1) :
          \E f \in inflight' : f.call = N /\ f.id = id /\ ~ f.copy
    <3> TAKE id \in j..(Len(calls'[N].cuts) - 1)
    <3>1. id = Len(b.cuts) \/ id \in j..(Len(b.cuts) - 1)
      BY <1>1, <1>2
    <3>2. CASE id = Len(b.cuts)
      BY <1>1, <3>2, Zenon
    <3>3. CASE id \in j..(Len(b.cuts) - 1)
      BY <1>1, <2>2, <3>3, Zenon DEF Arrived
    <3> QED BY <3>1, <3>2, <3>3, Zenon
  <2>6. Arrived(N, j)'
    BY <1>1, <1>2, <2>2, <2>3, <2>4, <2>5, ArrivedKept, Zenon
  <2> QED BY <2>4, <2>6, Zenon
<1> QED BY <1>1, <1>3, <1>4, Zenon DEF OrderInv, InOrder

\* A call that was cut short is no longer whole; the others go on.
LEMMA ReturnsOrder ==
  ASSUME IInv, OrderInv, sending # Idle, Returns("false"), sending' = Idle,
         disturbed' \subseteq 0..Len(calls), faults' \in 0..MaxFaults, disturbed \subseteq disturbed',
         UNCHANGED <<now, de_duplication_map_, message_id_, ready_at, de_fragmentation_map_,
                     inflight, published>>
  PROVE  OrderInv'
<1>1. /\ Grown /\ Len(calls') = Len(calls) /\ ~ calls[Len(calls)].last
      /\ \A n \in 1..Len(calls) :
           calls'[n].cuts = calls[n].cuts /\ calls'[n].last = calls[n].last
  BY ReturnsStep, Zenon
<1>2. ASSUME NEW n \in 1..Len(calls) PROVE InOrder(n)'
  <2>1. /\ calls'[n].cmdu = calls[n].cmdu /\ calls'[n].mid = calls[n].mid
        /\ calls'[n].due = calls[n].due
        /\ calls'[n].cuts = calls[n].cuts /\ calls'[n].last = calls[n].last
    BY <1>1, Zenon DEF Grown
  <2>2. Whole(n)' => Whole(n)
    BY <2>1, Zenon DEF Whole
  <2> QED BY <2>1, <2>2, LeftAlone, Zenon
<1> QED BY <1>1, <1>2, Zenon DEF OrderInv, InOrder

\* A call cut short is no longer whole, and the others are as they were.
LEMMA CutShortOrder ==
  ASSUME IInv, OrderInv, NEW end, RefuseTlv(end) \/ WriteFails
  PROVE  OrderInv'
<1>1. sending # Idle /\ Returns("false") /\ sending' = Idle
  BY Zenon DEF RefuseTlv, WriteFails
<1>2. disturbed \subseteq disturbed' /\ disturbed' \subseteq 0..Len(calls) /\ faults' \in 0..MaxFaults
  <2>1. Len(calls) \in Nat /\ disturbed \subseteq 0..Len(calls) /\ faults \in 0..MaxFaults
    BY SeqLength, Zenon DEF IInv, TypeOK
  <2>2. \/ disturbed' = disturbed /\ faults' = faults
        \/ /\ faults < MaxFaults /\ faults' = faults + 1
           /\ disturbed' = disturbed \cup {Len(calls)}
    BY Zenon DEF RefuseTlv, WriteFails, Fault
  <2>3. Len(calls) \in 0..Len(calls)
    BY <2>1
  <2>4. faults' \in 0..MaxFaults
    BY <2>1, <2>2, SizesAssumption
  <2>5. disturbed \subseteq disturbed' /\ disturbed' \subseteq 0..Len(calls)
    BY <2>1, <2>2, <2>3, Zenon
  <2> QED BY <2>4, <2>5, Zenon
<1>3. UNCHANGED <<now, de_duplication_map_, message_id_, ready_at, de_fragmentation_map_,
                  inflight, published>>
  BY Zenon DEF RefuseTlv, WriteFails, transportVars
<1> QED BY <1>1, <1>2, <1>3, ReturnsOrder, Zenon

\* A restart cuts the running call short and leaves the receiver as it was.
LEMMA RestartOrder ==
  ASSUME IInv, OrderInv, Restart
  PROVE  OrderInv'
<1>1. /\ UNCHANGED <<de_duplication_map_, de_fragmentation_map_, published, calls, inflight>>
      /\ sending' = Idle /\ disturbed \subseteq disturbed'
  BY Zenon DEF Restart, Fault, transportVars
<1>2. ASSUME NEW n \in 1..Len(calls) PROVE InOrder(n)'
  <2>1. Whole(n)' => Whole(n)
    BY <1>1, Zenon DEF Whole
  <2> QED BY <1>1, <2>1, LeftAlone, Zenon
<1> QED BY <1>1, <1>2, Zenon DEF OrderInv, InOrder

\* The network, the clock and a step that changes nothing.
LEMMA NetworkOrder ==
  ASSUME IInv, OrderInv,
         (\E f \in inflight : Lose(f) \/ DuplicateFrame(f)) \/ Tick \/ UNCHANGED vars
  PROVE  OrderInv'
<1>1. /\ UNCHANGED <<de_duplication_map_, de_fragmentation_map_, published, calls, sending>>
      /\ disturbed \subseteq disturbed'
  BY Zenon DEF Lose, DuplicateFrame, Tick, Fault, vars, transportVars, fragVars
<1>2. ASSUME NEW f \in inflight PROVE f \in inflight' \/ f.call \in disturbed'
  BY Zenon DEF Lose, DuplicateFrame, Tick, Fault, vars
<1>3. ASSUME NEW n \in 1..Len(calls) PROVE InOrder(n)'
  <2>1. Whole(n)' => Whole(n)
    BY <1>1, Zenon DEF Whole
  <2>2. n \notin disturbed' => \A f \in inflight : f.call = n => f \in inflight'
    BY <1>2, Zenon
  <2> QED BY <1>1, <2>1, <2>2, LeftAlone, Zenon
<1> QED BY <1>1, <1>3, Zenon DEF OrderInv, InOrder

\* A fragment leaves the entries of other messageIds alone, but for those that are
\* complete or too old.
LEMMA OtherEntries ==
  ASSUME IInv, NEW f \in inflight, UNCHANGED de_fragmentation_map_ \/ DeFragment(f),
         NEW mid, mid # f.mid
  PROVE  /\ mid \in DOMAIN de_fragmentation_map_' =>
              /\ mid \in DOMAIN de_fragmentation_map_
              /\ de_fragmentation_map_'[mid] = de_fragmentation_map_[mid]
         /\ /\ mid \in DOMAIN de_fragmentation_map_
            /\ ~ de_fragmentation_map_[mid].complete
            /\ ~ (now > de_fragmentation_map_[mid].time + MaxDeFragAge)
            => mid \in DOMAIN de_fragmentation_map_'
<1> DEFINE old == de_fragmentation_map_
           new == de_fragmentation_map_'
<1>1. /\ DOMAIN CleanedUp \subseteq DOMAIN old
      /\ \A m \in DOMAIN CleanedUp : CleanedUp[m] = old[m]
      /\ mid \in DOMAIN old =>
           (mid \in DOMAIN CleanedUp <=>
              ~ old[mid].complete /\ ~ (now > old[mid].time + MaxDeFragAge))
  BY CleanedUpEntries, Zenon
<1>2. \/ new = old
      \/ new = Only(CleanedUp, DOMAIN CleanedUp \ {f.mid})
      \/ \E e : new = Put(CleanedUp, f.mid, e)
  BY Zenon DEF DeFragment, NoThread, OutOfOrder, Overflow, Collect, Stored
<1>3. CASE new = old
  BY <1>3, Zenon
<1>4. CASE new = Only(CleanedUp, DOMAIN CleanedUp \ {f.mid})
  <2>1. /\ mid \in DOMAIN new <=> mid \in DOMAIN CleanedUp
        /\ mid \in DOMAIN new => new[mid] = CleanedUp[mid]
    BY <1>4, Zenon DEF Only
  <2> HIDE DEF new
  <2>2. /\ mid \in DOMAIN new => mid \in DOMAIN old /\ new[mid] = old[mid]
        /\ mid \in DOMAIN old /\ ~ old[mid].complete /\ ~ (now > old[mid].time + MaxDeFragAge)
             => mid \in DOMAIN new
    BY <1>1, <2>1, Zenon
  <2> QED BY <2>2, Zenon DEF new
<1>5. CASE \E e : new = Put(CleanedUp, f.mid, e)
  <2>1. PICK e : new = Put(CleanedUp, f.mid, e)
    BY <1>5, Zenon
  <2>2. /\ mid \in DOMAIN new <=> mid \in DOMAIN CleanedUp
        /\ mid \in DOMAIN new => new[mid] = CleanedUp[mid]
    BY <2>1, Zenon DEF Put
  <2> HIDE DEF new
  <2>3. /\ mid \in DOMAIN new => mid \in DOMAIN old /\ new[mid] = old[mid]
        /\ mid \in DOMAIN old /\ ~ old[mid].complete /\ ~ (now > old[mid].time + MaxDeFragAge)
             => mid \in DOMAIN new
    BY <1>1, <2>2, Zenon
  <2> QED BY <2>3, Zenon DEF new
<1> QED BY <1>2, <1>3, <1>4, <1>5, Zenon

\* A key that is too old stays so.
LEMMA NotKnownKept ==
  ASSUME NEW n, NEW id, NotKnown(n, id), UNCHANGED calls, NEW key,
         Refreshed(de_duplication_map_[rx], de_duplication_map_'[rx], key),
         StoredKey(calls[n].mid, id) # key
  PROVE  NotKnown(n, id)'
<1> DEFINE k == StoredKey(calls[n].mid, id)
<1>1. k \in DOMAIN de_duplication_map_'[rx] =>
        /\ k \in DOMAIN de_duplication_map_[rx]
        /\ de_duplication_map_'[rx][k] = de_duplication_map_[rx][k]
  BY Zenon DEF Refreshed
<1>2. k \in DOMAIN de_duplication_map_'[rx] =>
        de_duplication_map_'[rx][k] + MaxDeDupAge + MaxDelay < calls[n].due
  BY <1>1, Zenon DEF NotKnown
<1> QED BY <1>2, Zenon DEF NotKnown, StoredKey

\* A fragment of another call changes nothing for this one.
LEMMA OtherCallOrder ==
  ASSUME IInv, NEW f \in inflight, NEW n \in 1..Len(calls), n # f.call, now <= calls[n].due,
         NEW j \in 0..Len(calls[n].cuts), Arrived(n, j),
         inflight' = inflight \ {f}, UNCHANGED calls,
         Refreshed(de_duplication_map_[rx], de_duplication_map_'[rx], StoredKey(f.mid, f.id)),
         UNCHANGED de_fragmentation_map_ \/ DeFragment(f)
  PROVE  Arrived(n, j)'
<1> DEFINE key == StoredKey(f.mid, f.id)
           mid == calls[n].mid
<1>1. \A id : StoredKey(mid, id) # key
  BY SameKey, Zenon
<1>2. ASSUME NEW id \in 0..(FragmentIds - 1)
      PROVE  IF id < j THEN Knows(n, id)' ELSE NotKnown(n, id)'
  <2>1. StoredKey(calls[n].mid, id) # key
    BY <1>1, Zenon
  <2>2. CASE id < j
    <3>1. Knows(n, id)
      BY <2>2, Zenon DEF Arrived
    <3>2. Knows(n, id)'
      BY <2>1, <3>1, KnowsKept, Zenon
    <3> QED BY <2>2, <3>2, Zenon
  <2>3. CASE ~ (id < j)
    <3>1. NotKnown(n, id)
      BY <2>3, Zenon DEF Arrived
    <3>2. NotKnown(n, id)'
      BY <2>1, <3>1, NotKnownKept, Zenon
    <3> QED BY <2>3, <3>2, Zenon
  <2> QED BY <2>2, <2>3, Zenon
<1>3. mid # f.mid
  <2> SUFFICES ASSUME mid = f.mid PROVE FALSE
    BY Zenon
  <2>1. StoredKey(mid, f.id) = key
    BY Zenon
  <2> QED BY <1>1, <2>1, Zenon
<1>4. HasCollected(n, j)'
  <2> DEFINE old == de_fragmentation_map_
             new == de_fragmentation_map_'
  <2>1. /\ mid \in DOMAIN new => mid \in DOMAIN old /\ new[mid] = old[mid]
        /\ mid \in DOMAIN old /\ ~ old[mid].complete /\ ~ (now > old[mid].time + MaxDeFragAge)
             => mid \in DOMAIN new
    BY <1>3, OtherEntries, Zenon
  <2>2. CASE j = 0
    <3>1. mid \in DOMAIN old =>
            \/ old[mid].complete \/ old[mid].numFragments = 0
            \/ old[mid].time + MaxDeFragAge + MaxDelay < calls[n].due
      BY <2>2, Zenon DEF Arrived, HasCollected
    <3>2. mid \in DOMAIN new =>
            \/ new[mid].complete \/ new[mid].numFragments = 0
            \/ new[mid].time + MaxDeFragAge + MaxDelay < calls[n].due
      BY <2>1, <3>1, Zenon
    <3> QED BY <2>2, <3>2, Zenon DEF HasCollected
  <2>3. CASE j # 0
    <3>1. /\ mid \in DOMAIN old /\ ~ old[mid].complete
          /\ old[mid].numFragments = j /\ calls[n].due <= old[mid].time + MaxDelay
      BY <2>3, Zenon DEF Arrived, HasCollected
    <3>2. old[mid].time \in Nat /\ now \in Nat /\ calls[n].due \in Nat
      BY <3>1, CallsType, CallType, Zenon DEF IInv, TypeOK, DeFragmentationValue
    <3>3. ~ (now > old[mid].time + MaxDeFragAge)
      <4> DEFINE time == old[mid].time
                 due == calls[n].due
      <4>1. due <= time + MaxDelay /\ now <= due /\ time \in Nat /\ now \in Nat /\ due \in Nat
        BY <3>1, <3>2, Zenon
      <4>2. MaxDelay \in Nat /\ MaxDeFragAge \in Nat /\ MaxDelay <= MaxDeFragAge
        BY SizesAssumption, DeFragAgeAssumption, Zenon
      <4> HIDE DEF time, due
      <4>3. ~ (now > time + MaxDeFragAge)
        BY <4>1, <4>2, SMTT(30)
      <4> QED BY <4>3, Zenon DEF time
    <3>4. /\ mid \in DOMAIN new /\ ~ new[mid].complete
          /\ new[mid].numFragments = j /\ calls[n].due <= new[mid].time + MaxDelay
      BY <2>1, <3>1, <3>3, Zenon
    <3> QED BY <2>3, <3>4, Zenon DEF HasCollected
  <2> QED BY <2>2, <2>3, Zenon
<1>5. \A id \in j..(Len(calls'[n].cuts) - 1) :
        \E g \in inflight' : g.call = n /\ g.id = id /\ ~ g.copy
  <2> TAKE id \in j..(Len(calls'[n].cuts) - 1)
  <2>1. PICK g \in inflight : g.call = n /\ g.id = id /\ ~ g.copy
    BY Zenon DEF Arrived
  <2>2. g \in inflight'
    BY <2>1, Zenon
  <2> QED BY <2>1, <2>2, Zenon
<1>6. calls'[n].last => j < Len(calls'[n].cuts)
  BY Zenon DEF Arrived
<1> QED BY <1>2, <1>4, <1>5, <1>6, Zenon DEF Arrived

\* A duplicate is one of the fragments that have arrived.
LEMMA DuplicateOrder ==
  ASSUME IInv, NEW f \in inflight, NEW n \in 1..Len(calls), n = f.call,
         NEW j \in 0..Len(calls[n].cuts), Arrived(n, j), Duplicate(f),
         inflight' = inflight \ {f}, UNCHANGED calls
  PROVE  Arrived(n, j)'
<1> DEFINE key == StoredKey(f.mid, f.id)
           old == de_duplication_map_[rx]
           new == de_duplication_map_'[rx]
<1>1. /\ Refreshed(old, new, key)
      /\ key \in DOMAIN new /\ new[key] = now
      /\ key \in DOMAIN old /\ ~ (now > old[key] + MaxDeDupAge)
  BY DuplicatePacket, Zenon DEF Duplicate
<1>2. /\ f.mid = calls[n].mid /\ now \in Nat /\ calls[n].due \in Nat
      /\ now <= calls[n].due /\ calls[n].due <= now + MaxDelay
      /\ f.id \in 0..(FragmentIds - 1)
  BY FrameFacts, Zenon DEF FrameInFlight
<1>3. f.id < j
  <2> SUFFICES ASSUME ~ (f.id < j) PROVE FALSE
    BY Zenon
  <2>1. NotKnown(n, f.id)
    BY <1>2, Zenon DEF Arrived
  <2>2. old[key] + MaxDeDupAge + MaxDelay < calls[n].due /\ old[key] \in Nat
    BY <1>1, <1>2, <2>1, Zenon DEF NotKnown, IInv, KeysInv
  <2> DEFINE time == old[key]
             due == calls[n].due
  <2>3. /\ time + MaxDeDupAge + MaxDelay < due /\ due <= now + MaxDelay
        /\ ~ (now > time + MaxDeDupAge) /\ time \in Nat /\ due \in Nat /\ now \in Nat
    BY <1>1, <1>2, <2>2, Zenon
  <2> HIDE DEF time, due
  <2> QED BY <2>3, SizesAssumption, AgeAssumption
<1>4. \A id : id # f.id => StoredKey(calls[n].mid, id) # key
  BY StoredKeyInjective
<1>5. ASSUME NEW id \in 0..(FragmentIds - 1)
      PROVE  IF id < j THEN Knows(n, id)' ELSE NotKnown(n, id)'
  <2>1. CASE id < j
    <3>1. Knows(n, id)
      BY <2>1, Zenon DEF Arrived
    <3>2. Knows(n, id)'
      BY <1>1, <1>2, <3>1, KnowsKept, Zenon
    <3> QED BY <2>1, <3>2, Zenon
  <2>2. CASE ~ (id < j)
    <3>1. NotKnown(n, id)
      BY <2>2, Zenon DEF Arrived
    <3>2. StoredKey(calls[n].mid, id) # key
      BY <1>3, <1>4, <2>2, Zenon
    <3>3. NotKnown(n, id)'
      BY <1>1, <3>1, <3>2, NotKnownKept, Zenon
    <3> QED BY <2>2, <3>3, Zenon
  <2> QED BY <2>1, <2>2, Zenon
<1>6. HasCollected(n, j)'
  BY Zenon DEF Arrived, HasCollected, Duplicate
<1>7. \A id \in j..(Len(calls'[n].cuts) - 1) :
        \E g \in inflight' : g.call = n /\ g.id = id /\ ~ g.copy
  <2> TAKE id \in j..(Len(calls'[n].cuts) - 1)
  <2>1. PICK g \in inflight : g.call = n /\ g.id = id /\ ~ g.copy
    BY Zenon DEF Arrived
  <2>2. j <= id /\ id \in Int /\ j \in Int /\ f.id \in Int
    BY <1>2, CallsType, CallType DEF IInv
  <2>3. g # f
    BY <1>3, <2>1, <2>2
  <2> QED BY <2>1, <2>3, Zenon
<1>8. calls'[n].last => j < Len(calls'[n].cuts)
  BY Zenon DEF Arrived
<1> QED BY <1>5, <1>6, <1>7, <1>8, Zenon DEF Arrived

\* The entry is the one of this call, with the fragments that have arrived.
LEMMA ExpectedFragment ==
  ASSUME IInv, NEW f \in inflight, HasCollected(f.call, f.id)
  PROVE  EntryOf(f).numFragments = f.id
<1> DEFINE map == de_fragmentation_map_
           mid == f.mid
           due == calls[f.call].due
<1>1. /\ f.mid = calls[f.call].mid /\ now \in Nat /\ due \in Nat /\ now <= due
      /\ due <= now + MaxDelay
  BY FrameFacts, Zenon
<1>2. /\ mid \in DOMAIN map => (mid \in DOMAIN CleanedUp <=>
                                  ~ map[mid].complete /\ ~ (now > map[mid].time + MaxDeFragAge))
      /\ DOMAIN CleanedUp \subseteq DOMAIN map
      /\ mid \in DOMAIN CleanedUp => CleanedUp[mid] = map[mid]
  BY CleanedUpEntries, Zenon
<1>3. /\ mid \in DOMAIN CleanedUp => EntryOf(f).numFragments = CleanedUp[mid].numFragments
      /\ mid \notin DOMAIN CleanedUp => EntryOf(f).numFragments = 0
  BY EntryOfFrame, Zenon
<1>4. mid \in DOMAIN map => map[mid].time \in Nat
  BY Zenon DEF IInv, TypeOK, DeFragmentationValue
<1>5. MaxDelay \in Nat /\ MaxDeFragAge \in Nat /\ MaxDelay <= MaxDeFragAge
  BY SizesAssumption, DeFragAgeAssumption, Zenon
<1>6. CASE f.id = 0
  <2>1. mid \in DOMAIN map =>
          \/ map[mid].complete \/ map[mid].numFragments = 0
          \/ map[mid].time + MaxDeFragAge + MaxDelay < due
    BY <1>1, <1>6, SMTT(30) DEF HasCollected
  <2>2. CASE mid \in DOMAIN CleanedUp
    <3> DEFINE time == map[mid].time
    <3>1. /\ map[mid].numFragments = 0 \/ time + MaxDeFragAge + MaxDelay < due
          /\ ~ (now > time + MaxDeFragAge) /\ time \in Nat
      BY <1>2, <1>4, <2>1, <2>2, Zenon
    <3> HIDE DEF time, due, map
    <3>2. map[mid].numFragments = 0
      BY <1>1, <1>5, <3>1
    <3> QED BY <1>2, <1>3, <1>6, <2>2, <3>2, Zenon
  <2>3. CASE mid \notin DOMAIN CleanedUp
    BY <1>3, <1>6, <2>3, Zenon
  <2> QED BY <2>2, <2>3, Zenon
<1>7. CASE f.id # 0
  <2>1. /\ mid \in DOMAIN map /\ ~ map[mid].complete
        /\ map[mid].numFragments = f.id /\ due <= map[mid].time + MaxDelay
    BY <1>1, <1>7, Zenon DEF HasCollected
  <2> DEFINE time == map[mid].time
  <2>2. due <= time + MaxDelay /\ time \in Nat
    BY <1>4, <2>1, Zenon
  <2> HIDE DEF time, due
  <2>3. ~ (now > time + MaxDeFragAge)
    BY <1>1, <1>5, <2>2
  <2>4. mid \in DOMAIN CleanedUp
    BY <1>2, <2>1, <2>3, Zenon DEF time
  <2> QED BY <1>2, <1>3, <2>1, <2>4, Zenon
<1> QED BY <1>6, <1>7, Zenon

\* A new fragment that hits no limit and overtakes none is the next one: it completes the
\* CMDU, which is published, or is collected.
LEMMA ForwardOrder ==
  ASSUME IInv, NEW f \in inflight, NEW n \in 1..Len(calls), n = f.call, Whole(n),
         NEW j \in 0..Len(calls[n].cuts), Arrived(n, j), Forward(f), n \notin disturbed',
         ~ IsPublished(n)', inflight' = inflight \ {f}, UNCHANGED calls
  PROVE  \E i \in 0..Len(calls'[n].cuts) : Arrived(n, i)'
<1> DEFINE key == StoredKey(f.mid, f.id)
           old == de_duplication_map_[rx]
           new == de_duplication_map_'[rx]
           c == calls[n]
           L == Len(c.cuts)
<1>1. /\ f \in FrameInFlight /\ FrameInv(f) /\ CutsInv(c) /\ c \in Call
      /\ f.mid = c.mid /\ now \in Nat /\ c.due \in Nat /\ now <= c.due /\ c.due <= now + MaxDelay
  BY FrameFacts, Zenon
<1>2. /\ f.id \in 0..(FragmentIds - 1) /\ f.id \in Nat /\ f.id < L /\ L \in Nat /\ j \in Nat
      /\ L <= FragmentIds /\ FragmentIds \in Nat /\ f.last \in BOOLEAN
  <2>1. f.id \in 0..(FragmentIds - 1) /\ f.last \in BOOLEAN
    BY <1>1, Zenon DEF FrameInFlight
  <2>2. L \in Nat
    BY <1>1, CallType, Zenon
  <2>3. f.id < L /\ L <= FragmentIds
    BY <1>1, Zenon DEF FrameInv, CutsInv
  <2> QED BY <2>1, <2>2, <2>3, SizesAssumption
<1>3. /\ f.last <=> CutAt(c, f.id + 1) = Len(c.cmdu)
      /\ c.last <=> CutAt(c, L) = Len(c.cmdu)
  BY <1>1, Zenon DEF FrameInv, CutsInv
<1>4. ~ Overtakes(f) /\ ~ HitsLimit(f) /\ DeFragment(f) /\ published' = published \o Output(f)
  BY Zenon DEF Forward
<1>5. /\ Refreshed(old, new, key) /\ key \in DOMAIN new /\ new[key] = now
      /\ key \in DOMAIN old => now > old[key] + MaxDeDupAge
  <2> DEFINE none == {}
  <2>1. none \in {{}, {PacketKey(PacketOf(f))}} /\ IsNew(rx, PacketOf(f), TRUE, none) /\ none = {}
    BY Zenon DEF Forward
  <2> HIDE DEF none
  <2> QED BY <2>1, NewPacket, Zenon
<1>6. ~ Knows(n, f.id)
  BY <1>5, NewIsUnknown, Zenon
<1>7. Output(f) = << >>
  <2> SUFFICES ASSUME Output(f) # << >> PROVE FALSE
    BY Zenon
  <2>1. PICK content \in Seq(Tlv) : Output(f) = << content >> /\ IsCmdu(content, n)
    BY OutputIsCmdu, Zenon
  <2>2. published \in Seq(Seq(Tlv))
    BY Zenon DEF IInv, TypeOK
  <2>3. Len(published') \in 1..Len(published') /\ published'[Len(published')] = content
    BY <1>4, <2>1, <2>2
  <2>4. IsCmdu(content, n)'
    BY <2>1, Zenon DEF IsCmdu
  <2> QED BY <2>3, <2>4, Zenon DEF IsPublished
<1>8. f.id = j
  <2>1. ~ (f.id < j)
    BY <1>2, <1>6, Zenon DEF Arrived
  <2>2. ~ (j < f.id)
    <3> SUFFICES ASSUME j < f.id PROVE FALSE
      BY Zenon
    <3>1. j \in j..(L - 1)
      BY <1>2
    <3>2. PICK g \in inflight : g.call = n /\ g.id = j /\ ~ g.copy
      BY <3>1, Zenon DEF Arrived
    <3> QED BY <1>4, <3>2, Zenon DEF Overtakes
  <2> QED BY <1>2, <2>1, <2>2
<1>9. EntryOf(f).numFragments = f.id
  BY <1>8, ExpectedFragment, Zenon DEF Arrived
<1>10. Fragmented(f)
  BY <1>7, Zenon DEF Output
<1>11. ~ TooManyThreads(f) /\ ~ Overflows(f)
  BY <1>4, <1>10, Zenon DEF HitsLimit
<1>12. Collects(f) /\ ~ f.last
  BY <1>7, <1>9, <1>10, <1>11, Zenon DEF Collects, Output
<1>13. de_fragmentation_map_' = Put(CleanedUp, f.mid, Collected(f))
  BY <1>4, <1>9, <1>10, <1>11, Zenon DEF DeFragment, NoThread, OutOfOrder, Overflow, Collect, Stored
<1> DEFINE e == Collected(f)
<1>14. e.time = now /\ e.complete = f.last /\ e.numFragments = (f.id + 1) % FragmentIds
  BY <1>12, CollectedFrame, Zenon
<1>15. f.mid \in DOMAIN de_fragmentation_map_' /\ de_fragmentation_map_'[f.mid] = e
  BY <1>13, Zenon DEF Put
<1> HIDE DEF e, L
<1>16. c.last => j + 1 < L
  <2>1. c.last => j + 1 # L
    BY <1>3, <1>8, <1>12, Zenon
  <2> QED BY <1>2, <1>8, <2>1
<1>17. j + 1 < FragmentIds
  <2> SUFFICES ASSUME ~ (j + 1 < FragmentIds) PROVE FALSE
    BY Zenon
  <2>1. j + 1 = L /\ L = FragmentIds
    BY <1>2, <1>8
  <2>2. ~ c.last
    BY <1>2, <1>16, <2>1, Zenon
  <2>3. n = Len(calls) /\ sending # Idle
    BY <2>2, Zenon DEF Whole
  <2>4. L = sending.fragmentId
    BY <2>3, Zenon DEF IInv, SendingInv, L
  <2>5. sending.fragmentId \in 0..(FragmentIds - 1)
    BY Zenon DEF IInv, TypeOK
  <2> QED BY <1>2, <2>1, <2>4, <2>5
<1>18. e.numFragments = j + 1
  BY <1>2, <1>8, <1>14, <1>17
<1>19. HasCollected(n, j + 1)'
  <2>1. j + 1 # 0
    BY <1>2
  <2>2. ~ e.complete /\ c.due <= e.time + MaxDelay
    BY <1>1, <1>12, <1>14, Zenon
  <2>3. calls'[n].mid = f.mid /\ calls'[n].due = c.due
    BY <1>1, Zenon
  <2> QED BY <1>15, <1>18, <2>1, <2>2, <2>3, Zenon DEF HasCollected
<1>20. \A id : id # f.id => StoredKey(c.mid, id) # key
  BY StoredKeyInjective
<1>21. ASSUME NEW id \in 0..(FragmentIds - 1)
       PROVE  IF id < j + 1 THEN Knows(n, id)' ELSE NotKnown(n, id)'
  <2>1. CASE id < j
    <3>1. Knows(n, id)
      BY <2>1, Zenon DEF Arrived
    <3>2. Knows(n, id)'
      BY <1>1, <1>5, <3>1, KnowsKept, Zenon
    <3>3. id < j + 1
      BY <1>2, <2>1
    <3> QED BY <3>2, <3>3, Zenon
  <2>2. CASE id = j
    <3>1. StoredKey(calls'[n].mid, id) = key /\ calls'[n].due <= new[key] + MaxDelay
      BY <1>1, <1>5, <1>8, <2>2, Zenon
    <3>2. Knows(n, id)'
      BY <1>5, <3>1, Zenon DEF Knows, StoredKey
    <3>3. id < j + 1
      BY <1>2, <2>2
    <3> QED BY <3>2, <3>3, Zenon
  <2>3. CASE id > j
    <3>1. ~ (id < j) /\ ~ (id < j + 1) /\ id # f.id
      BY <1>2, <1>8, <2>3
    <3>2. NotKnown(n, id)
      BY <3>1, Zenon DEF Arrived
    <3>3. NotKnown(n, id)'
      BY <1>5, <1>20, <3>1, <3>2, NotKnownKept, Zenon
    <3> QED BY <3>1, <3>3, Zenon
  <2> QED BY <1>2, <2>1, <2>2, <2>3
<1>22. \A id \in (j + 1)..(Len(calls'[n].cuts) - 1) :
         \E g \in inflight' : g.call = n /\ g.id = id /\ ~ g.copy
  <2> TAKE id \in (j + 1)..(Len(calls'[n].cuts) - 1)
  <2>1. Len(calls'[n].cuts) = L
    BY Zenon DEF L
  <2>2. id \in j..(L - 1) /\ id # j
    BY <1>2, <2>1
  <2>3. PICK g \in inflight : g.call = n /\ g.id = id /\ ~ g.copy
    BY <2>2, Zenon DEF Arrived, L
  <2>4. g \in inflight'
    BY <1>8, <2>2, <2>3, Zenon
  <2> QED BY <2>3, <2>4, Zenon
<1>23. /\ j + 1 \in 0..Len(calls'[n].cuts)
       /\ calls'[n].last => j + 1 < Len(calls'[n].cuts)
  <2>1. Len(calls'[n].cuts) = L /\ calls'[n].last = c.last
    BY Zenon DEF L
  <2>2. j + 1 \in 0..L
    BY <1>2, <1>8
  <2> QED BY <1>16, <2>1, <2>2, Zenon
<1>24. Arrived(n, j + 1)'
  BY <1>19, <1>21, <1>22, <1>23, Zenon DEF Arrived
<1> QED BY <1>23, <1>24, Zenon

\* handle_packet(): a frame of another call leaves what is collected of this one; a frame of
\* this one is a duplicate, the next in order, which is collected, or makes it disturbed.
LEMMA ReceiveOrder ==
  ASSUME IInv, OrderInv, NEW f \in inflight, Receive(f)
  PROVE  OrderInv'
<1> SUFFICES ASSUME NEW n \in 1..Len(calls), n \notin disturbed', ~ IsPublished(n)', Whole(n)'
             PROVE  \E j \in 0..Len(calls'[n].cuts) : Arrived(n, j)'
  BY Zenon DEF OrderInv, Receive
<1>1. inflight' = inflight \ {f} /\ UNCHANGED <<calls, sending>>
  BY Zenon DEF Receive, fragVars
<1>2. disturbed \subseteq disturbed'
  BY Zenon DEF Receive, Duplicate, Untrackable, Forward, PublishFails, Fault
<1>3. Refreshed(de_duplication_map_[rx], de_duplication_map_'[rx], StoredKey(f.mid, f.id))
  <2>1. CASE Duplicate(f)
    BY <2>1, DuplicatePacket, Zenon DEF Duplicate
  <2>2. CASE Untrackable(f)
    BY <2>2, UntrackablePacket, Zenon DEF Untrackable
  <2>3. CASE Forward(f) \/ PublishFails(f)
    <3>1. PICK erase : /\ erase \in {{}, {PacketKey(PacketOf(f))}}
                       /\ IsNew(rx, PacketOf(f), TRUE, erase)
      BY <2>3, Zenon DEF Forward, PublishFails
    <3> QED BY <3>1, NewPacket, Zenon
  <2> QED BY <2>1, <2>2, <2>3, Zenon DEF Receive
<1>4. UNCHANGED de_fragmentation_map_ \/ DeFragment(f)
  BY Zenon DEF Receive, Duplicate, Untrackable, Forward, PublishFails, DeFragment
<1>5. ~ IsPublished(n)
  <2> SUFFICES ASSUME NEW i \in 1..Len(published), IsCmdu(published[i], n) PROVE FALSE
    BY Zenon DEF IsPublished
  <2>1. published \in Seq(Seq(Tlv))
    BY Zenon DEF IInv, TypeOK
  <2>2. published' = published \/ \E content \in Seq(Tlv) : published' = Append(published, content)
    <3>1. published' = published \/ published' = published \o Output(f)
      BY Zenon DEF Receive, Duplicate, Untrackable, Forward, PublishFails
    <3>2. CASE Output(f) = << >>
      BY <2>1, <3>1, <3>2
    <3>3. CASE Output(f) # << >>
      <4>1. PICK content \in Seq(Tlv) : Output(f) = << content >>
        BY <3>3, OutputIsCmdu, Zenon
      <4> QED BY <2>1, <3>1, <4>1, SMTT(30)
    <3> QED BY <3>2, <3>3, Zenon
  <2>3. i \in 1..Len(published') /\ published'[i] = published[i]
    <3>1. CASE published' = published
      BY <3>1, Zenon
    <3>2. ASSUME NEW content \in Seq(Tlv), published' = Append(published, content)
          PROVE  i \in 1..Len(published') /\ published'[i] = published[i]
      <4>1. Len(published) \in Nat /\ i \in 1..(Len(published) + 1) /\ i # Len(published) + 1
        BY <2>1, SeqLength
      <4>2. Len(published') = Len(published) + 1 /\ published'[i] = published[i]
        BY <2>1, <3>2, <4>1
      <4> QED BY <4>1, <4>2, Zenon
    <3> QED BY <2>2, <3>1, <3>2, Zenon
  <2>4. IsCmdu(published[i], n)'
    BY <1>1, <2>3, Zenon DEF IsCmdu
  <2> QED BY <2>3, <2>4, Zenon DEF IsPublished
<1>6. Whole(n)
  BY <1>1, Zenon DEF Whole
<1>7. PICK j \in 0..Len(calls[n].cuts) : Arrived(n, j)
  BY <1>2, <1>5, <1>6, Zenon DEF OrderInv
<1>8. now <= calls[n].due
  BY <1>6, <1>7, ArrivedIsLive, Zenon
<1>9. CASE n # f.call
  <2>1. Arrived(n, j)'
    BY <1>1, <1>3, <1>4, <1>7, <1>8, <1>9, OtherCallOrder, Zenon
  <2> QED BY <1>1, <2>1, Zenon
<1>10. CASE n = f.call
  <2>1. CASE Duplicate(f)
    <3>1. Arrived(n, j)'
      BY <1>1, <1>7, <1>10, <2>1, DuplicateOrder, Zenon
    <3> QED BY <1>1, <3>1, Zenon
  <2>2. ~ Untrackable(f) /\ ~ PublishFails(f)
    BY <1>10, Zenon DEF Untrackable, PublishFails, Fault
  <2>3. CASE Forward(f)
    BY <1>1, <1>6, <1>7, <1>10, <2>3, ForwardOrder, Zenon
  <2> QED BY <2>1, <2>2, <2>3, Zenon DEF Receive
<1> QED BY <1>9, <1>10, Zenon

\* The facts on order hold when the transport starts: no call was made.
LEMMA OrderStart ==
  ASSUME Init
  PROVE  OrderInv
<1>1. 1..Len(calls) = {}
  BY DEF Init
<1> QED BY <1>1, Zenon DEF OrderInv

\* The facts on order are kept by every step.
LEMMA OrderStep ==
  ASSUME IInv, OrderInv, [Next]_vars
  PROVE  OrderInv'
<1>1. ASSUME NEW cmdu \in Cmdus, CmduTx(cmdu) PROVE OrderInv'
  BY <1>1, CmduTxOrder, Zenon
<1>2. ASSUME NEW end, SendFragment(end) PROVE OrderInv'
  BY <1>2, SendFragmentOrder, Zenon
<1>3. ASSUME NEW end, RefuseTlv(end) \/ WriteFails PROVE OrderInv'
  BY <1>3, CutShortOrder, Zenon
<1>4. CASE Restart
  BY <1>4, RestartOrder, Zenon
<1>5. ASSUME NEW f \in inflight, Receive(f) PROVE OrderInv'
  BY <1>5, ReceiveOrder, Zenon
<1>6. CASE (\E f \in inflight : Lose(f) \/ DuplicateFrame(f)) \/ Tick \/ UNCHANGED vars
  BY <1>6, NetworkOrder, Zenon
<1> QED BY <1>1, <1>2, <1>3, <1>4, <1>5, <1>6, Zenon DEF Next

-----------------------------------------------------------------------------
(* The theorems *)

\* The library is brought in only here, as its theorems would weigh on every leaf above.
\* IsFiniteSet and Cardinality are expanded to join its copy of them with the one above.
USE DEF IsFiniteSet, Cardinality
LOCAL INSTANCE FiniteSetTheorems

\* The laws of finite sets that the lemmas assume hold.
LEMMA FiniteSetLawsHold == FiniteSetLaws
<1>1. \A S, T : IsFiniteSet(S) /\ T \subseteq S => IsFiniteSet(T) /\ Cardinality(T) <= Cardinality(S)
  BY FS_Subset, Zenon
<1>2. \A S : IsFiniteSet(S) => Cardinality(S) \in Nat
  BY FS_CardinalityType, Zenon
<1>3. \A S, x : IsFiniteSet(S) => IsFiniteSet(S \cup {x})
  BY FS_AddElement, Zenon
<1>4. IsFiniteSet({}) /\ Cardinality({}) = 0
  BY FS_EmptySet, Zenon
<1> QED BY <1>1, <1>2, <1>3, <1>4, Zenon DEF FiniteSetLaws, IsFiniteSet, Cardinality

\* The facts on calls, frames, keys, entries and published CMDUs hold at all times.
THEOREM FragmentationInvariance == Spec => []IInv
<1>1. Init => IInv
  BY Start, FiniteSetLawsHold, Zenon
<1>2. IInv /\ [Next]_vars => IInv'
  BY Step, FiniteSetLawsHold, Zenon
<1> QED BY <1>1, <1>2, PTL DEF Spec

\* de_fragment_packet(): the map has at most kMaximumDeFragmentationThreads entries and no
\* buffer is filled to its size, whatever arrives.
THEOREM FragmentationTypeCorrect == Spec => []TypeOK
<1>1. IInv => TypeOK
  BY Zenon DEF IInv
<1> QED BY <1>1, FragmentationInvariance, PTL

\* de_fragment_packet(): each published CMDU is one that tx was given, TLV by TLV, and none
\* is published twice, whatever is lost, duplicated, reordered or cut short.
THEOREM PublishedAsSentHolds == Spec => []PublishedAsSent
<1>1. IInv => PublishedAsSent
  <2> SUFFICES ASSUME IInv, NEW i \in 1..Len(published)
               PROVE  \E n \in 1..Len(calls) :
                        /\ IsCmdu(published[i], n)
                        /\ \A j \in 1..Len(published) : j # i => ~ IsCmdu(published[j], n)
    BY Zenon DEF PublishedAsSent
  <2> QED BY Zenon DEF IInv, PublishedInv
<1> QED BY <1>1, FragmentationInvariance, PTL

\* de_fragment_packet(): of a CMDU that no fault or limit hit and that is not published yet,
\* the fragments up to some point have arrived and are collected, and the others are on
\* their way and will be accepted.
THEOREM OrderInvariance == Spec => [](IInv /\ OrderInv)
<1>1. Init => IInv /\ OrderInv
  BY Start, OrderStart, FiniteSetLawsHold, Zenon
<1>2. IInv /\ OrderInv /\ [Next]_vars => (IInv /\ OrderInv)'
  BY Step, OrderStep, FiniteSetLawsHold, Zenon
<1> QED BY <1>1, <1>2, PTL DEF Spec

\* A CMDU whose last fragment was sent, whose fragments arrived in order and which no fault
\* or limit hit, is published once its frames have left the network.
THEOREM InOrderIsPublishedHolds == Spec => []InOrderIsPublished
<1>1. IInv /\ OrderInv => InOrderIsPublished
  <2> SUFFICES ASSUME IInv, OrderInv, NEW n \in 1..Len(calls), calls[n].last, n \notin disturbed,
                      \A f \in inflight : f.call # n, ~ IsPublished(n)
               PROVE  FALSE
    BY Zenon DEF InOrderIsPublished, IsPublished
  <2>1. PICK j \in 0..Len(calls[n].cuts) : Arrived(n, j)
    BY Zenon DEF OrderInv, Whole
  <2>2. Len(calls[n].cuts) \in Nat
    BY CallsType, CallType, Zenon DEF IInv
  <2>3. j \in j..(Len(calls[n].cuts) - 1)
    BY <2>1, <2>2 DEF Arrived
  <2> QED BY <2>1, <2>3, Zenon DEF Arrived
<1> QED BY <1>1, OrderInvariance, PTL

=============================================================================
