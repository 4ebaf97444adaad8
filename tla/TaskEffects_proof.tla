------------------------- MODULE TaskEffects_proof --------------------------
(***************************************************************************)
(* What the execution of a task of StationTasks may do, for every kind of  *)
(* task and every state of it, and what the handlers do to the pool: the   *)
(* lemmas on which StationTasks_proof rests, and its inductive invariant,  *)
(* which the handlers preserve.                                            *)
(***************************************************************************)
EXTENDS StationTasks, TLAPS

IsTask(t) ==
  /\ DOMAIN t = {"kind", "sta", "state", "done"}
  /\ t.kind \in Kinds /\ t.sta \in Stations /\ t.done \in BOOLEAN

\* A wait and the data of a roaming task keep their fields.
IsWait(w) == DOMAIN w = DOMAIN NoWait
IsRoamingData(d) == DOMAIN d = DOMAIN RoamingData /\ IsWait(d.wait)

\* The fields of a steering task that tell where it goes and whether it came there.
IsSteeringData(d) == {"wait", "target", "success"} \subseteq DOMAIN d

\* What a task has when it is created.
FreshData(kind, d) ==
  /\ d.wait = NoWait
  /\ kind \in {"association", "roaming"} => d.asked = EmptyBag
  /\ kind = "roaming" => d = RoamingData
  /\ kind = "steering" => IsSteeringData(d)

PoolInv ==
  /\ nextId \in Nat \ {0}
  /\ DOMAIN pool \subseteq 1..(nextId - 1)
  /\ DOMAIN data = DOMAIN pool
  /\ \A i \in DOMAIN pool : IsTask(pool[i])
  /\ cursor \in 0..(nextId - 1)
  /\ owner \in [Stations -> [Kinds -> {-1} \cup 1..(nextId - 1)]]
  /\ handoff \in [Stations -> BOOLEAN]

\* A task that has not begun is as it was created, and this iteration of the
\* pool has not come to it.
FreshInv ==
  \A i \in DOMAIN pool :
    ~Begun(i) => /\ ~pool[i].done /\ i > cursor
                 /\ data[i].wait = NoWait
                 /\ pool[i].kind \in {"association", "roaming"} => data[i].asked = EmptyBag

\* A task at work is entered in its station, and what is entered in a slot has
\* begun and belongs there.
OwnerInv ==
  /\ \A i \in DOMAIN pool : Active(i) => owner[pool[i].sta][pool[i].kind] = i
  /\ \A s \in Stations, k \in Kinds :
       owner[s][k] \in DOMAIN pool =>
         LET o == owner[s][k] IN pool[o].sta = s /\ pool[o].kind = k /\ Begun(o)

\* A roaming task waits for the end of steering tasks only.
HeirInv ==
  \A i \in DOMAIN pool : pool[i].kind = "roaming" =>
    /\ IsRoamingData(data[i])
    /\ data[i].wait.task \in 0..(nextId - 1)
    /\ data[i].wait.task \in DOMAIN pool => pool[data[i].wait.task].kind = "steering"

IInv == PoolInv /\ FreshInv /\ OwnerInv /\ HeirInv /\ HandoffHasOwner

-----------------------------------------------------------------------------
(* What the execution of a task may do. *)

GoodNew(s, k, new) ==
  \/ new = NoTask
  \/ /\ new.kind = "steering" /\ k = "roaming" /\ new.sta = s
     /\ FreshData("steering", new.data)
  \/ /\ new.kind = "roaming" /\ k = "association" /\ new.sta = s
     /\ FreshData("roaming", new.data)

\* An outcome is counted by a task that ends, either at work or together with
\* its attempt; a steering task that comes to be at work counts an attempt.
GoodCounts(id, e) ==
  /\ \/ e.counts = {} \/ e.counts = {"attempts"}
     \/ e.counts = {"attempts", "failures"} /\ e.done
     \/ e.counts \in {{"successes"}, {"failures"}} /\ e.done /\ Active(id)
  /\ e.counts # {} => pool[id].kind \in Steerers
  /\ e.takes /\ ~e.done /\ pool[id].kind \in Steerers => e.counts = {"attempts"}

GoodEffect(id, e) ==
  LET s == pool[id].sta
      k == pool[id].kind
  IN /\ e.done \in BOOLEAN /\ e.takes \in BOOLEAN
     /\ GoodNew(s, k, e.new) /\ GoodCounts(id, e)
     /\ e.kills = {} \/ /\ e.kills = {owner[s]["roaming"]}
                        /\ k = "association" /\ e.new = NoTask /\ ~e.takes
     /\ e.takes => ~Begun(id)
     /\ ~Begun(id) => e.done \/ (e.takes /\ e.state # First(k))
     /\ Begun(id) => e.state # First(k)
     /\ e.flag = "set" => e.takes /\ ~e.done /\ k \in Steerers
     /\ k = "roaming" =>
          /\ IsRoamingData(e.data)
          /\ \/ e.data.wait.task = data[id].wait.task
             \/ e.data.wait.task = 0
             \/ e.data.wait.task = nextId /\ e.new.kind = "steering"

\* A work() is called with the data of the task, its waits cleared.
Cleared(id, d) ==
  pool[id].kind = "roaming" =>
    IsRoamingData(d) /\ d.wait.task = data[id].wait.task

\* The first states of the kinds.
LEMMA FirstStates ==
  /\ First("steering") = "STEER" /\ First("btm") = "SEND_BTM_REQUEST"
  /\ First("association") = "START" /\ First("roaming") = "START"
BY Zenon DEF First

\* The four forms of most effects.  Finishing is good from every state.
LEMMA FinishEffect ==
  ASSUME NEW id \in DOMAIN pool, NEW d, IsTask(pool[id]), Cleared(id, d)
  PROVE  GoodEffect(id, Finishes(id, d))
BY Zenon DEF IsTask, Cleared, Begun, GoodEffect, GoodNew, GoodCounts, Finishes, Ending, Moves

\* Going on to a later state has a good effect.
LEMMA MoveEffect ==
  ASSUME NEW id \in DOMAIN pool, NEW d, NEW st, IsTask(pool[id]), Cleared(id, d),
         Begun(id), st # First(pool[id].kind)
  PROVE  GoodEffect(id, Moves(st, d))
BY Zenon DEF IsTask, Cleared, Begun, GoodEffect, GoodNew, GoodCounts, Moves

\* Taking up the slot and going on has one, but for a steering, which counts.
LEMMA TakeEffect ==
  ASSUME NEW id \in DOMAIN pool, NEW d, NEW st, IsTask(pool[id]), Cleared(id, d),
         ~Begun(id), st # First(pool[id].kind), pool[id].kind \notin Steerers
  PROVE  GoodEffect(id, Taking(Moves(st, d)))
BY Zenon DEF IsTask, Cleared, Begun, GoodEffect, GoodNew, GoodCounts, Taking, Moves

\* Taking up the slot and finishing at once has one.
LEMMA TakeFinishEffect ==
  ASSUME NEW id \in DOMAIN pool, NEW d, IsTask(pool[id]), Cleared(id, d), ~Begun(id)
  PROVE  GoodEffect(id, Taking(Finishes(id, d)))
BY Zenon DEF IsTask, Cleared, Begun, GoodEffect, GoodNew, GoodCounts, Taking, Finishes, Ending, Moves

\* client_steering_task::work: every effect is good.
LEMMA SteeringEffects ==
  ASSUME NEW id \in DOMAIN pool, NEW d, IsTask(pool[id]), ~pool[id].done,
         pool[id].kind = "steering",
         NEW e \in SteeringWork(id, d)
  PROVE  GoodEffect(id, e)
<1> USE FirstStates DEF IsTask, Begun, GoodEffect, GoodNew, GoodCounts, Active, Steerers
<1>1. PICK resolved \in BOOLEAN :
        e = IF pool[id].state = "STEER" THEN Steer(id, d, resolved)
            ELSE SteeringFinalize(id, d, resolved)
  BY Zenon DEF SteeringWork
<1>2. CASE pool[id].state = "STEER"
  <2> DEFINE v == station[pool[id].sta]
             sent == [d EXCEPT !.tryPerformed = ~v.bSta]
             asked == [sent EXCEPT !.wait =
                         wait_for_events(@, {"STA_DISCONNECTED", "STA_CONNECTED"})]
  <2> HIDE DEF v, sent, asked
  <2>1. \/ e = Counting(Taking(Finishes(id, d)), {"attempts", "failures"})
        \/ e = Counting(Taking(Finishes(id, d)), {"attempts"})
        \/ e = Counting(Taking(Ending(Moves("FINALIZE", sent))), {"attempts"})
        \/ e = [Counting(Taking(Moves("FINALIZE", asked)), {"attempts"}) EXCEPT
                  !.flag = IF v.bSta THEN "keep" ELSE "set"]
    BY <1>1, <1>2, Zenon DEF Steer, v, sent, asked
  <2>2. ASSUME NEW cs, cs \in {{"attempts"}, {"attempts", "failures"}},
               e = Counting(Taking(Finishes(id, d)), cs)
        PROVE  GoodEffect(id, e)
    BY <1>2, <2>2, Zenon DEF Counting, Taking, Finishes, Ending, Moves
  <2>3. CASE e = Counting(Taking(Ending(Moves("FINALIZE", sent))), {"attempts"})
    BY <1>2, <2>3, Zenon DEF Counting, Taking, Ending, Moves
  <2>4. CASE e = [Counting(Taking(Moves("FINALIZE", asked)), {"attempts"}) EXCEPT
                  !.flag = IF v.bSta THEN "keep" ELSE "set"]
    BY <1>2, <2>4, Zenon DEF Counting, Taking, Ending, Moves
  <2> QED
    BY <2>1, <2>2, <2>3, <2>4, Zenon
<1>3. CASE pool[id].state # "STEER"
  BY <1>1, <1>3, Zenon DEF SteeringFinalize, Outcome, Counting, Finishes, Ending, Moves
<1> QED
  BY <1>2, <1>3, Zenon

\* btm_request_task::work: every effect is good.
LEMMA BtmEffects ==
  ASSUME NEW id \in DOMAIN pool, NEW d, IsTask(pool[id]), ~pool[id].done,
         pool[id].kind = "btm",
         NEW e \in BtmWork(id, d)
  PROVE  GoodEffect(id, e)
<1> USE FirstStates DEF IsTask, Begun, GoodEffect, GoodNew, GoodCounts, Active, Steerers
<1>1. PICK resolved \in BOOLEAN :
        e = IF pool[id].state = "SEND_BTM_REQUEST" THEN SendBtmRequest(id, d, resolved)
            ELSE BtmFinalize(id, d)
  BY Zenon DEF BtmWork
<1>2. CASE pool[id].state = "SEND_BTM_REQUEST"
  <2> DEFINE asked == [d EXCEPT !.wait =
                         wait_for_events(@, {"STA_CONNECTED", "BTM_REPORT_RECEIVED"})]
  <2> HIDE DEF asked
  <2>1. \/ e = Finishes(id, d)
        \/ e = Taking(Finishes(id, d))
        \/ e = [Counting(Taking(Moves("FINALIZE", asked)), {"attempts"})
                  EXCEPT !.flag = "set"]
    BY <1>1, <1>2, Zenon DEF SendBtmRequest, asked
  <2>2. CASE e = Finishes(id, d)
    BY <1>2, <2>2, Zenon DEF Finishes, Ending, Moves
  <2>3. CASE e = Taking(Finishes(id, d))
    BY <1>2, <2>3, Zenon DEF Taking, Finishes, Ending, Moves
  <2>4. CASE e = [Counting(Taking(Moves("FINALIZE", asked)), {"attempts"})
                  EXCEPT !.flag = "set"]
    BY <1>2, <2>4, Zenon DEF Counting, Taking, Ending, Moves
  <2> QED
    BY <2>1, <2>2, <2>3, <2>4, Zenon
<1>3. CASE pool[id].state # "SEND_BTM_REQUEST"
  BY <1>1, <1>3, Zenon DEF BtmFinalize, Outcome, Counting, Finishes, Ending, Moves
<1> QED
  BY <1>2, <1>3, Zenon

\* association_handling_task::finalize_new_connection has good effects.
LEMMA FinalizedEffect ==
  ASSUME NEW id \in DOMAIN pool, NEW d, IsTask(pool[id]),
         pool[id].kind = "association", Begun(id)
  PROVE  GoodEffect(id, Finalized(id, d))
<1> USE FirstStates DEF IsTask, Begun, GoodEffect, GoodNew, GoodCounts, Active, Steerers
<1> DEFINE s == pool[id].sta
           e == Finishes(id, d)
<1>1. \/ Finalized(id, d) = [e EXCEPT !.kills = {owner[s]["roaming"]}, !.flag = "clear"]
      \/ Finalized(id, d) = [e EXCEPT !.new = NewTask("roaming", s, RoamingData)]
      \/ Finalized(id, d) = e
  BY Zenon DEF Finalized
<1>2. ASSUME NEW f, f = [e EXCEPT !.kills = {owner[s]["roaming"]}, !.flag = "clear"]
      PROVE  GoodEffect(id, f)
  BY <1>2, Zenon DEF Finishes, Ending, Moves
<1>3. ASSUME NEW f, f = [e EXCEPT !.new = NewTask("roaming", s, RoamingData)]
      PROVE  GoodEffect(id, f)
  <2>1. FreshData("roaming", RoamingData)
    BY Zenon DEF FreshData, RoamingData
  <2> QED
    BY <1>3, <2>1, Zenon DEF Finishes, Ending, Moves, NewTask
<1>4. GoodEffect(id, e)
  BY Zenon DEF Finishes, Ending, Moves
<1> QED
  BY <1>1, <1>2, <1>3, <1>4, Zenon

\* association_handling_task::work: every effect is good.
LEMMA AssociationEffects ==
  ASSUME NEW id \in DOMAIN pool, NEW d, IsTask(pool[id]), ~pool[id].done,
         pool[id].kind = "association"
  PROVE  GoodEffect(id, AssociationWork(id, d))
<1>0. \A n : Cleared(id, n)
  BY Zenon DEF Cleared
<1>1. \A n : GoodEffect(id, Finishes(id, n))
  BY <1>0, FinishEffect, Zenon
<1>2. CASE pool[id].state = "START"
  <2>1. AssociationWork(id, d) = AssociationStart(id, d)
    BY <1>2, Zenon DEF AssociationWork
  <2>2. \A st, n : st # "START" => GoodEffect(id, Taking(Moves(st, n)))
    BY <1>0, <1>2, TakeEffect, FirstStates, Zenon DEF Begun, Steerers
  <2> QED
    BY <1>1, <2>1, <2>2, Zenon DEF AssociationStart
<1>3. CASE pool[id].state # "START"
  <2>1. \A st, n : st # "START" => GoodEffect(id, Moves(st, n))
    BY <1>0, <1>3, MoveEffect, FirstStates, Zenon DEF Begun
  <2>2. GoodEffect(id, Finalized(id, d))
    BY <1>3, FinalizedEffect, FirstStates, Zenon DEF Begun
  <2> QED
    BY <1>1, <1>3, <2>1, <2>2, Zenon DEF AssociationWork
<1> QED
  BY <1>2, <1>3, Zenon

\* association_handling_task::handle_responses_timeout: every effect is good.
LEMMA AssociationTimeoutEffect ==
  ASSUME NEW id \in DOMAIN pool, NEW d, IsTask(pool[id]), Begun(id),
         pool[id].kind = "association"
  PROVE  GoodEffect(id, AssociationTimeout(id, d))
<1>0. \A n : Cleared(id, n)
  BY Zenon DEF Cleared
<1>1. \A n : GoodEffect(id, Finishes(id, n)) /\ GoodEffect(id, Finalized(id, n))
  BY <1>0, FinishEffect, FinalizedEffect, Zenon
<1>2. pool[id].state # "START"
  BY FirstStates, Zenon DEF Begun
<1>3. \A st, n : st # "START" => GoodEffect(id, Moves(st, n))
  BY <1>0, MoveEffect, FirstStates, Zenon
<1>4. ASSUME NEW n
      PROVE  GoodEffect(id, [Moves("REQUEST_RSSI_MEASUREMENT_WAIT", n) EXCEPT !.beacon = "no"])
  <2> DEFINE f == [Moves("REQUEST_RSSI_MEASUREMENT_WAIT", n) EXCEPT !.beacon = "no"]
  <2>1. /\ f.state = "REQUEST_RSSI_MEASUREMENT_WAIT" /\ f.done = FALSE /\ f.takes = FALSE
        /\ f.kills = {} /\ f.new = NoTask /\ f.flag = "keep" /\ f.counts = {}
    BY Zenon DEF Moves
  <2> HIDE DEF f
  <2>2. GoodEffect(id, f)
    BY <2>1, FirstStates, Zenon DEF GoodEffect, GoodNew, GoodCounts
  <2> QED
    BY <2>2, Zenon DEF f
<1> QED
  BY <1>1, <1>2, <1>3, <1>4, Zenon DEF AssociationTimeout

-----------------------------------------------------------------------------
(* optimal_path_task::work, state by state. *)

\* The updates of a wait keep its fields and the task it waits for, except
\* wait_for_task_end.
LEMMA DelayWait ==
  ASSUME NEW w, IsWait(w)
  PROVE  IsWait(wait_for(w)) /\ wait_for(w).task = w.task
BY Zenon DEF IsWait, NoWait, wait_for

\* task::set_responses_timeout leaves the task waited for.
LEMMA TimeoutWait ==
  ASSUME NEW w, IsWait(w)
  PROVE  IsWait(set_responses_timeout(w)) /\ set_responses_timeout(w).task = w.task
BY Zenon DEF IsWait, NoWait, set_responses_timeout

\* task::add_pending_mac leaves the task waited for.
LEMMA PendingWait ==
  ASSUME NEW w, NEW entries, IsWait(w)
  PROVE  /\ IsWait(add_pending_macs(w, entries))
         /\ add_pending_macs(w, entries).task = w.task
BY Zenon DEF IsWait, NoWait, add_pending_macs

\* task::wait_for_task_end replaces the task waited for, and nothing else.
LEMMA TaskWait ==
  ASSUME NEW w, NEW n, IsWait(w)
  PROVE  IsWait(wait_for_task_end(w, n)) /\ wait_for_task_end(w, n).task = n
BY Zenon DEF IsWait, NoWait, wait_for_task_end

\* task::response_received leaves the task waited for.
LEMMA AnsweredWait ==
  ASSUME NEW w, NEW mac, NEW op, IsWait(w)
  PROVE  IsWait(Answered(w, mac, op)) /\ Answered(w, mac, op).task = w.task
BY Zenon DEF IsWait, NoWait, Answered

\* task::execute clears timers and answers, never the task waited for.
LEMMA ExecutedWait ==
  ASSUME NEW w, NEW late \in BOOLEAN, IsWait(w)
  PROVE  IsWait(AfterWaiting(w, late)) /\ AfterWaiting(w, late).task = w.task
BY Zenon DEF IsWait, NoWait, AfterWaiting

\* A new wait in the data of a roaming task.
LEMMA NewWait ==
  ASSUME NEW d, NEW w, IsRoamingData(d), IsWait(w)
  PROVE  IsRoamingData([d EXCEPT !.wait = w]) /\ [d EXCEPT !.wait = w].wait = w
BY Zenon DEF IsRoamingData, RoamingData

\* optimal_path_task::work, START: every effect is good.
LEMMA StartEffects ==
  ASSUME NEW id \in DOMAIN pool, NEW d, IsTask(pool[id]), Cleared(id, d),
         pool[id].kind = "roaming", pool[id].state = "START",
         NEW e \in RoamingStart(id, d)
  PROVE  GoodEffect(id, e)
<1> DEFINE v == station[pool[id].sta]
           n == [d EXCEPT !.vap = v.parent, !.client = ~v.bSta, !.delays = 0]
           w == [n EXCEPT !.wait = wait_for(@)]
<1>0. ~Begun(id) /\ First(pool[id].kind) = "START" /\ pool[id].kind \notin Steerers
  BY FirstStates, Zenon DEF Begun, Steerers
<1>1. Cleared(id, n)
  BY Zenon DEF Cleared, IsRoamingData, RoamingData
<1>2. Cleared(id, w)
  <2> HIDE DEF n
  <2>1. IsRoamingData(n) /\ IsWait(n.wait) /\ n.wait.task = data[id].wait.task
    BY <1>1, Zenon DEF Cleared, IsRoamingData
  <2>2. IsWait(wait_for(n.wait)) /\ wait_for(n.wait).task = n.wait.task
    BY <2>1, DelayWait, Zenon
  <2>3. IsRoamingData(w) /\ w.wait = wait_for(n.wait)
    BY <2>1, <2>2, NewWait, Zenon
  <2> QED
    BY <2>1, <2>2, <2>3, Zenon DEF Cleared
<1>3. \/ e = Finishes(id, d)
      \/ e = Taking(Finishes(id, n))
      \/ e = Taking(Moves("FILL_POTENTIAL_AP_LIST_11K", w))
      \/ e = Taking(Moves("FILL_POTENTIAL_AP_LIST_CROSS", w))
  BY Zenon DEF RoamingStart
<1> HIDE DEF n, w
<1> QED
  BY <1>0, <1>1, <1>2, <1>3, FinishEffect, TakeFinishEffect, TakeEffect, Zenon

\* SEND_STEER_ACTION with its candidate, from wherever it is chosen.
LEMMA SteerToEffect ==
  ASSUME NEW id \in DOMAIN pool, NEW d, IsTask(pool[id]), Cleared(id, d),
         pool[id].kind = "roaming", Begun(id), NEW b, NEW f
  PROVE  GoodEffect(id, SteerTo(d, b, f))
<1> DEFINE n == [d EXCEPT !.chosen = b, !.force = @ \/ f]
<1>1. Cleared(id, n)
  BY Zenon DEF Cleared, IsRoamingData, RoamingData
<1>2. SteerTo(d, b, f) = Moves("SEND_STEER_ACTION", n)
  BY Zenon DEF SteerTo
<1> HIDE DEF n
<1> QED
  BY <1>1, <1>2, MoveEffect, FirstStates, Zenon

\* optimal_path_task::work, FILL_POTENTIAL_AP_LIST_11K: every effect is good.
LEMMA Fill11kEffects ==
  ASSUME NEW id \in DOMAIN pool, NEW d, IsTask(pool[id]), Cleared(id, d),
         pool[id].kind = "roaming", Begun(id), NEW e \in RoamingFill11k(id, d)
  PROVE  GoodEffect(id, e)
<1>1. \/ e = Finishes(id, d)
      \/ \E b : e = SteerTo(d, b, TRUE)
      \/ \E S : e = Moves("REQUEST_11K_MEASUREMENTS_BY_BSSID", [d EXCEPT !.aps = S, !.left = S])
  BY Zenon DEF RoamingFill11k
<1>2. ASSUME NEW S, e = Moves("REQUEST_11K_MEASUREMENTS_BY_BSSID", [d EXCEPT !.aps = S, !.left = S])
      PROVE  GoodEffect(id, e)
  <2> DEFINE n == [d EXCEPT !.aps = S, !.left = S]
  <2>1. Cleared(id, n)
    BY Zenon DEF Cleared, IsRoamingData, RoamingData
  <2>2. e = Moves("REQUEST_11K_MEASUREMENTS_BY_BSSID", n)
    BY <1>2, Zenon
  <2> HIDE DEF n
  <2> QED
    BY <2>1, <2>2, MoveEffect, FirstStates, Zenon
<1> QED
  BY <1>1, <1>2, FinishEffect, SteerToEffect, Zenon

\* optimal_path_task::work, REQUEST_11K_MEASUREMENTS_BY_BSSID: every effect is good.
LEMMA Request11kEffects ==
  ASSUME NEW id \in DOMAIN pool, NEW d, IsTask(pool[id]), Cleared(id, d),
         pool[id].kind = "roaming", Begun(id), NEW e \in RoamingRequest11k(id, d)
  PROVE  GoodEffect(id, e)
<1> DEFINE n == StartOver(d)
<1> HIDE DEF n
<1>1. \/ e = Moves("FIND_AND_PICK_HOSTAP_11K", d)
      \/ e = Moves("FIND_AND_PICK_HOSTAP_11K", n)
      \/ e = Moves(pool[id].state, [n EXCEPT !.left = {}])
      \/ \E a, V : e = Moves(pool[id].state, RequestBeacon(n, a, V))
  BY DEF RoamingRequest11k, n
<1>2. pool[id].state # First(pool[id].kind) /\ First(pool[id].kind) = "START"
  BY FirstStates, Zenon DEF Begun
<1>3. Cleared(id, n)
  BY Zenon DEF n, StartOver, Cleared, IsRoamingData, RoamingData
<1>4. Cleared(id, [n EXCEPT !.left = {}])
  BY <1>3, Zenon DEF Cleared, IsRoamingData, RoamingData
<1>5. ASSUME NEW a, NEW V
      PROVE  Cleared(id, RequestBeacon(n, a, V))
  <2> DEFINE u == add_pending_macs(n.wait, {<<n.vap, "BEACON">>})
             w == set_responses_timeout(u)
             l == n.left \ ({a} \cup V)
             q == n.asked (+) SetToBag({Request(n.vap, "BEACON", a)})
  <2>1. IsWait(n.wait)
    BY <1>3, Zenon DEF Cleared, IsRoamingData
  <2>2. IsWait(u) /\ u.task = n.wait.task
    BY <2>1, PendingWait, Zenon
  <2>3. RequestBeacon(n, a, V) = [n EXCEPT !.left = l, !.asked = q, !.wait = w]
    BY Zenon DEF RequestBeacon
  <2> HIDE DEF u
  <2>4. IsWait(w) /\ w.task = n.wait.task
    BY <2>2, TimeoutWait, Zenon
  <2> HIDE DEF w, l, q
  <2> QED
    BY <1>3, <2>3, <2>4, Zenon DEF Cleared, IsRoamingData, RoamingData
<1>6. CASE e = Moves(pool[id].state, [n EXCEPT !.left = {}])
  BY <1>2, <1>4, <1>6, MoveEffect, Zenon
<1> QED
  BY <1>1, <1>2, <1>3, <1>5, <1>6, MoveEffect, Zenon

\* optimal_path_task::work, FIND_AND_PICK_HOSTAP_11K: every effect is good.
LEMMA Pick11kEffects ==
  ASSUME NEW id \in DOMAIN pool, NEW d, IsTask(pool[id]), Cleared(id, d),
         pool[id].kind = "roaming", Begun(id), NEW e \in RoamingPick11k(id, d)
  PROVE  GoodEffect(id, e)
<1>1. \/ e = Finishes(id, d)
      \/ e = Moves("FILL_POTENTIAL_AP_LIST_CROSS", d)
      \/ \E b : e = SteerTo(d, b, FALSE)
  BY Zenon DEF RoamingPick11k
<1> QED
  BY <1>1, FinishEffect, MoveEffect, SteerToEffect, FirstStates, Zenon

\* optimal_path_task::work, FILL_POTENTIAL_AP_LIST_CROSS: every effect is good.
LEMMA FillCrossEffects ==
  ASSUME NEW id \in DOMAIN pool, NEW d, IsTask(pool[id]), Cleared(id, d),
         pool[id].kind = "roaming", Begun(id), NEW e \in RoamingFillCross(id, d)
  PROVE  GoodEffect(id, e)
<1>1. PICK S : e = Moves("REQUEST_CROSS_RSSI_MEASUREMENTS", [d EXCEPT !.hostaps = S])
  BY Zenon DEF RoamingFillCross
<1> DEFINE n == [d EXCEPT !.hostaps = S]
<1>2. Cleared(id, n)
  BY Zenon DEF Cleared, IsRoamingData, RoamingData
<1>3. e = Moves("REQUEST_CROSS_RSSI_MEASUREMENTS", n)
  BY <1>1, Zenon
<1> HIDE DEF n
<1> QED
  BY <1>2, <1>3, MoveEffect, FirstStates, Zenon

\* optimal_path_task::work, REQUEST_CROSS_RSSI_MEASUREMENTS: every effect is good.
LEMMA RequestCrossEffects ==
  ASSUME NEW id \in DOMAIN pool, NEW d, IsTask(pool[id]), Cleared(id, d),
         pool[id].kind = "roaming", Begun(id), NEW e \in RoamingRequestCross(id, d)
  PROVE  GoodEffect(id, e)
<1>1. PICK ops : e = Moves("FIND_AND_PICK_HOSTAP_CROSS", RequestCross(d, ops))
  BY Zenon DEF RoamingRequestCross
<1> DEFINE q == d.asked (+) SetToBag({Request(d.vap, op, d.vap) : op \in ops})
           u == add_pending_macs(d.wait, {<<d.vap, op>> : op \in ops})
           w == set_responses_timeout(u)
<1>2. RequestCross(d, ops) = [d EXCEPT !.asked = q, !.wait = w]
  BY Zenon DEF RequestCross
<1> HIDE DEF q
<1>3. IsWait(u) /\ u.task = d.wait.task
  BY PendingWait, Zenon DEF Cleared, IsRoamingData
<1> HIDE DEF u
<1>4. IsWait(w) /\ w.task = d.wait.task
  BY <1>3, TimeoutWait, Zenon
<1> HIDE DEF w
<1>5. Cleared(id, RequestCross(d, ops))
  BY <1>2, <1>4, Zenon DEF Cleared, IsRoamingData, RoamingData
<1> QED
  BY <1>1, <1>5, MoveEffect, FirstStates, Zenon

\* optimal_path_task::work, FIND_AND_PICK_HOSTAP_CROSS: every effect is good.
LEMMA PickCrossEffects ==
  ASSUME NEW id \in DOMAIN pool, NEW d, IsTask(pool[id]), Cleared(id, d),
         pool[id].kind = "roaming", Begun(id), NEW e \in RoamingPickCross(id, d)
  PROVE  GoodEffect(id, e)
<1> DEFINE N(x) == [d EXCEPT !.delays = x]
<1>1. \A x : Cleared(id, N(x))
  BY Zenon DEF Cleared, IsRoamingData, RoamingData
<1>2. \/ e = Finishes(id, d)
      \/ \E b, f : e = SteerTo(d, b, f)
      \/ \E x : e = Moves("REQUEST_CROSS_RSSI_MEASUREMENTS", N(x))
      \/ e = Finishes(id, N(0))
      \/ \E b, f : e = SteerTo(N(0), b, f)
  <2>1. CASE d.hostaps = {}
    BY <2>1 DEF RoamingPickCross
  <2>2. CASE d.hostaps # {}
    <3> DEFINE delays == d.delays + 1
    <3>1. \/ e = Moves("REQUEST_CROSS_RSSI_MEASUREMENTS", N(delays))
          \/ e = Finishes(id, N(0))
          \/ \E b, f : e = SteerTo(N(0), b, f)
      BY <2>2 DEF RoamingPickCross
    <3> QED
      BY <3>1, Zenon
  <2> QED
    BY <2>1, <2>2, Zenon
<1> HIDE DEF N
<1> QED
  BY <1>1, <1>2, FinishEffect, MoveEffect, SteerToEffect, FirstStates, Zenon

\* optimal_path_task::work, SEND_STEER_ACTION: every effect is good.
LEMMA SteerActionEffects ==
  ASSUME NEW id \in DOMAIN pool, NEW d, IsTask(pool[id]), Cleared(id, d),
         pool[id].kind = "roaming", Begun(id), NEW e \in RoamingSteer(id, d)
  PROVE  GoodEffect(id, e)
<1> DEFINE W(n) == [d EXCEPT !.wait = wait_for_task_end(@, n)]
           t(imminent) == NewTask("steering", pool[id].sta,
                                  SteeringData(d.chosen, imminent, FALSE))
<1>1. \A n : IsRoamingData(W(n)) /\ W(n).wait.task = n
  <2> TAKE n
  <2> DEFINE w == wait_for_task_end(d.wait, n)
  <2>1. IsWait(w) /\ w.task = n
    BY TaskWait, Zenon DEF Cleared, IsRoamingData
  <2>2. W(n) = [d EXCEPT !.wait = w]
    BY Zenon
  <2> HIDE DEF w, W
  <2> QED
    BY <2>1, <2>2, NewWait DEF Cleared
<1>2. \/ \E imminent \in BOOLEAN :
           e = [Moves("WAIT_FOR_HANDOVER", W(nextId)) EXCEPT !.new = t(imminent)]
      \/ e = Moves("WAIT_FOR_HANDOVER", W(0))
  BY Zenon DEF RoamingSteer
<1>3. First(pool[id].kind) = "START"
  BY FirstStates, Zenon
<1>4. \A imminent : /\ t(imminent).kind = "steering" /\ t(imminent).sta = pool[id].sta
                    /\ FreshData("steering", t(imminent).data)
  BY Zenon DEF NewTask, SteeringData, FreshData, IsSteeringData
<1> HIDE DEF W, t
<1>5. ASSUME NEW imminent \in BOOLEAN,
             e = [Moves("WAIT_FOR_HANDOVER", W(nextId)) EXCEPT !.new = t(imminent)]
      PROVE  GoodEffect(id, e)
  <2>1. /\ e.state = "WAIT_FOR_HANDOVER" /\ e.done = FALSE /\ e.takes = FALSE
        /\ e.kills = {} /\ e.flag = "keep" /\ e.counts = {}
        /\ e.new = t(imminent) /\ e.data = W(nextId)
    BY <1>5, Zenon DEF Moves
  <2>2. IsRoamingData(e.data) /\ e.data.wait.task = nextId
    BY <1>1, <2>1, Zenon
  <2>3. e.new.kind = "steering" /\ GoodNew(pool[id].sta, pool[id].kind, e.new)
    BY <1>4, <2>1, Zenon DEF GoodNew
  <2>4. GoodCounts(id, e)
    BY <2>1, Zenon DEF GoodCounts
  <2> QED
    BY <1>3, <2>1, <2>2, <2>3, <2>4, Zenon DEF GoodEffect
<1>6. CASE e = Moves("WAIT_FOR_HANDOVER", W(0))
  <2>1. /\ e.state = "WAIT_FOR_HANDOVER" /\ e.done = FALSE /\ e.takes = FALSE
        /\ e.kills = {} /\ e.flag = "keep" /\ e.counts = {}
        /\ e.new = NoTask /\ e.data = W(0)
    BY <1>6, Zenon DEF Moves
  <2> QED
    BY <1>1, <1>3, <2>1, Zenon DEF GoodEffect, GoodNew, GoodCounts
<1> QED
  BY <1>2, <1>5, <1>6, Zenon

\* optimal_path_task::work as a whole: every effect is good.
LEMMA RoamingEffects ==
  ASSUME NEW id \in DOMAIN pool, NEW d, IsTask(pool[id]), Cleared(id, d),
         pool[id].kind = "roaming", NEW e \in RoamingWork(id, d)
  PROVE  GoodEffect(id, e)
<1>1. CASE pool[id].state = "START"
  <2>1. e = Finishes(id, d) \/ e \in RoamingStart(id, d)
    BY <1>1, Zenon DEF RoamingWork
  <2> QED
    BY <1>1, <2>1, FinishEffect, StartEffects, Zenon
<1>2. CASE pool[id].state # "START"
  <2>1. Begun(id)
    BY <1>2, FirstStates, Zenon DEF Begun
  <2>2. \/ e = Finishes(id, d) \/ e \in RoamingSteer(id, d)
        \/ e \in RoamingFill11k(id, d) \/ e \in RoamingRequest11k(id, d)
        \/ e \in RoamingPick11k(id, d) \/ e \in RoamingFillCross(id, d)
        \/ e \in RoamingRequestCross(id, d) \/ e \in RoamingPickCross(id, d)
    BY <1>2, Zenon DEF RoamingWork
  <2> QED
    BY <2>1, <2>2, FinishEffect, SteerActionEffects, Fill11kEffects, Request11kEffects,
       Pick11kEffects, FillCrossEffects, RequestCrossEffects, PickCrossEffects, Zenon
<1> QED
  BY <1>1, <1>2, Zenon

\* optimal_path_task::handle_responses_timeout: every effect is good.
LEMMA RoamingTimeoutEffect ==
  ASSUME NEW id \in DOMAIN pool, NEW d, NEW macs, IsTask(pool[id]), Cleared(id, d),
         pool[id].kind = "roaming", Begun(id)
  PROVE  GoodEffect(id, RoamingTimeout(id, d, macs))
<1> DEFINE n == [d EXCEPT !.hostaps = @ \ macs]
<1>1. Cleared(id, n)
  BY Zenon DEF Cleared, IsRoamingData, RoamingData
<1>2. RoamingTimeout(id, d, macs) \in {Moves(pool[id].state, n), Moves(pool[id].state, d)}
  BY Zenon DEF RoamingTimeout
<1> HIDE DEF n
<1> QED
  BY <1>1, <1>2, MoveEffect, Zenon DEF Begun

\* task::execute: whatever it does is a good effect.
LEMMA ExecutionEffects ==
  ASSUME PoolInv, FreshInv, HeirInv, NEW id \in DOMAIN pool, NEW late \in BOOLEAN,
         NEW e \in Executions(id, late)
  PROVE  GoodEffect(id, e)
<1> DEFINE w == data[id].wait
           n == AfterWaiting(w, late)
           d == [data[id] EXCEPT !.wait = n]
<1>1. IsTask(pool[id])
  BY Zenon DEF PoolInv
<1>2. Cleared(id, d)
  <2> SUFFICES ASSUME pool[id].kind = "roaming"
               PROVE  IsRoamingData(d) /\ d.wait.task = data[id].wait.task
    BY Zenon DEF Cleared
  <2>1. IsRoamingData(data[id]) /\ IsWait(w)
    BY Zenon DEF HeirInv, IsRoamingData
  <2>2. IsWait(n) /\ n.task = w.task
    BY <2>1, ExecutedWait, Zenon
  <2> HIDE DEF n
  <2> QED
    BY <2>1, <2>2, NewWait, Zenon
<1>3. ~Begun(id) => ~Overdue(w, late) /\ ~Waiting(n) /\ ~pool[id].done
  BY DEF FreshInv, NoWait, Overdue, Waiting, AfterWaiting
<1>4. CASE Overdue(w, late)
  <2>1. PICK macs : e = handle_responses_timeout(id, d, macs)
    BY <1>4, Zenon DEF Executions
  <2>2. Begun(id)
    BY <1>3, <1>4, Zenon
  <2> HIDE DEF d
  <2>3. GoodEffect(id, Moves(pool[id].state, d))
    BY <1>1, <1>2, <2>2, MoveEffect, Zenon DEF Begun
  <2> QED
    BY <1>1, <1>2, <2>1, <2>2, <2>3, AssociationTimeoutEffect, RoamingTimeoutEffect, Zenon
       DEF handle_responses_timeout
<1>5. CASE ~Overdue(w, late) /\ ~Waiting(n) /\ ~pool[id].done
  <2>1. e \in Work(id, d)
    BY <1>5, Zenon DEF Executions
  <2> HIDE DEF d
  <2>2. pool[id].kind \in {"steering", "btm", "association", "roaming"}
    BY <1>1, Zenon DEF IsTask, Kinds
  <2> QED
    BY <1>1, <1>2, <1>5, <2>1, <2>2, SteeringEffects, BtmEffects, AssociationEffects,
       RoamingEffects, Zenon DEF Work
<1>6. CASE ~Overdue(w, late) /\ ~(~Waiting(n) /\ ~pool[id].done)
  <2>1. e = Moves(pool[id].state, d)
    BY <1>6, Zenon DEF Executions
  <2>2. Begun(id)
    BY <1>3, <1>6, Zenon
  <2> HIDE DEF d
  <2> QED
    BY <1>1, <1>2, <2>1, <2>2, MoveEffect, Zenon DEF Begun
<1> QED
  BY <1>4, <1>5, <1>6, Zenon

-----------------------------------------------------------------------------
(* The handlers. *)

\* The pool is empty at the start.
LEMMA InitInv == Init => IInv
BY DEF Init, IInv, PoolInv, FreshInv, OwnerInv, HeirInv, HandoffHasOwner, Kinds

(* A handler that is not the execution of a task touches only tasks that   *)
(* have begun, and erases none.                                            *)
GoodInput(chg, ended, new) ==
  /\ \A i \in DOMAIN chg \cap DOMAIN pool :
       /\ Begun(i) /\ chg[i].state # First(pool[i].kind)
       /\ pool[i].kind = "roaming" =>
            IsRoamingData(chg[i].data) /\ chg[i].data.wait.task = data[i].wait.task
  /\ \A i \in ended \cap DOMAIN pool : Begun(i)
  /\ new = NoTask \/ /\ new.kind \in Kinds /\ new.sta \in Stations
                     /\ FreshData(new.kind, new.data) /\ ended = {}

\* What such a handler does to the pool.
InputStep(ended, new) ==
  /\ DOMAIN pool' = DOMAIN pool \cup (IF new = NoTask THEN {} ELSE {nextId})
  /\ DOMAIN data' = DOMAIN pool'
  /\ nextId' = IF new = NoTask THEN nextId ELSE nextId + 1
  /\ nextId \notin DOMAIN pool
  /\ \A i \in DOMAIN pool :
       /\ IsTask(pool'[i])
       /\ pool'[i].kind = pool[i].kind /\ pool'[i].sta = pool[i].sta
       /\ pool'[i].done = (pool[i].done \/ i \in ended)
       /\ Begun(i)' = Begun(i)
       /\ ~Begun(i) => data'[i] = data[i]
       /\ pool[i].kind = "roaming" /\ IsRoamingData(data[i]) =>
            IsRoamingData(data'[i]) /\ data'[i].wait.task = data[i].wait.task
  /\ new # NoTask =>
       /\ IsTask(pool'[nextId]) /\ pool'[nextId].kind = new.kind
       /\ pool'[nextId].sta = new.sta /\ ~pool'[nextId].done
       /\ pool'[nextId].state = First(new.kind) /\ data'[nextId] = new.data
  /\ \A t \in Stations : handoff'[t] = (handoff[t] /\ SteerersEnding(t, ended) = {})
  /\ handoff' \in [Stations -> BOOLEAN]

\* Apply, for such a handler, makes such a step.
LEMMA InputPool ==
  ASSUME PoolInv, NEW s, NEW chg, NEW ended, NEW new, NEW db,
         GoodInput(chg, ended, new), Apply(s, chg, ended, {}, new, db, "keep")
  PROVE  InputStep(ended, new)
<1> DEFINE ids == DOMAIN pool \cup (IF new = NoTask THEN {} ELSE {nextId})
<1>0. nextId \notin DOMAIN pool /\ nextId \in Nat
  BY DEF PoolInv
<1>1. DOMAIN pool' = ids /\ DOMAIN data' = ids
  BY Zenon DEF Apply
<1>2. nextId' = IF new = NoTask THEN nextId ELSE nextId + 1
  BY Zenon DEF Apply, LatestId
<1>3. ASSUME NEW i \in DOMAIN pool
      PROVE  /\ pool'[i] = [pool[i] EXCEPT !.state = IF i \in DOMAIN chg THEN chg[i].state ELSE @,
                                           !.done = @ \/ i \in ended]
             /\ data'[i] = IF i \in DOMAIN chg THEN chg[i].data ELSE data[i]
  BY Zenon DEF Apply
<1>4. ASSUME NEW i \in DOMAIN pool
      PROVE  /\ IsTask(pool'[i])
             /\ pool'[i].kind = pool[i].kind /\ pool'[i].sta = pool[i].sta
             /\ pool'[i].done = (pool[i].done \/ i \in ended)
             /\ pool'[i].state = IF i \in DOMAIN chg THEN chg[i].state ELSE pool[i].state
  <2>1. IsTask(pool[i])
    BY Zenon DEF PoolInv
  <2> QED
    BY <1>3, <2>1, Zenon DEF IsTask
<1>5. ASSUME NEW i \in DOMAIN pool
      PROVE  /\ Begun(i)' = Begun(i)
             /\ ~Begun(i) => data'[i] = data[i]
             /\ pool[i].kind = "roaming" /\ IsRoamingData(data[i]) =>
                   IsRoamingData(data'[i]) /\ data'[i].wait.task = data[i].wait.task
  BY <1>3, <1>4, Zenon DEF GoodInput, Begun
<1>6. new # NoTask =>
        /\ IsTask(pool'[nextId]) /\ pool'[nextId].kind = new.kind
        /\ pool'[nextId].sta = new.sta /\ ~pool'[nextId].done
        /\ pool'[nextId].state = First(new.kind) /\ data'[nextId] = new.data
  <2> SUFFICES ASSUME new # NoTask
               PROVE  /\ IsTask(pool'[nextId]) /\ pool'[nextId].kind = new.kind
                      /\ pool'[nextId].sta = new.sta /\ ~pool'[nextId].done
                      /\ pool'[nextId].state = First(new.kind) /\ data'[nextId] = new.data
    BY Zenon
  <2>1. pool'[nextId] = [kind |-> new.kind, sta |-> new.sta,
                         state |-> First(new.kind), done |-> FALSE]
        /\ data'[nextId] = new.data
    BY <1>0, Zenon DEF Apply
  <2>2. new.kind \in Kinds /\ new.sta \in Stations
    BY Zenon DEF GoodInput
  <2> QED
    BY <2>1, <2>2 DEF IsTask
<1>7. /\ \A t \in Stations : handoff'[t] = (handoff[t] /\ SteerersEnding(t, ended) = {})
      /\ handoff' \in [Stations -> BOOLEAN]
  BY Zenon DEF Apply, PoolInv
<1> QED
  BY <1>0, <1>1, <1>2, <1>4, <1>5, <1>6, <1>7, Zenon DEF InputStep

\* The ids in use stay in use.
LEMMA Grow ==
  ASSUME NEW m \in Nat \ {0}, NEW n \in Nat, m <= n
  PROVE  /\ 1..(m - 1) \subseteq 1..(n - 1) /\ 0..(m - 1) \subseteq 0..(n - 1)
         /\ 0 \in 0..(n - 1)
OBVIOUS

\* Such a handler preserves the invariant.
LEMMA InputInv ==
  ASSUME IInv, NEW chg, NEW ended, NEW new, GoodInput(chg, ended, new),
         InputStep(ended, new), cursor' = cursor, owner' = owner
  PROVE  IInv'
<1>0. PoolInv /\ FreshInv /\ OwnerInv /\ HeirInv /\ HandoffHasOwner
  BY Zenon DEF IInv
<1> DEFINE added == IF new = NoTask THEN {} ELSE {nextId}
<1>1. /\ DOMAIN pool' = DOMAIN pool \cup added
      /\ DOMAIN data' = DOMAIN pool'
      /\ nextId' = IF new = NoTask THEN nextId ELSE nextId + 1
      /\ nextId \notin DOMAIN pool
  BY Zenon DEF InputStep
<1>2. \A i \in DOMAIN pool :
        /\ IsTask(pool'[i])
        /\ pool'[i].kind = pool[i].kind /\ pool'[i].sta = pool[i].sta
        /\ pool'[i].done = (pool[i].done \/ i \in ended)
        /\ Begun(i)' = Begun(i)
        /\ ~Begun(i) => data'[i] = data[i]
        /\ pool[i].kind = "roaming" =>
             IsRoamingData(data'[i]) /\ data'[i].wait.task = data[i].wait.task
  BY <1>0, Zenon DEF InputStep, HeirInv
<1>3. new # NoTask =>
        /\ IsTask(pool'[nextId]) /\ pool'[nextId].kind = new.kind
        /\ pool'[nextId].sta = new.sta /\ ~pool'[nextId].done
        /\ pool'[nextId].state = First(new.kind) /\ data'[nextId] = new.data
  BY Zenon DEF InputStep
<1>4. /\ \A t \in Stations : handoff'[t] = (handoff[t] /\ SteerersEnding(t, ended) = {})
      /\ handoff' \in [Stations -> BOOLEAN]
  BY Zenon DEF InputStep
<1>5. ASSUME NEW i \in added
      PROVE  /\ i = nextId /\ new # NoTask /\ ~Begun(i)' /\ FreshData(new.kind, data'[i])
             /\ IsTask(pool'[i]) /\ ~pool'[i].done /\ pool'[i].kind = new.kind
  BY <1>3, Zenon DEF Begun, GoodInput
<1> HIDE DEF added
<1>6. PoolInv'
  <2>1. nextId' \in Nat \ {0} /\ nextId <= nextId' /\ nextId \in Nat \ {0}
    BY <1>0, <1>1 DEF PoolInv
  <2>2. DOMAIN pool' \subseteq 1..(nextId' - 1)
    BY <1>0, <1>1, <1>5, <2>1 DEF PoolInv
  <2>3. \A i \in DOMAIN pool' : IsTask(pool'[i])
    BY <1>1, <1>2, <1>5, Zenon
  <2>4. 1..(nextId - 1) \subseteq 1..(nextId' - 1) /\ 0..(nextId - 1) \subseteq 0..(nextId' - 1)
    BY <2>1, Grow, Zenon
  <2>5. cursor' \in 0..(nextId' - 1)
    BY <1>0, <2>4, Zenon DEF PoolInv
  <2>6. owner' \in [Stations -> [Kinds -> {-1} \cup 1..(nextId' - 1)]]
    <3>1. owner \in [Stations -> [Kinds -> {-1} \cup 1..(nextId - 1)]]
      BY <1>0, Zenon DEF PoolInv
    <3> QED
      BY <3>1, <2>4, Zenon
  <2> QED
    BY <1>1, <1>4, <2>1, <2>2, <2>3, <2>5, <2>6, Zenon DEF PoolInv
<1>7. FreshInv'
  <2> SUFFICES ASSUME NEW i \in DOMAIN pool', ~Begun(i)'
               PROVE  /\ ~pool'[i].done /\ i > cursor'
                      /\ data'[i].wait = NoWait
                      /\ pool'[i].kind \in {"association", "roaming"} => data'[i].asked = EmptyBag
    BY Zenon DEF FreshInv
  <2>1. CASE i \in DOMAIN pool
    BY <1>0, <1>2, <2>1, Zenon DEF FreshInv, GoodInput
  <2>2. CASE i \in added
    BY <1>0, <1>5, <2>2 DEF FreshData, PoolInv
  <2> QED
    BY <1>1, <2>1, <2>2, Zenon
<1>8. OwnerInv'
  <2>1. ASSUME NEW i \in DOMAIN pool', Active(i)'
        PROVE  owner'[pool'[i].sta][pool'[i].kind] = i
    <3>1. i \in DOMAIN pool
      BY <1>1, <1>5, <2>1, Zenon DEF Active
    <3>2. Active(i)
      BY <1>2, <2>1, <3>1, Zenon DEF Active
    <3> QED
      BY <1>0, <1>2, <3>1, <3>2 DEF OwnerInv
  <2>2. ASSUME NEW t \in Stations, NEW k \in Kinds, owner'[t][k] \in DOMAIN pool'
        PROVE  LET o == owner'[t][k]
               IN pool'[o].sta = t /\ pool'[o].kind = k /\ pool'[o].state # First(pool'[o].kind)
    <3>1. owner[t][k] \in DOMAIN pool
      BY <1>0, <1>1, <1>5, <2>2 DEF PoolInv
    <3> DEFINE o == owner[t][k]
    <3>2. pool[o].sta = t /\ pool[o].kind = k /\ Begun(o)
      BY <1>0, <3>1, Zenon DEF OwnerInv
    <3> HIDE DEF o
    <3>3. ASSUME NEW j, j = o
          PROVE  pool'[j].sta = t /\ pool'[j].kind = k /\ pool'[j].state # First(pool'[j].kind)
      BY <1>2, <3>1, <3>2, <3>3, Zenon DEF Begun, o
    <3> QED
      BY <3>3, Zenon DEF o
  <2> QED
    BY <2>1, <2>2, Zenon DEF OwnerInv, Begun
<1>9. HeirInv'
  <2> SUFFICES ASSUME NEW i \in DOMAIN pool', pool'[i].kind = "roaming"
               PROVE  /\ IsRoamingData(data'[i])
                      /\ data'[i].wait.task \in 0..(nextId' - 1)
                      /\ data'[i].wait.task \in DOMAIN pool' =>
                           pool'[data'[i].wait.task].kind = "steering"
    BY Zenon DEF HeirInv, IsRoamingData, IsWait
  <2>0. nextId \in Nat \ {0} /\ nextId' \in Nat /\ nextId <= nextId'
    BY <1>0, <1>1 DEF PoolInv
  <2>1. CASE i \in DOMAIN pool
    <3>1. /\ IsRoamingData(data'[i]) /\ data'[i].wait.task = data[i].wait.task
          /\ data[i].wait.task \in 0..(nextId - 1)
          /\ data[i].wait.task \in DOMAIN pool => pool[data[i].wait.task].kind = "steering"
      BY <1>0, <1>2, <2>1, Zenon DEF HeirInv
    <3>2. data[i].wait.task \in DOMAIN pool' => data[i].wait.task \in DOMAIN pool
      BY <1>1, <1>5, <2>0, <3>1
    <3> QED
      BY <1>2, <2>0, <3>1, <3>2
  <2>2. CASE i \in added
    <3>1. data'[i] = RoamingData
      BY <1>5, <2>2, Zenon DEF FreshData
    <3>2. IsRoamingData(RoamingData) /\ RoamingData.wait.task = 0
      BY Zenon DEF IsRoamingData, RoamingData, IsWait, NoWait
    <3>3. 0 \notin DOMAIN pool'
      BY <1>6 DEF PoolInv
    <3>4. 0 \in 0..(nextId' - 1)
      BY <2>0, Grow, Zenon
    <3> QED
      BY <3>1, <3>2, <3>3, <3>4, Zenon
  <2> QED
    BY <1>1, <2>1, <2>2, Zenon
<1>10. HandoffHasOwner'
  <2> SUFFICES ASSUME NEW t \in Stations, handoff'[t]
               PROVE  \E k \in Steerers : /\ owner'[t][k] \in DOMAIN pool'
                                          /\ ~pool'[owner'[t][k]].done
                                          /\ pool'[owner'[t][k]].state
                                             # First(pool'[owner'[t][k]].kind)
    BY Zenon DEF HandoffHasOwner, Running, is_task_running, Active, Begun
  <2>1. handoff[t] /\ SteerersEnding(t, ended) = {}
    BY <1>4, Zenon
  <2>2. PICK k \in Steerers : Running(t, k) /\ Active(owner[t][k])
    BY <1>0, <2>1, Zenon DEF HandoffHasOwner
  <2>3. PICK o \in DOMAIN pool : o = owner[t][k] /\ ~pool[o].done /\ Active(o)
    BY <2>2, Zenon DEF Running, is_task_running
  <2>4. k \in Kinds /\ pool[o].sta = t /\ pool[o].kind = k
    BY <1>0, <2>3 DEF OwnerInv, Kinds, Steerers
  <2>5. o \notin ended
    BY <2>1, <2>4, Zenon DEF SteerersEnding
  <2>6. o \in DOMAIN pool' /\ ~pool'[o].done /\ Begun(o)'
    BY <1>1, <1>2, <2>3, <2>5, Zenon DEF Active
  <2> QED
    BY <2>3, <2>6, Zenon DEF Begun
<1> QED
  BY <1>6, <1>7, <1>8, <1>9, <1>10, Zenon DEF IInv

\* A handler makes an input step.
Handles ==
  \E chg, ended, new : /\ GoodInput(chg, ended, new) /\ InputStep(ended, new)
                       /\ UNCHANGED <<cursor, owner, stats>>

\* A handler that adds a task.
LEMMA AddStep ==
  ASSUME IInv, NEW s \in Stations, NEW new, new.kind \in Kinds, new.sta = s,
         FreshData(new.kind, new.data), Adds(s, new)
  PROVE  Handles
<1>1. GoodInput(NoChange, {}, new)
  BY Zenon DEF GoodInput, NoChange
<1>2. InputStep({}, new)
  BY <1>1, InputPool, Zenon DEF Adds, IInv
<1> QED
  BY <1>1, <1>2, Zenon DEF Handles, Adds

\* What is entered in a station has begun, if it is in the pool.
LEMMA OwnersBegun ==
  ASSUME IInv, NEW s \in Stations, NEW k \in Kinds, owner[s][k] \in DOMAIN pool
  PROVE  Begun(owner[s][k]) /\ pool[owner[s][k]].kind = k
BY Zenon DEF IInv, OwnerInv

\* The handlers hear through running steering tasks only.
LEMMA ListenersBegun ==
  ASSUME IInv, NEW s \in Stations, NEW i \in Listeners(s)
  PROVE  i \in DOMAIN pool /\ Begun(i) /\ pool[i].kind # "roaming"
<1>1. PICK k \in Steerers : i = owner[s][k] /\ i \in DOMAIN pool
  BY Zenon DEF Listeners, Running, is_task_running
<1>2. k \in Kinds /\ k # "roaming"
  BY Zenon DEF Steerers, Kinds
<1> QED
  BY <1>1, <1>2, OwnersBegun, Zenon

\* A handler that tells running steering tasks of an event.
LEMMA HearStep ==
  ASSUME IInv, NEW s \in Stations, NEW ids, ids \subseteq Listeners(s), NEW chg,
         DOMAIN chg = ids, \A i \in ids : chg[i].state = pool[i].state,
         NEW ended, \A i \in ended \cap DOMAIN pool : Begun(i),
         NEW new, NEW db, Apply(s, chg, ended, {}, new, db, "keep"),
         new = NoTask \/ /\ new.kind \in Kinds /\ new.sta = s
                         /\ FreshData(new.kind, new.data) /\ ended = {},
         UNCHANGED <<cursor, owner, stats>>
  PROVE  Handles
<1>1. GoodInput(chg, ended, new)
  BY ListenersBegun, Zenon DEF GoodInput, Begun
<1>2. InputStep(ended, new)
  BY <1>1, InputPool, Zenon DEF IInv
<1> QED
  BY <1>1, <1>2, Zenon DEF Handles

\* The tasks that the handlers kill are entered in a station.
LEMMA EnteredBegun ==
  ASSUME IInv, NEW s \in Stations, NEW ended,
         ended \subseteq {owner[s][k] : k \in Kinds}
  PROVE  \A i \in ended \cap DOMAIN pool : Begun(i)
<1> SUFFICES ASSUME NEW i \in ended \cap DOMAIN pool
             PROVE  Begun(i)
  BY Zenon
<1>1. PICK k \in Kinds : i = owner[s][k]
  BY Zenon
<1> QED
  BY <1>1, OwnersBegun, Zenon

\* A join is a handler that adds one task.
LEMMA StaJoinedStep ==
  ASSUME IInv, NEW s \in Stations, NEW b, StaJoined(s, b)
  PROVE  Handles
<1> DEFINE chg == [i \in Listeners(s) |-> [state |-> pool[i].state,
                                           data |-> StaConnected(data[i], b)]]
           new == NewTask("association", s, AssociationData)
           db == [station[s] EXCEPT !.parent = b, !.connected = TRUE]
<1>1. Apply(s, chg, {}, {}, new, db, "keep") /\ UNCHANGED <<cursor, owner, stats>>
  BY Zenon DEF StaJoined, Hearing
<1>2. DOMAIN chg = Listeners(s) /\ \A i \in Listeners(s) : chg[i].state = pool[i].state
  BY Zenon
<1>3. new.kind \in Kinds /\ new.sta = s /\ FreshData(new.kind, new.data)
  BY Zenon DEF NewTask, AssociationData, FreshData, Kinds
<1> HIDE DEF chg, new, db
<1> QED
  BY <1>1, <1>2, <1>3, HearStep, Zenon

\* A departure is a handler that ends tasks.
LEMMA StaLeftStep ==
  ASSUME IInv, NEW s \in Stations, NEW b, StaLeft(s, b)
  PROVE  Handles
<1> DEFINE current == station[s].parent = b
           ids == IF current THEN Listeners(s) ELSE {}
           all == {owner[s]["association"]}
                  \cup (IF current /\ ~handoff[s] THEN {owner[s]["roaming"]} ELSE {})
           ended == {i \in all : is_task_running(i)}
           chg == [i \in ids |-> [state |-> pool[i].state, data |-> StaDisconnected(data[i])]]
           db == [station[s] EXCEPT !.connected = @ /\ ~current]
<1>1. Apply(s, chg, ended, {}, NoTask, db, "keep") /\ UNCHANGED <<cursor, owner, stats>>
  BY Zenon DEF StaLeft, Hearing
<1>2. DOMAIN chg = ids /\ ids \subseteq Listeners(s)
      /\ \A i \in ids : chg[i].state = pool[i].state
  BY Zenon
<1>3. ended \subseteq {owner[s][k] : k \in Kinds}
  BY Zenon DEF Kinds
<1> HIDE DEF chg, ids, ended, db
<1>4. \A i \in ended \cap DOMAIN pool : Begun(i)
  BY <1>3, EnteredBegun, Zenon
<1> QED
  BY <1>1, <1>2, <1>4, HearStep, Zenon

\* A BTM report is a handler that moves or ends tasks.
LEMMA BtmReportStep ==
  ASSUME IInv, NEW s \in Stations, NEW accepted \in BOOLEAN, BtmReport(s, accepted)
  PROVE  Handles
<1> DEFINE steering == owner[s]["steering"]
           ended == IF accepted THEN {}
                    ELSE {owner[s]["roaming"]} \cup (IF Rejects(steering) THEN {steering} ELSE {})
           chg == [i \in Listeners(s) |-> [state |-> pool[i].state,
                                           data |-> BtmReportReceived(data[i])]]
           db == [station[s] EXCEPT !.supports11v = TRUE, !.failed11v = 0]
<1>1. Apply(s, chg, ended, {}, NoTask, db, "keep") /\ UNCHANGED <<cursor, owner, stats>>
  BY Zenon DEF BtmReport, Hearing
<1>2. DOMAIN chg = Listeners(s) /\ \A i \in Listeners(s) : chg[i].state = pool[i].state
  BY Zenon
<1>3. ended \subseteq {owner[s][k] : k \in Kinds}
  BY Zenon DEF Kinds
<1> HIDE DEF chg, ended, db
<1>4. \A i \in ended \cap DOMAIN pool : Begun(i)
  BY <1>3, EnteredBegun, Zenon
<1> QED
  BY <1>1, <1>2, <1>4, HearStep, Zenon

\* The death of a radio is a handler that ends roamings.
LEMMA RadioDeadStep ==
  ASSUME IInv, NEW b, RadioDead(b)
  PROVE  Handles
<1> DEFINE s == CHOOSE t \in Stations : TRUE
           all == {owner[t]["roaming"] : t \in {t \in Stations : station[t].parent = b}}
           ended == {i \in all : is_task_running(i)}
<1>1. Apply(s, NoChange, ended, {}, NoTask, station[s], "keep")
      /\ UNCHANGED <<cursor, owner, stats>>
  BY Zenon DEF RadioDead
<1>3. \A i \in ended \cap DOMAIN pool : Begun(i)
  <2> SUFFICES ASSUME NEW i \in ended \cap DOMAIN pool
               PROVE  Begun(i)
    BY Zenon
  <2>1. PICK t \in Stations : i = owner[t]["roaming"]
    BY Zenon
  <2>2. "roaming" \in Kinds
    BY Zenon DEF Kinds
  <2> QED
    BY <2>1, <2>2, OwnersBegun, Zenon
<1> HIDE DEF s, ended
<1>4. GoodInput(NoChange, ended, NoTask)
  BY <1>3, Zenon DEF GoodInput, NoChange
<1>5. InputStep(ended, NoTask)
  BY <1>1, <1>4, InputPool, Zenon DEF IInv
<1> QED
  BY <1>1, <1>4, <1>5, Zenon DEF Handles

\* An answer moves a task that has begun.
LEMMA ResponseState ==
  ASSUME NEW id \in DOMAIN pool, NEW d, NEW r, NEW good \in BOOLEAN, IsTask(pool[id]), Begun(id)
  PROVE  /\ pool[id].kind = "association" => AssociationResponse(id, d, r, good).state # "START"
         /\ pool[id].kind = "roaming" => RoamingResponse(id, d, r, good).state # "START"
<1>1. pool[id].kind \in {"association", "roaming"} => pool[id].state # "START"
  BY FirstStates, Zenon DEF Begun
<1>2. /\ \A st, n : Moves(st, n).state = st
      /\ \A n : Finishes(id, n).state = pool[id].state
  BY Zenon DEF Moves, Finishes, Ending
<1>4. ASSUME pool[id].kind = "association"
      PROVE  AssociationResponse(id, d, r, good).state # "START"
  <2> DEFINE a == AssociationResponse(id, d, r, good)
             n == [d EXCEPT !.attempts = @ + 1]
  <2>1. \/ \E st, m : st # "START" /\ a = Moves(st, m)
        \/ a = Finishes(id, n)
        \/ \E m : a = [Moves("REQUEST_RSSI_MEASUREMENT_WAIT", m) EXCEPT !.beacon = "yes"]
    <3> HIDE DEF n
    <3>1. CASE r.op = "MONITORING" /\ good
      <4>1. a = IF settings.roaming_11k /\ ~station[pool[id].sta].beacon /\ ~station[pool[id].sta].bSta
                THEN Moves("CHECK_11K_BEACON_MEASURE_CAP",
                           [d EXCEPT !.attempts = 0, !.maxAttempts = BEACON_MEASURE_MAX_ATTEMPTS])
                ELSE Moves("REQUEST_RSSI_MEASUREMENT_WAIT", d)
        BY <3>1, Zenon DEF AssociationResponse
      <4> HIDE DEF a
      <4> QED
        BY <4>1, Zenon
    <3>2. CASE r.op = "MONITORING" /\ ~good
      <4>1. a = Finishes(id, n) \/ a = Moves(pool[id].state, [n EXCEPT !.wait = wait_for(@)])
            \/ a = Moves(IF d.attempts > d.maxAttempts
                         THEN "REQUEST_RSSI_MEASUREMENT_WAIT" ELSE pool[id].state, n)
        BY <3>2 DEF AssociationResponse, n
      <4> HIDE DEF a
      <4> QED
        BY <1>1, <1>4, <4>1, Zenon
    <3>3. CASE r.op # "MONITORING"
      <4>1. \/ a = Moves("FINISH", d)
            \/ a = [Moves("REQUEST_RSSI_MEASUREMENT_WAIT", d) EXCEPT !.beacon = "yes"]
            \/ a = Moves(IF d.attempts > d.maxAttempts
                         THEN "REQUEST_RSSI_MEASUREMENT_WAIT" ELSE pool[id].state, n)
        BY <3>3, Zenon DEF AssociationResponse, n
      <4> HIDE DEF a
      <4> QED
        BY <1>1, <1>4, <4>1, Zenon
    <3> QED
      BY <3>1, <3>2, <3>3, Zenon
  <2> HIDE DEF a, n
  <2>2. a.state # "START"
    <3>1. ASSUME NEW st, NEW m, st # "START", a = Moves(st, m)
          PROVE  a.state # "START"
      BY <3>1, Zenon DEF Moves
    <3>2. CASE a = Finishes(id, n)
      BY <1>1, <1>2, <1>4, <3>2, Zenon
    <3>3. ASSUME NEW m, a = [Moves("REQUEST_RSSI_MEASUREMENT_WAIT", m) EXCEPT !.beacon = "yes"]
          PROVE  a.state # "START"
      BY <3>3, Zenon DEF Moves
    <3> QED
      BY <2>1, <3>1, <3>2, <3>3, Zenon
  <2> QED
    BY <2>2, Zenon DEF a
<1>5. ASSUME pool[id].kind = "roaming"
      PROVE  RoamingResponse(id, d, r, good).state # "START"
  <2> DEFINE a == RoamingResponse(id, d, r, good)
  <2> DEFINE q == d.asked (+) SetToBag({Request(h, "RX_RSSI", h) : h \in d.hostaps})
             w == add_pending_macs(d.wait, {<<h, "RX_RSSI">> : h \in d.hostaps})
             started == [d EXCEPT !.asked = q, !.wait = w]
             valid == [d EXCEPT !.reported = @ \cup {r.ap}, !.count = @ + 1]
             st == IF valid.count = Cardinality(d.aps)
                   THEN "FIND_AND_PICK_HOSTAP_11K" ELSE pool[id].state
  <2>1. \/ a = Moves(pool[id].state, started)
        \/ a = Moves(st, valid)
        \/ a = Moves(pool[id].state, d)
    BY Zenon DEF RoamingResponse
  <2> HIDE DEF a, started, valid
  <2>2. a.state # "START"
    BY <1>1, <1>2, <1>5, <2>1
  <2> QED
    BY <2>2, Zenon DEF a
<1> QED
  BY <1>4, <1>5, Zenon

\* An answer keeps the fields of a roaming task.
LEMMA ResponseData ==
  ASSUME NEW id \in DOMAIN pool, NEW d, NEW r, NEW good \in BOOLEAN, IsRoamingData(d)
  PROVE  LET m == RoamingResponse(id, d, r, good).data
         IN IsRoamingData(m) /\ m.wait.task = d.wait.task
<1> DEFINE q == d.asked (+) SetToBag({Request(h, "RX_RSSI", h) : h \in d.hostaps})
           w == add_pending_macs(d.wait, {<<h, "RX_RSSI">> : h \in d.hostaps})
           started == [d EXCEPT !.asked = q, !.wait = w]
           valid == [d EXCEPT !.reported = @ \cup {r.ap}, !.count = @ + 1]
           a == RoamingResponse(id, d, r, good)
<1>1. a.data \in {d, started, valid}
  <2>1. \/ \E st : a = Moves(st, started)
        \/ \E st : a = Moves(st, valid)
        \/ \E st : a = Moves(st, d)
    BY Zenon DEF RoamingResponse
  <2> HIDE DEF a, started, valid
  <2> QED
    BY <2>1 DEF Moves
<1>2. IsWait(w) /\ w.task = d.wait.task
  BY PendingWait, Zenon DEF IsRoamingData
<1>3. IsRoamingData(valid) /\ valid.wait.task = d.wait.task
  BY Zenon DEF IsRoamingData, RoamingData
<1> HIDE DEF w, q
<1>4. IsRoamingData(started) /\ started.wait.task = d.wait.task
  BY <1>2, Zenon DEF IsRoamingData, RoamingData
<1> HIDE DEF started, valid, a
<1> QED
  BY <1>1, <1>3, <1>4, Zenon DEF a

\* An answer is a handler that moves or ends the task that asked.
LEMMA RespondStep ==
  ASSUME IInv, NEW id \in DOMAIN pool, Asking(id),
         NEW r \in BagToSet(data[id].asked), NEW good \in BOOLEAN, Respond(id, r, good)
  PROVE  Handles
<1> DEFINE d == [data[id] EXCEPT !.asked = @ (-) SetToBag({r}),
                                 !.wait = Answered(@, r.mac, r.op)]
           e == IF pool[id].kind = "roaming" THEN RoamingResponse(id, d, r, good)
                                             ELSE AssociationResponse(id, d, r, good)
           ended == IF e.done THEN {id} ELSE {}
           chg == [i \in {id} |-> [state |-> e.state, data |-> e.data]]
           s == pool[id].sta
<1>0. PoolInv /\ FreshInv /\ HeirInv /\ IsTask(pool[id])
  BY Zenon DEF IInv, PoolInv
<1>1. Apply(s, chg, ended, {}, NoTask, WithBeacon(station[s], e.beacon), "keep")
      /\ UNCHANGED <<cursor, owner, stats>>
  BY Zenon DEF Respond
<1>2. Begun(id)
  <2>1. BagToSet(EmptyBag) = {}
    BY Zenon DEF BagToSet, EmptyBag, SetToBag
  <2> QED
    BY <1>0, <2>1, Zenon DEF FreshInv, Asking
<1>3. pool[id].kind = "roaming" =>
        IsRoamingData(d) /\ d.wait.task = data[id].wait.task
  <2> SUFFICES ASSUME pool[id].kind = "roaming"
               PROVE  IsRoamingData(d) /\ d.wait.task = data[id].wait.task
    BY Zenon
  <2> DEFINE q == data[id].asked (-) SetToBag({r})
             w == Answered(data[id].wait, r.mac, r.op)
  <2>1. IsRoamingData(data[id]) /\ IsWait(data[id].wait)
    BY <1>0, Zenon DEF HeirInv, IsRoamingData
  <2>2. IsWait(w) /\ w.task = data[id].wait.task
    BY <2>1, AnsweredWait, Zenon
  <2>3. d = [data[id] EXCEPT !.asked = q, !.wait = w]
    BY Zenon
  <2> HIDE DEF q, w, d
  <2> QED
    BY <2>1, <2>2, <2>3, Zenon DEF IsRoamingData, RoamingData
<1> HIDE DEF d
<1>4. e.state # First(pool[id].kind)
  BY <1>0, <1>2, ResponseState, FirstStates, Zenon DEF Asking
<1>5. pool[id].kind = "roaming" =>
        IsRoamingData(e.data) /\ e.data.wait.task = data[id].wait.task
  BY <1>3, ResponseData
<1> HIDE DEF e
<1>6. DOMAIN chg = {id} /\ chg[id].state = e.state /\ chg[id].data = e.data
  BY Zenon
<1>7. \A i \in ended \cap DOMAIN pool : Begun(i)
  BY <1>2, Zenon
<1> HIDE DEF chg, ended
<1>8. GoodInput(chg, ended, NoTask)
  BY <1>2, <1>4, <1>5, <1>6, <1>7, Zenon DEF GoodInput
<1>9. InputStep(ended, NoTask)
  BY <1>0, <1>1, <1>8, InputPool, Zenon
<1> QED
  BY <1>1, <1>8, <1>9, Zenon DEF Handles

\* Every step but the execution of the next task is a handler.
LEMMA HandlerSteps == IInv /\ Next => Handles \/ RunTask \/ RunLateTask
<1> SUFFICES ASSUME IInv, Next, ~RunTask, ~RunLateTask
             PROVE  Handles
  BY Zenon
<1>1. ASSUME NEW s \in Stations, NEW c \in Commands, SteerSta(s, c)
      PROVE  Handles
  <2> DEFINE new == NewTask("steering", s, SteeringData(c.target, c.imminent, c.restricted))
  <2>1. new.kind \in Kinds /\ new.sta = s /\ FreshData(new.kind, new.data)
    BY Zenon DEF NewTask, SteeringData, FreshData, IsSteeringData, Kinds
  <2>2. Adds(s, new)
    BY <1>1, Zenon DEF SteerSta
  <2> HIDE DEF new
  <2> QED
    BY <2>1, <2>2, AddStep, Zenon
<1>2. ASSUME NEW s \in Stations, NEW c \in Commands, StartBtmRequestTask(s, c)
      PROVE  Handles
  <2> DEFINE new == NewTask("btm", s, BtmData(c.target, c.imminent))
  <2>1. new.kind \in Kinds /\ new.sta = s /\ FreshData(new.kind, new.data)
    BY Zenon DEF NewTask, BtmData, FreshData, Kinds
  <2>2. Adds(s, new)
    BY <1>2, Zenon DEF StartBtmRequestTask
  <2> HIDE DEF new
  <2> QED
    BY <2>1, <2>2, AddStep, Zenon
<1>3. ASSUME NEW s \in Stations, RssiNotification(s) \/ NoActivityNotification(s)
      PROVE  Handles
  <2> DEFINE new == NewTask("roaming", s, RoamingData)
  <2>1. new.kind \in Kinds /\ new.sta = s /\ FreshData(new.kind, new.data)
    BY Zenon DEF NewTask, RoamingData, FreshData, Kinds
  <2>2. Adds(s, new)
    BY <1>3, Zenon DEF RssiNotification, NoActivityNotification
  <2> HIDE DEF new
  <2> QED
    BY <2>1, <2>2, AddStep, Zenon
<1> QED
  BY <1>1, <1>2, <1>3, StaJoinedStep, StaLeftStep, BtmReportStep, RadioDeadStep,
     RespondStep, Zenon DEF Next

=============================================================================
