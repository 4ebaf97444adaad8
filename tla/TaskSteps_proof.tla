-------------------------- MODULE TaskSteps_proof ---------------------------
(***************************************************************************)
(* The execution of a task of StationTasks: that it preserves the          *)
(* inductive invariant; and that the steering task at work knows when its  *)
(* client is on the target, whatever the handlers and executions do.       *)
(***************************************************************************)
EXTENDS TaskEffects_proof

(* The execution of a task. *)

\* The roaming tasks that wait for the end of task id.
Heirs(id) == {i \in DOMAIN pool : pool[i].kind = "roaming" /\ data[i].wait.task = id}

\* The tasks that end with the execution of id.
EndedBy(id, e) ==
  e.kills \cup Predecessor(id, e)
  \cup (IF e.done THEN {id} ELSE {})
  \cup (IF e.done \/ pool[id].done THEN Heirs(id) ELSE {})

\* They have begun, except id itself; those of another slot are roaming tasks,
\* and none is in the slot of a new task.
LEMMA EndedTasks ==
  ASSUME IInv, NEW id \in DOMAIN pool, NEW e, GoodEffect(id, e)
  PROVE  /\ \A i \in EndedBy(id, e) \cap DOMAIN pool : i # id =>
              /\ Begun(i)
              /\ \/ e.takes /\ pool[i].sta = pool[id].sta /\ pool[i].kind = pool[id].kind
                 \/ pool[i].kind = "roaming" /\ pool[id].kind # "roaming"
              /\ e.new # NoTask => pool[i].kind # e.new.kind
         /\ Heirs(id) # {} => pool[id].kind = "steering"
<1>0. PoolInv /\ FreshInv /\ OwnerInv /\ HeirInv
  BY Zenon DEF IInv
<1>1. IsTask(pool[id]) /\ id # 0
  BY <1>0 DEF PoolInv
<1>2. ASSUME NEW i \in Heirs(id)
      PROVE  i \in DOMAIN pool /\ pool[i].kind = "roaming" /\ pool[id].kind = "steering" /\ Begun(i)
  <2>1. i \in DOMAIN pool /\ pool[i].kind = "roaming" /\ data[i].wait.task = id
    BY Zenon DEF Heirs
  <2>2. pool[id].kind = "steering"
    BY <1>0, <2>1, Zenon DEF HeirInv
  <2>3. NoWait.task = 0
    BY Zenon DEF NoWait
  <2> QED
    BY <1>0, <1>1, <2>1, <2>2, <2>3, Zenon DEF FreshInv
<1>3. ASSUME NEW i \in Predecessor(id, e) \cap DOMAIN pool
      PROVE  /\ e.takes /\ Begun(i) /\ pool[i].sta = pool[id].sta /\ pool[i].kind = pool[id].kind
  BY <1>0, <1>1 DEF Predecessor, OwnerInv, IsTask
<1>4. ASSUME NEW i \in e.kills \cap DOMAIN pool
      PROVE  Begun(i) /\ pool[i].kind = "roaming" /\ pool[id].kind = "association" /\ e.new = NoTask
  BY <1>0, <1>1 DEF GoodEffect, OwnerInv, IsTask, Kinds
<1>5. GoodNew(pool[id].sta, pool[id].kind, e.new)
  BY Zenon DEF GoodEffect
<1>6. e.new # NoTask => \/ e.new.kind = "steering" /\ pool[id].kind = "roaming"
                        \/ e.new.kind = "roaming" /\ pool[id].kind = "association"
  BY <1>5, Zenon DEF GoodNew
<1>7. ASSUME NEW i \in EndedBy(id, e) \cap DOMAIN pool, i # id
      PROVE  i \in Predecessor(id, e) \/ i \in e.kills \/ i \in Heirs(id)
  BY <1>7, Zenon DEF EndedBy
<1>8. ASSUME NEW i \in EndedBy(id, e) \cap DOMAIN pool, i # id
      PROVE  /\ Begun(i)
             /\ \/ e.takes /\ pool[i].sta = pool[id].sta /\ pool[i].kind = pool[id].kind
                \/ pool[i].kind = "roaming" /\ pool[id].kind # "roaming"
             /\ e.new # NoTask => pool[i].kind # e.new.kind
  <2>1. CASE i \in Predecessor(id, e)
    BY <1>3, <1>6, <2>1, Zenon
  <2>2. CASE i \in e.kills
    BY <1>4, <2>2, Zenon
  <2>3. CASE i \in Heirs(id)
    BY <1>2, <1>6, <2>3, Zenon
  <2> QED
    BY <1>7, <1>8, <2>1, <2>2, <2>3, Zenon
<1> QED
  BY <1>2, <1>8, Zenon

\* A steering task that begins and goes on does not end itself.
LEMMA NotItself ==
  ASSUME IInv, NEW id \in DOMAIN pool, NEW e, GoodEffect(id, e), e.takes, ~e.done
  PROVE  id \notin EndedBy(id, e)
<1>1. /\ PoolInv /\ OwnerInv /\ FreshInv /\ HeirInv
      /\ IsTask(pool[id]) /\ ~Begun(id) /\ id # 0
  BY DEF IInv, PoolInv, GoodEffect
<1>2. owner[pool[id].sta][pool[id].kind] # id
  BY <1>1 DEF OwnerInv, IsTask
<1>3. e.kills = {}
  BY Zenon DEF GoodEffect
<1>4. ~pool[id].done
  BY <1>1, Zenon DEF FreshInv
<1> QED
  BY <1>2, <1>3, <1>4, Zenon DEF EndedBy, Predecessor

\* What the execution does to the pool.
ExecStep(id, e) ==
  LET over == e.done \/ pool[id].done
  IN /\ DOMAIN pool' = (DOMAIN pool \ (IF over THEN {id} ELSE {}))
                       \cup (IF e.new = NoTask THEN {} ELSE {nextId})
     /\ DOMAIN data' = DOMAIN pool'
     /\ nextId' = IF e.new = NoTask THEN nextId ELSE nextId + 1
     /\ nextId \notin DOMAIN pool
     /\ \A i \in DOMAIN pool \cap DOMAIN pool' :
          /\ IsTask(pool'[i])
          /\ pool'[i].kind = pool[i].kind /\ pool'[i].sta = pool[i].sta
          /\ pool'[i].done = (pool[i].done \/ i \in EndedBy(id, e))
          /\ i # id => /\ Begun(i)' = Begun(i)
                       /\ ~Begun(i) => data'[i] = data[i]
          /\ i = id => Begun(i)'
          /\ pool[i].kind = "roaming" =>
               /\ IsRoamingData(data'[i])
               /\ \/ data'[i].wait.task = data[i].wait.task
                  \/ data'[i].wait.task = 0
                  \/ data'[i].wait.task = nextId /\ e.new.kind = "steering"
     /\ e.new # NoTask =>
          /\ IsTask(pool'[nextId]) /\ pool'[nextId].kind = e.new.kind
          /\ pool'[nextId].sta = e.new.sta /\ ~pool'[nextId].done
          /\ pool'[nextId].state = First(e.new.kind)
          /\ FreshData(e.new.kind, data'[nextId])
     /\ \A t \in Stations :
          handoff'[t] => \/ handoff[t] /\ SteerersEnding(t, EndedBy(id, e)) = {}
                         \/ t = pool[id].sta /\ e.flag = "set"
     /\ handoff' \in [Stations -> BOOLEAN]

\* Execute makes such a step.
LEMMA ExecPool ==
  ASSUME IInv, NEW id \in DOMAIN pool, NEW e, GoodEffect(id, e), Execute(id, e)
  PROVE  ExecStep(id, e)
<1>0. PoolInv /\ FreshInv /\ OwnerInv /\ HeirInv
  BY Zenon DEF IInv
<1> DEFINE s == pool[id].sta
           k == pool[id].kind
           over == e.done \/ pool[id].done
           heirs == {i \in DOMAIN pool : pool[i].kind = "roaming" /\ data[i].wait.task = id}
           ended == e.kills \cup Predecessor(id, e) \cup (IF e.done THEN {id} ELSE {})
                    \cup (IF over THEN heirs ELSE {})
           told(i) == [state |-> pool[i].state,
                       data |-> [data[i] EXCEPT !.wait.forTask = FALSE]]
           chg == [i \in {id} \cup (IF over THEN heirs ELSE {}) |->
                     IF i = id THEN [state |-> e.state, data |-> e.data] ELSE told(i)]
           gone == IF over THEN {id} ELSE {}
<1>1. Apply(s, chg, ended, gone, e.new, WithBeacon(station[s], e.beacon), e.flag)
  BY Zenon DEF Execute
<1>2. ended = EndedBy(id, e) /\ heirs = Heirs(id)
  BY Zenon DEF EndedBy, Heirs
<1>3. /\ DOMAIN chg = {id} \cup (IF over THEN heirs ELSE {})
      /\ chg[id].state = e.state /\ chg[id].data = e.data
      /\ \A i \in DOMAIN chg : i # id =>
           /\ i \in heirs /\ chg[i].state = pool[i].state
           /\ chg[i].data = [data[i] EXCEPT !.wait.forTask = FALSE]
  BY Zenon
<1> HIDE DEF chg, ended, heirs
<1>4. nextId \notin DOMAIN pool /\ nextId \in Nat
  BY <1>0 DEF PoolInv
<1>5. /\ DOMAIN pool' = (DOMAIN pool \ gone) \cup (IF e.new = NoTask THEN {} ELSE {nextId})
      /\ DOMAIN data' = DOMAIN pool'
  BY <1>1, Zenon DEF Apply
<1>6. nextId' = IF e.new = NoTask THEN nextId ELSE nextId + 1
  BY <1>1, Zenon DEF Apply, LatestId
<1>7. ASSUME NEW i \in DOMAIN pool \cap DOMAIN pool'
      PROVE  /\ pool'[i] = [pool[i] EXCEPT !.state = IF i \in DOMAIN chg THEN chg[i].state ELSE @,
                                           !.done = @ \/ i \in ended]
             /\ data'[i] = IF i \in DOMAIN chg THEN chg[i].data ELSE data[i]
  BY <1>1, Zenon DEF Apply
<1>8. ASSUME NEW i \in DOMAIN pool \cap DOMAIN pool'
      PROVE  /\ IsTask(pool'[i])
             /\ pool'[i].kind = pool[i].kind /\ pool'[i].sta = pool[i].sta
             /\ pool'[i].done = (pool[i].done \/ i \in ended)
             /\ pool'[i].state = IF i \in DOMAIN chg THEN chg[i].state ELSE pool[i].state
  <2>1. IsTask(pool[i])
    BY <1>0, Zenon DEF PoolInv
  <2> QED
    BY <1>7, <2>1, Zenon DEF IsTask
<1>9. ASSUME NEW i \in DOMAIN pool \cap DOMAIN pool', i # id
      PROVE  /\ Begun(i)' = Begun(i)
             /\ ~Begun(i) => data'[i] = data[i]
  <2>1. pool'[i].state = pool[i].state
    BY <1>3, <1>8, <1>9, Zenon
  <2>2. i \in heirs => Begun(i)
    <3>1. NoWait.task = 0 /\ id # 0
      BY <1>0 DEF NoWait, PoolInv
    <3> QED
      BY <1>0, <3>1, Zenon DEF heirs, FreshInv
  <2> QED
    BY <1>3, <1>7, <1>8, <1>9, <2>1, <2>2, Zenon DEF Begun
<1>10. ASSUME NEW i \in DOMAIN pool \cap DOMAIN pool', i = id
       PROVE  Begun(i)'
  <2>1. ~over
    BY <1>4, <1>5, <1>10, Zenon
  <2>2. e.state # First(pool[id].kind)
    BY <2>1, Zenon DEF GoodEffect
  <2> QED
    BY <1>3, <1>8, <1>10, <2>2, Zenon DEF Begun
<1>11. ASSUME NEW i \in DOMAIN pool \cap DOMAIN pool', pool[i].kind = "roaming"
       PROVE  /\ IsRoamingData(data'[i])
              /\ \/ data'[i].wait.task = data[i].wait.task
                 \/ data'[i].wait.task = 0
                 \/ data'[i].wait.task = nextId /\ e.new.kind = "steering"
  <2>1. IsRoamingData(data[i])
    BY <1>0, <1>11, Zenon DEF HeirInv
  <2>2. CASE i = id
    BY <1>3, <1>7, <1>11, <2>2, Zenon DEF GoodEffect
  <2>3. CASE i # id
    <3> DEFINE m == [data[i] EXCEPT !.wait.forTask = FALSE]
    <3>1. IsRoamingData(m) /\ m.wait.task = data[i].wait.task
      BY <2>1, Zenon DEF IsRoamingData, RoamingData, IsWait, NoWait
    <3>2. data'[i] = m \/ data'[i] = data[i]
      BY <1>3, <1>7, <2>3, Zenon
    <3> HIDE DEF m
    <3> QED
      BY <2>1, <3>1, <3>2, Zenon
  <2> QED
    BY <2>2, <2>3, Zenon
<1>12. ASSUME e.new # NoTask
       PROVE  /\ IsTask(pool'[nextId]) /\ pool'[nextId].kind = e.new.kind
              /\ pool'[nextId].sta = e.new.sta /\ ~pool'[nextId].done
              /\ pool'[nextId].state = First(e.new.kind)
              /\ FreshData(e.new.kind, data'[nextId])
  <2>1. pool'[nextId] = [kind |-> e.new.kind, sta |-> e.new.sta,
                         state |-> First(e.new.kind), done |-> FALSE]
        /\ data'[nextId] = e.new.data
    BY <1>1, <1>4, <1>12, Zenon DEF Apply
  <2>2. GoodNew(s, k, e.new) /\ IsTask(pool[id])
    BY <1>0, Zenon DEF GoodEffect, PoolInv
  <2>3. e.new.kind \in Kinds /\ e.new.sta \in Stations /\ FreshData(e.new.kind, e.new.data)
    BY <1>12, <2>2, Zenon DEF GoodNew, IsTask, Kinds
  <2> QED
    BY <2>1, <2>3 DEF IsTask
<1>13. /\ \A t \in Stations :
            handoff'[t] => \/ handoff[t] /\ SteerersEnding(t, ended) = {}
                           \/ t = pool[id].sta /\ e.flag = "set"
       /\ handoff' \in [Stations -> BOOLEAN]
  BY <1>0, <1>1, Zenon DEF Apply, PoolInv
<1> QED
  BY <1>2, <1>4, <1>5, <1>6, <1>8, <1>9, <1>10, <1>11, <1>12, <1>13, Zenon DEF ExecStep

\* The execution of the next task of the pool preserves the invariant.
LEMMA ExecInv ==
  ASSUME IInv, NEW id \in DOMAIN pool, id > cursor,
         \A j \in DOMAIN pool : j > cursor => id <= j,
         NEW e, GoodEffect(id, e), ExecStep(id, e),
         owner' = IF e.takes THEN [owner EXCEPT ![pool[id].sta][pool[id].kind] = id] ELSE owner,
         cursor' = IF \E i \in DOMAIN pool' : i > id THEN id ELSE 0
  PROVE  IInv'
<1>0. PoolInv /\ FreshInv /\ OwnerInv /\ HeirInv /\ HandoffHasOwner /\ IsTask(pool[id])
  BY Zenon DEF IInv, PoolInv
<1> DEFINE s == pool[id].sta
           k == pool[id].kind
           added == IF e.new = NoTask THEN {} ELSE {nextId}
           kept == DOMAIN pool \cap DOMAIN pool'
<1>1. /\ DOMAIN pool' \subseteq DOMAIN pool \cup added
      /\ kept = DOMAIN pool \ (IF e.done \/ pool[id].done THEN {id} ELSE {})
      /\ DOMAIN pool' = kept \cup added
      /\ DOMAIN data' = DOMAIN pool'
      /\ nextId' = IF e.new = NoTask THEN nextId ELSE nextId + 1
      /\ nextId \notin DOMAIN pool
  BY Zenon DEF ExecStep
<1>2. \A i \in kept :
        /\ IsTask(pool'[i])
        /\ pool'[i].kind = pool[i].kind /\ pool'[i].sta = pool[i].sta
        /\ pool'[i].done = (pool[i].done \/ i \in EndedBy(id, e))
        /\ i # id => /\ Begun(i)' = Begun(i)
                     /\ ~Begun(i) => data'[i] = data[i]
        /\ i = id => Begun(i)'
  BY Zenon DEF ExecStep
<1>3. \A i \in kept : pool[i].kind = "roaming" =>
        /\ IsRoamingData(data'[i])
        /\ \/ data'[i].wait.task = data[i].wait.task
           \/ data'[i].wait.task = 0
           \/ data'[i].wait.task = nextId /\ e.new.kind = "steering"
  BY Zenon DEF ExecStep
<1>4. /\ \A t \in Stations :
           handoff'[t] => \/ handoff[t] /\ SteerersEnding(t, EndedBy(id, e)) = {}
                          \/ t = s /\ e.flag = "set"
      /\ handoff' \in [Stations -> BOOLEAN]
  BY Zenon DEF ExecStep
<1>5. ASSUME NEW i \in added
      PROVE  /\ i = nextId /\ ~Begun(i)' /\ FreshData(e.new.kind, data'[i])
             /\ IsTask(pool'[i]) /\ ~pool'[i].done /\ pool'[i].kind = e.new.kind
             /\ e.new # NoTask
  <2>1. e.new # NoTask /\ i = nextId
    BY Zenon
  <2>2. /\ IsTask(pool'[nextId]) /\ pool'[nextId].kind = e.new.kind
        /\ ~pool'[nextId].done
        /\ pool'[nextId].state = First(e.new.kind)
        /\ FreshData(e.new.kind, data'[nextId])
    BY <2>1, Zenon DEF ExecStep
  <2> QED
    BY <2>1, <2>2, Zenon DEF Begun
<1>6. /\ e.takes \in BOOLEAN /\ e.done \in BOOLEAN
      /\ e.takes => ~Begun(id)
      /\ ~Begun(id) => e.done \/ e.takes
      /\ e.flag = "set" => e.takes /\ ~e.done /\ k \in Steerers
  BY Zenon DEF GoodEffect
<1>7. \A t \in Stations, q \in Kinds :
        owner'[t][q] = IF e.takes /\ t = s /\ q = k THEN id ELSE owner[t][q]
  BY <1>0, Zenon DEF PoolInv
<1>8. e.takes => owner[s][k] \in EndedBy(id, e)
  BY Zenon DEF EndedBy, Predecessor
<1>9. e.done => id \in EndedBy(id, e)
  BY Zenon DEF EndedBy
<1> HIDE DEF added, kept
<1>10. PoolInv'
  <2>1. nextId' \in Nat \ {0} /\ nextId <= nextId' /\ nextId \in Nat \ {0}
    BY <1>0, <1>1 DEF PoolInv
  <2>2. DOMAIN pool' \subseteq 1..(nextId' - 1)
    BY <1>0, <1>1, <1>5, <2>1 DEF PoolInv
  <2>3. \A i \in DOMAIN pool' : IsTask(pool'[i])
    BY <1>1, <1>2, <1>5, Zenon
  <2>4. /\ 1..(nextId - 1) \subseteq 1..(nextId' - 1) /\ 0..(nextId - 1) \subseteq 0..(nextId' - 1)
        /\ 0 \in 0..(nextId' - 1)
    BY <2>1, Grow, Zenon
  <2>5. id \in 1..(nextId - 1) /\ id \in 0..(nextId - 1)
    BY <1>0, <2>1 DEF PoolInv
  <2>6. cursor' \in 0..(nextId' - 1)
    BY <2>4, <2>5, Zenon
  <2>7. owner' \in [Stations -> [Kinds -> {-1} \cup 1..(nextId' - 1)]]
    <3>1. owner \in [Stations -> [Kinds -> {-1} \cup 1..(nextId - 1)]]
      BY <1>0, Zenon DEF PoolInv
    <3>2. owner \in [Stations -> [Kinds -> {-1} \cup 1..(nextId' - 1)]]
      BY <3>1, <2>4, Zenon
    <3>3. s \in Stations /\ k \in Kinds /\ id \in {-1} \cup 1..(nextId' - 1)
      BY <1>0, <2>4, <2>5, Zenon DEF IsTask
    <3> QED
      BY <3>2, <3>3, Zenon
  <2> QED
    BY <1>1, <1>4, <2>1, <2>2, <2>3, <2>6, <2>7, Zenon DEF PoolInv
<1>11. FreshInv'
  <2> SUFFICES ASSUME NEW i \in DOMAIN pool', ~Begun(i)'
               PROVE  /\ ~pool'[i].done /\ i > cursor'
                      /\ data'[i].wait = NoWait
                      /\ pool'[i].kind \in {"association", "roaming"} => data'[i].asked = EmptyBag
    BY Zenon DEF FreshInv
  <2>0. cursor \in Nat /\ nextId \in Nat /\ DOMAIN pool \subseteq 1..(nextId - 1)
    BY <1>0 DEF PoolInv
  <2>1. CASE i \in kept
    <3>1. i # id /\ ~Begun(i) /\ i \in DOMAIN pool
      BY <1>2, <2>1, Zenon DEF kept
    <3>2. i > cursor /\ ~pool[i].done /\ data[i].wait = NoWait
          /\ (pool[i].kind \in {"association", "roaming"} => data[i].asked = EmptyBag)
      BY <1>0, <3>1, Zenon DEF FreshInv
    <3>3. i \notin EndedBy(id, e)
      BY <3>1, EndedTasks, Zenon
    <3>4. i > id
      BY <2>0, <3>1, <3>2
    <3>5. i > cursor'
      BY <2>0, <3>1, <3>4, Zenon
    <3> QED
      BY <1>2, <2>1, <3>1, <3>2, <3>3, <3>5, Zenon
  <2>2. CASE i \in added
    <3>1. i > cursor'
      BY <1>5, <2>0, <2>2
    <3> QED
      BY <1>5, <2>2, <3>1, Zenon DEF FreshData
  <2> QED
    BY <1>1, <2>1, <2>2, Zenon
<1>12. OwnerInv'
  <2>1. ASSUME NEW i \in DOMAIN pool', Active(i)'
        PROVE  owner'[pool'[i].sta][pool'[i].kind] = i
    <3>1. i \in kept /\ i \in DOMAIN pool
      BY <1>1, <1>5, <2>1, Zenon DEF Active, kept
    <3>2. pool'[i].sta = pool[i].sta /\ pool'[i].kind = pool[i].kind
          /\ pool[i].sta \in Stations /\ pool[i].kind \in Kinds
          /\ ~pool[i].done /\ i \notin EndedBy(id, e)
      BY <1>0, <1>2, <2>1, <3>1, Zenon DEF Active, PoolInv, IsTask
    <3>3. CASE i = id
      <4>1. ~e.done
        BY <1>9, <3>2, <3>3, Zenon
      <4>2. CASE e.takes
        BY <1>7, <3>2, <3>3, <4>2
      <4>3. CASE ~e.takes
        BY <1>0, <1>6, <1>7, <3>2, <3>3, <4>1, <4>3, Zenon DEF OwnerInv, Active
      <4> QED
        BY <4>2, <4>3, Zenon
    <3>4. CASE i # id
      <4>1. owner[pool[i].sta][pool[i].kind] = i
        BY <1>0, <1>2, <2>1, <3>1, <3>2, <3>4, Zenon DEF OwnerInv, Active
      <4> QED
        BY <1>7, <1>8, <3>2, <4>1
    <3> QED
      BY <3>3, <3>4, Zenon
  <2>2. ASSUME NEW t \in Stations, NEW q \in Kinds, NEW o, o = owner'[t][q], o \in DOMAIN pool'
        PROVE  pool'[o].sta = t /\ pool'[o].kind = q /\ Begun(o)'
    <3>1. CASE e.takes /\ t = s /\ q = k
      <4>1. o = id /\ o \in kept
        BY <1>1, <1>5, <1>7, <2>2, <3>1
      <4> QED
        BY <1>2, <3>1, <4>1, Zenon
    <3>2. CASE ~(e.takes /\ t = s /\ q = k)
      <4>1. o = owner[t][q]
        BY <1>7, <2>2, <3>2
      <4>2. o \in kept /\ o \in DOMAIN pool
        BY <1>0, <1>1, <1>5, <2>2, <4>1 DEF PoolInv, kept
      <4>3. pool[o].sta = t /\ pool[o].kind = q /\ Begun(o)
        BY <1>0, <4>1, <4>2, Zenon DEF OwnerInv
      <4> QED
        BY <1>2, <4>2, <4>3, Zenon
    <3> QED
      BY <3>1, <3>2, Zenon
  <2>3. ASSUME NEW t \in Stations, NEW q \in Kinds, owner'[t][q] \in DOMAIN pool'
        PROVE  LET o == owner'[t][q]
               IN pool'[o].sta = t /\ pool'[o].kind = q /\ pool'[o].state # First(pool'[o].kind)
    BY <2>2, <2>3 DEF Begun
  <2> QED
    BY <2>1, <2>3, Zenon DEF OwnerInv, Begun
<1>13. HeirInv'
  <2> SUFFICES ASSUME NEW i \in DOMAIN pool', pool'[i].kind = "roaming"
               PROVE  /\ IsRoamingData(data'[i])
                      /\ data'[i].wait.task \in 0..(nextId' - 1)
                      /\ data'[i].wait.task \in DOMAIN pool' =>
                           pool'[data'[i].wait.task].kind = "steering"
    BY Zenon DEF HeirInv, IsRoamingData, IsWait
  <2>0. nextId \in Nat \ {0} /\ nextId' \in Nat /\ nextId <= nextId'
    BY <1>0, <1>1 DEF PoolInv
  <2>1. 0 \notin DOMAIN pool' /\ 0 \in 0..(nextId' - 1) /\ 0..(nextId - 1) \subseteq 0..(nextId' - 1)
    <3>1. 0 \notin DOMAIN pool'
      BY <1>10 DEF PoolInv
    <3> QED
      BY <2>0, <3>1, Grow, Zenon
  <2>2. CASE i \in kept
    <3>0. i \in DOMAIN pool /\ pool[i].kind = "roaming"
      BY <1>2, <2>2, Zenon DEF kept
    <3>1. PICK x : x = data'[i].wait.task
      BY Zenon
    <3>2. IsRoamingData(data'[i])
      BY <1>3, <2>2, <3>0, Zenon
    <3>3. CASE x = data[i].wait.task
      <4>1. x \in 0..(nextId - 1) /\ (x \in DOMAIN pool => pool[x].kind = "steering")
        BY <1>0, <3>0, <3>3, Zenon DEF HeirInv
      <4>2. x \in DOMAIN pool' => x \in kept /\ x \in DOMAIN pool
        BY <1>1, <1>5, <2>0, <4>1 DEF kept
      <4> QED
        BY <1>2, <2>1, <3>1, <3>2, <4>1, <4>2, Zenon
    <3>4. CASE x = 0
      BY <2>1, <3>1, <3>2, <3>4, Zenon
    <3>5. CASE x = nextId /\ e.new.kind = "steering"
      <4>1. e.new # NoTask
        BY <3>5 DEF NoTask
      <4>2. nextId \in added
        BY <4>1, Zenon DEF added
      <4>3. pool'[x].kind = "steering"
        BY <1>5, <3>5, <4>2, Zenon
      <4>4. x \in 0..(nextId' - 1)
        BY <1>1, <2>0, <3>5, <4>1
      <4> QED
        BY <3>1, <3>2, <4>3, <4>4, Zenon
    <3> QED
      BY <1>3, <2>2, <3>0, <3>1, <3>3, <3>4, <3>5, Zenon
  <2>3. CASE i \in added
    <3>1. data'[i] = RoamingData
      BY <1>5, <2>3, Zenon DEF FreshData
    <3>2. IsRoamingData(RoamingData) /\ RoamingData.wait.task = 0
      BY Zenon DEF IsRoamingData, RoamingData, IsWait, NoWait
    <3> QED
      BY <2>1, <3>1, <3>2, Zenon
  <2> QED
    BY <1>1, <2>2, <2>3, Zenon
<1>14. HandoffHasOwner'
  <2> SUFFICES ASSUME NEW t \in Stations, handoff'[t]
               PROVE  \E q \in Steerers : /\ owner'[t][q] \in DOMAIN pool'
                                          /\ ~pool'[owner'[t][q]].done
                                          /\ pool'[owner'[t][q]].state
                                             # First(pool'[owner'[t][q]].kind)
    BY Zenon DEF HandoffHasOwner, Running, is_task_running, Active, Begun
  <2>1. CASE t = s /\ e.flag = "set"
    <3>1. e.takes /\ ~e.done /\ k \in Steerers /\ k \in Kinds
      BY <1>0, <1>6, <2>1, Zenon DEF IsTask
    <3>2. ~pool[id].done /\ owner[s][k] # id
      BY <1>0, <1>6, <3>1 DEF FreshInv, OwnerInv, IsTask
    <3>3. id \in kept
      BY <1>1, <3>1, <3>2, Zenon
    <3>4. id \notin EndedBy(id, e)
      BY <3>1, <3>2, NotItself, Zenon
    <3>5. owner'[t][k] = id
      BY <1>7, <2>1, <3>1
    <3>6. ~pool'[id].done /\ Begun(id)'
      BY <1>2, <3>2, <3>3, <3>4, Zenon
    <3>7. id \in DOMAIN pool'
      BY <3>3, Zenon DEF kept
    <3> QED
      BY <3>1, <3>5, <3>6, <3>7, Zenon DEF Begun
  <2>2. CASE handoff[t] /\ SteerersEnding(t, EndedBy(id, e)) = {}
    <3>1. PICK q \in Steerers : Running(t, q) /\ Active(owner[t][q])
      BY <1>0, <2>2, Zenon DEF HandoffHasOwner
    <3>2. PICK o \in DOMAIN pool : o = owner[t][q] /\ ~pool[o].done /\ Active(o)
      BY <3>1, Zenon DEF Running, is_task_running
    <3>3. q \in Kinds /\ pool[o].sta = t /\ pool[o].kind = q
      BY <1>0, <3>2 DEF OwnerInv, Kinds, Steerers
    <3>4. o \notin EndedBy(id, e)
      BY <2>2, <3>3, Zenon DEF SteerersEnding
    <3>5. ~(e.takes /\ t = s /\ q = k)
      BY <1>8, <3>2, <3>4, Zenon
    <3>6. o \in kept
      BY <1>1, <1>9, <3>2, <3>4, Zenon
    <3>7. ~pool'[o].done /\ Begun(o)'
      BY <1>2, <3>2, <3>4, <3>6, Zenon DEF Active
    <3>8. owner'[t][q] = o /\ o \in DOMAIN pool'
      BY <1>7, <3>2, <3>3, <3>5, <3>6 DEF kept
    <3> QED
      BY <3>7, <3>8, Zenon DEF Begun
  <2> QED
    BY <1>4, <2>1, <2>2, Zenon
<1> QED
  BY <1>10, <1>11, <1>12, <1>13, <1>14, Zenon DEF IInv

-----------------------------------------------------------------------------
(* The client that is on the target. *)

\* A steering task that is at work while its client is on the target has heard of it.
ArrivalInv ==
  /\ \A s \in Stations : "parent" \in DOMAIN station[s]
  /\ \A i \in DOMAIN pool : pool[i].kind = "steering" => IsSteeringData(data[i])
  /\ \A i \in DOMAIN pool :
       /\ pool[i].kind = "steering" /\ Active(i)
       /\ station[pool[i].sta].parent = data[i].target
       => data[i].success

\* The new data of a steering task has its target, and a success is not forgotten.
Remembers(i, d) ==
  IsSteeringData(d) /\ d.target = data[i].target /\ (data[i].success => d.success)

\* handle_event of the steering task: a join on the target is remembered.
LEMMA SteeringHears ==
  ASSUME NEW i, IsSteeringData(data[i]), NEW b
  PROVE  /\ Remembers(i, StaConnected(data[i], b))
         /\ b = data[i].target => StaConnected(data[i], b).success
         /\ Remembers(i, StaDisconnected(data[i]))
         /\ Remembers(i, BtmReportReceived(data[i]))
BY Zenon DEF IsSteeringData, Remembers, StaConnected, StaDisconnected, BtmReportReceived

\* Station t is on the BSS of the entry v.
ParentOf(t, v) ==
  "parent" \in DOMAIN v => "parent" \in DOMAIN station'[t] /\ station'[t].parent = v.parent

\* The BSS of a station after a handler or an execution.
LEMMA AppliedStation ==
  ASSUME NEW s, NEW chg, NEW ended, NEW gone, NEW new, NEW db, NEW flag,
         Apply(s, chg, ended, gone, new, db, flag), NEW t \in Stations
  PROVE  /\ t = s => ParentOf(t, db)
         /\ t # s => ParentOf(t, station[t])
<1>1. ASSUME NEW v, NEW n, "parent" \in DOMAIN v
      PROVE  "parent" \in DOMAIN Lapse(v, n) /\ Lapse(v, n).parent = v.parent
  BY <1>1, Zenon DEF Lapse
<1>2. \E n : station'[t] = Lapse(IF t = s THEN db ELSE station[t], n)
  BY Zenon DEF Apply
<1> QED
  BY <1>1, <1>2, Zenon DEF ParentOf

\* Task i has the data that chg gives it, or its old data, or it is the new task.
DataOf(i, chg, new) ==
  /\ i \in DOMAIN pool => data'[i] = IF i \in DOMAIN chg THEN chg[i].data ELSE data[i]
  /\ i \notin DOMAIN pool =>
       /\ new # NoTask /\ data'[i] = new.data
       /\ pool'[i].kind = new.kind /\ pool'[i].state = First(new.kind)

\* The data of the tasks after it.
LEMMA AppliedData ==
  ASSUME NEW s, NEW chg, NEW ended, NEW gone, NEW new, NEW db, NEW flag,
         Apply(s, chg, ended, gone, new, db, flag), NEW i \in DOMAIN pool'
  PROVE  DataOf(i, chg, new)
<1>1. i \in (DOMAIN pool \ gone) \cup (IF new = NoTask THEN {} ELSE {nextId})
  BY Zenon DEF Apply
<1>2. i \in DOMAIN pool => data'[i] = IF i \in DOMAIN chg THEN chg[i].data ELSE data[i]
  BY <1>1, Zenon DEF Apply
<1>3. ASSUME i \notin DOMAIN pool
      PROVE  /\ new # NoTask /\ data'[i] = new.data
             /\ pool'[i].kind = new.kind /\ pool'[i].state = First(new.kind)
  <2>1. /\ new # NoTask /\ data'[i] = new.data
        /\ pool'[i] = [kind |-> new.kind, sta |-> new.sta,
                       state |-> First(new.kind), done |-> FALSE]
    BY <1>1, <1>3, Zenon DEF Apply
  <2> QED
    BY <2>1
<1> QED
  BY <1>2, <1>3, Zenon DEF DataOf

\* What a handler does for it: no steering task forgets, and a station moves only where
\* its steering task hears of it.
Tells(s, chg, new, db) ==
  /\ s \in Stations => "parent" \in DOMAIN db
  /\ new = NoTask \/ FreshData(new.kind, new.data)
  /\ \A i \in DOMAIN chg \cap DOMAIN pool :
       pool[i].kind = "steering" => Remembers(i, chg[i].data)
  /\ \A i \in DOMAIN pool :
       /\ pool[i].kind = "steering" /\ Active(i) /\ pool[i].sta = s
       /\ db.parent = data[i].target
       => db.parent = station[s].parent \/ (i \in DOMAIN chg /\ chg[i].data.success)

\* Such a handler keeps it.
LEMMA HandlerArrival ==
  ASSUME IInv, ArrivalInv, Handles,
         NEW s, NEW chg, NEW ended, NEW new, NEW db, Apply(s, chg, ended, {}, new, db, "keep"),
         Tells(s, chg, new, db)
  PROVE  ArrivalInv'
<1>1. /\ DOMAIN pool \subseteq DOMAIN pool' /\ nextId \notin DOMAIN pool
      /\ \A i \in DOMAIN pool :
           /\ pool'[i].kind = pool[i].kind /\ pool'[i].sta = pool[i].sta
           /\ pool[i].sta \in Stations /\ (Active(i)' => Active(i))
  <2>1. PICK over, task : InputStep(over, task)
    BY Zenon DEF Handles
  <2> QED
    BY <2>1, Zenon DEF InputStep, Active, IsTask
<1>2. ASSUME NEW t \in Stations
      PROVE  "parent" \in DOMAIN station'[t]
  <2>1. (t = s => ParentOf(t, db)) /\ (t # s => ParentOf(t, station[t]))
    BY AppliedStation, Zenon
  <2> QED
    BY <2>1, Zenon DEF ArrivalInv, Tells, ParentOf
<1>3. ASSUME NEW i \in DOMAIN pool, pool[i].kind = "steering"
      PROVE  Remembers(i, data'[i])
  <2>1. Remembers(i, data[i])
    BY <1>3, Zenon DEF ArrivalInv, Remembers
  <2>2. DataOf(i, chg, new)
    BY <1>1, AppliedData, Zenon
  <2> QED
    BY <1>3, <2>1, <2>2, Zenon DEF Tells, DataOf
<1>4. ASSUME NEW i \in DOMAIN pool' \ DOMAIN pool, pool'[i].kind = "steering"
      PROVE  IsSteeringData(data'[i]) /\ ~Active(i)'
  <2>1. DataOf(i, chg, new)
    BY AppliedData, Zenon
  <2> QED
    BY <1>4, <2>1, Zenon DEF DataOf, Tells, FreshData, Active, Begun
<1>5. ASSUME NEW i \in DOMAIN pool, pool[i].kind = "steering", Active(i)',
             station'[pool[i].sta].parent = data'[i].target
      PROVE  data'[i].success
  <2>1. Active(i) /\ pool[i].sta \in Stations /\ i \in DOMAIN pool'
    BY <1>1, <1>5, Zenon
  <2>2. data'[i].target = data[i].target /\ (data[i].success => data'[i].success)
    BY <1>3, <1>5, Zenon DEF Remembers
  <2>3. station[pool[i].sta].parent = data[i].target => data[i].success
    BY <1>5, <2>1, Zenon DEF ArrivalInv
  <2>4. CASE pool[i].sta = s
    <3>1. ParentOf(s, db)
      BY <2>1, <2>4, AppliedStation, Zenon
    <3>2. db.parent = data[i].target
      BY <1>5, <2>1, <2>2, <2>4, <3>1, Zenon DEF ParentOf, Tells
    <3>3. DataOf(i, chg, new)
      BY <2>1, AppliedData, Zenon
    <3>4. i \in DOMAIN chg => data'[i] = chg[i].data
      BY <3>3, Zenon DEF DataOf
    <3> QED
      BY <1>5, <2>1, <2>2, <2>3, <2>4, <3>2, <3>4, Zenon DEF Tells
  <2>5. CASE pool[i].sta # s
    <3>1. ParentOf(pool[i].sta, station[pool[i].sta])
      BY <2>1, <2>5, AppliedStation, Zenon
    <3>2. station'[pool[i].sta].parent = station[pool[i].sta].parent
      BY <2>1, <3>1, Zenon DEF ArrivalInv, ParentOf
    <3> QED
      BY <1>5, <2>2, <2>3, <3>2, Zenon
  <2> QED
    BY <2>4, <2>5, Zenon
<1> QED
  BY <1>1, <1>2, <1>3, <1>4, <1>5, Zenon DEF ArrivalInv, Remembers

\* The handlers that add a task keep it.
LEMMA AddArrival ==
  ASSUME IInv, ArrivalInv, Handles, NEW s \in Stations, NEW new,
         FreshData(new.kind, new.data), Adds(s, new)
  PROVE  ArrivalInv'
<1>1. Apply(s, NoChange, {}, {}, new, station[s], "keep") /\ DOMAIN NoChange = {}
  BY Zenon DEF Adds, NoChange
<1>2. "parent" \in DOMAIN station[s]
  BY Zenon DEF ArrivalInv
<1> QED
  BY <1>1, <1>2, HandlerArrival, Zenon DEF Tells

\* A steering task at work hears what happens to its station.
LEMMA ActiveListens ==
  ASSUME IInv, NEW i \in DOMAIN pool, pool[i].kind = "steering", Active(i)
  PROVE  i \in Listeners(pool[i].sta)
<1>1. owner[pool[i].sta]["steering"] = i /\ ~pool[i].done
  <2>1. owner[pool[i].sta][pool[i].kind] = i
    BY Zenon DEF IInv, OwnerInv
  <2> QED
    BY <2>1, Zenon DEF Active
<1>2. "steering" \in {k \in Steerers : Running(pool[i].sta, k)}
  BY <1>1, Zenon DEF Running, is_task_running, Steerers
<1> QED
  BY <1>1, <1>2, Zenon DEF Listeners

\* A join keeps it: the steering task at work hears of it.
LEMMA JoinArrival ==
  ASSUME IInv, ArrivalInv, Handles, NEW s \in Stations, NEW b, StaJoined(s, b)
  PROVE  ArrivalInv'
<1> DEFINE chg == [i \in Listeners(s) |-> [state |-> pool[i].state,
                                           data |-> StaConnected(data[i], b)]]
           new == NewTask("association", s, AssociationData)
           db == [station[s] EXCEPT !.parent = b, !.connected = TRUE]
<1>1. Apply(s, chg, {}, {}, new, db, "keep")
  BY Zenon DEF StaJoined, Hearing
<1>2. DOMAIN chg = Listeners(s) /\ \A i \in Listeners(s) : chg[i].data = StaConnected(data[i], b)
  BY Zenon
<1>3. FreshData(new.kind, new.data)
  BY Zenon DEF NewTask, AssociationData, FreshData
<1>4. "parent" \in DOMAIN db /\ db.parent = b
  BY Zenon DEF ArrivalInv
<1> HIDE DEF chg, new, db
<1>5. ASSUME NEW i \in DOMAIN pool, pool[i].kind = "steering"
      PROVE  /\ i \in DOMAIN chg => Remembers(i, chg[i].data)
             /\ i \in DOMAIN chg /\ b = data[i].target => chg[i].data.success
  <2>1. IsSteeringData(data[i])
    BY <1>5, Zenon DEF ArrivalInv
  <2> QED
    BY <1>2, <2>1, SteeringHears, Zenon
<1>6. \A i \in DOMAIN pool : pool[i].kind = "steering" /\ Active(i) /\ pool[i].sta = s
                             => i \in DOMAIN chg
  BY <1>2, ActiveListens, Zenon
<1>7. Tells(s, chg, new, db)
  BY <1>3, <1>4, <1>5, <1>6, Zenon DEF Tells
<1> QED
  BY <1>1, <1>7, HandlerArrival, Zenon

\* A departure keeps it: the database keeps the BSS.
LEMMA LeaveArrival ==
  ASSUME IInv, ArrivalInv, Handles, NEW s \in Stations, NEW b, StaLeft(s, b)
  PROVE  ArrivalInv'
<1> DEFINE current == station[s].parent = b
           ids == IF current THEN Listeners(s) ELSE {}
           chg == [i \in ids |-> [state |-> pool[i].state, data |-> StaDisconnected(data[i])]]
           db == [station[s] EXCEPT !.connected = @ /\ ~current]
<1>1. PICK ended : Apply(s, chg, ended, {}, NoTask, db, "keep")
  BY Zenon DEF StaLeft, Hearing
<1>2. \A i \in DOMAIN chg : chg[i].data = StaDisconnected(data[i])
  BY Zenon
<1>3. "parent" \in DOMAIN db /\ db.parent = station[s].parent
  BY Zenon DEF ArrivalInv
<1> HIDE DEF chg, db
<1>4. \A i \in DOMAIN chg \cap DOMAIN pool :
        pool[i].kind = "steering" => Remembers(i, chg[i].data)
  BY <1>2, SteeringHears, Zenon DEF ArrivalInv
<1>5. Tells(s, chg, NoTask, db)
  BY <1>3, <1>4, Zenon DEF Tells
<1> QED
  BY <1>1, <1>5, HandlerArrival, Zenon

\* A BTM report keeps it.
LEMMA ReportArrival ==
  ASSUME IInv, ArrivalInv, Handles, NEW s \in Stations, NEW accepted, BtmReport(s, accepted)
  PROVE  ArrivalInv'
<1> DEFINE chg == [i \in Listeners(s) |-> [state |-> pool[i].state,
                                           data |-> BtmReportReceived(data[i])]]
           db == [station[s] EXCEPT !.supports11v = TRUE, !.failed11v = 0]
<1>1. PICK ended : Apply(s, chg, ended, {}, NoTask, db, "keep")
  BY Zenon DEF BtmReport, Hearing
<1>2. \A i \in DOMAIN chg : chg[i].data = BtmReportReceived(data[i])
  BY Zenon
<1>3. "parent" \in DOMAIN db /\ db.parent = station[s].parent
  BY Zenon DEF ArrivalInv
<1> HIDE DEF chg, db
<1>4. \A i \in DOMAIN chg \cap DOMAIN pool :
        pool[i].kind = "steering" => Remembers(i, chg[i].data)
  BY <1>2, SteeringHears, Zenon DEF ArrivalInv
<1>5. Tells(s, chg, NoTask, db)
  BY <1>3, <1>4, Zenon DEF Tells
<1> QED
  BY <1>1, <1>5, HandlerArrival, Zenon

\* The support of beacon measurements is kept apart from the BSS.
LEMMA BeaconParent ==
  ASSUME ArrivalInv, NEW s \in Stations, NEW b
  PROVE  /\ "parent" \in DOMAIN WithBeacon(station[s], b)
         /\ WithBeacon(station[s], b).parent = station[s].parent
BY Zenon DEF ArrivalInv, WithBeacon

\* The answer of an agent keeps it: no steering task asks.
LEMMA AnswerArrival ==
  ASSUME IInv, ArrivalInv, Handles, NEW id \in DOMAIN pool, Asking(id), NEW r, NEW good,
         Respond(id, r, good)
  PROVE  ArrivalInv'
<1>1. PICK e, ended : Apply(pool[id].sta, [i \in {id} |-> [state |-> e.state, data |-> e.data]],
                            ended, {}, NoTask, WithBeacon(station[pool[id].sta], e.beacon), "keep")
  BY Zenon DEF Respond
<1>2. pool[id].sta \in Stations /\ pool[id].kind # "steering"
  BY Zenon DEF IInv, PoolInv, IsTask, Asking
<1> DEFINE chg == [i \in {id} |-> [state |-> e.state, data |-> e.data]]
<1>3. DOMAIN chg = {id} /\ Apply(pool[id].sta, chg, ended, {}, NoTask,
                                 WithBeacon(station[pool[id].sta], e.beacon), "keep")
  BY <1>1, Zenon
<1> HIDE DEF chg
<1>4. Tells(pool[id].sta, chg, NoTask, WithBeacon(station[pool[id].sta], e.beacon))
  BY <1>2, <1>3, BeaconParent, Zenon DEF Tells
<1> QED
  BY <1>3, <1>4, HandlerArrival, Zenon

\* The death of a radio keeps it.
LEMMA RadioDeadArrival ==
  ASSUME IInv, ArrivalInv, Handles, NEW b, RadioDead(b)
  PROVE  ArrivalInv'
<1>1. PICK s, ended : Apply(s, NoChange, ended, {}, NoTask, station[s], "keep")
  BY Zenon DEF RadioDead
<1>2. DOMAIN NoChange = {}
  BY Zenon DEF NoChange
<1> QED
  BY <1>1, <1>2, HandlerArrival, Zenon DEF ArrivalInv, Tells

\* Every handler keeps it.
LEMMA HandlersArrival ==
  ASSUME IInv, ArrivalInv, Next, ~RunTask, ~RunLateTask
  PROVE  ArrivalInv' /\ DOMAIN pool \subseteq DOMAIN pool'
<1>1. Handles
  BY HandlerSteps, Zenon
<1>2. ASSUME NEW s \in Stations, NEW c \in Commands, SteerSta(s, c)
      PROVE  ArrivalInv'
  <2> DEFINE new == NewTask("steering", s, SteeringData(c.target, c.imminent, c.restricted))
  <2>1. FreshData(new.kind, new.data)
    BY Zenon DEF NewTask, SteeringData, FreshData, IsSteeringData
  <2>2. Adds(s, new)
    BY <1>2, Zenon DEF SteerSta
  <2> HIDE DEF new
  <2> QED
    BY <1>1, <2>1, <2>2, AddArrival, Zenon
<1>3. ASSUME NEW s \in Stations, NEW c \in Commands, StartBtmRequestTask(s, c)
      PROVE  ArrivalInv'
  <2> DEFINE new == NewTask("btm", s, BtmData(c.target, c.imminent))
  <2>1. FreshData(new.kind, new.data)
    BY Zenon DEF NewTask, BtmData, FreshData
  <2>2. Adds(s, new)
    BY <1>3, Zenon DEF StartBtmRequestTask
  <2> HIDE DEF new
  <2> QED
    BY <1>1, <2>1, <2>2, AddArrival, Zenon
<1>4. ASSUME NEW s \in Stations, RssiNotification(s) \/ NoActivityNotification(s)
      PROVE  ArrivalInv'
  <2> DEFINE new == NewTask("roaming", s, RoamingData)
  <2>1. FreshData(new.kind, new.data)
    BY Zenon DEF NewTask, RoamingData, FreshData
  <2>2. Adds(s, new)
    BY <1>4, Zenon DEF RssiNotification, NoActivityNotification
  <2> HIDE DEF new
  <2> QED
    BY <1>1, <2>1, <2>2, AddArrival, Zenon
<1>5. ArrivalInv'
  BY <1>1, <1>2, <1>3, <1>4, JoinArrival, LeaveArrival, ReportArrival, AnswerArrival,
     RadioDeadArrival, Zenon DEF Next
<1>6. DOMAIN pool \subseteq DOMAIN pool'
  BY <1>1, Zenon DEF Handles, InputStep
<1> QED
  BY <1>5, <1>6, Zenon

\* The execution of a steering task: it remembers; if it begins and goes on, the client was
\* not on the target; if it had begun and counts a failure, it has not heard of the client there.
LEMMA SteeringArrival ==
  ASSUME IInv, ArrivalInv, NEW id \in DOMAIN pool, pool[id].kind = "steering",
         NEW late \in BOOLEAN, NEW e \in Executions(id, late)
  PROVE  /\ Remembers(id, e.data)
         /\ ~Begun(id) /\ ~e.done => station[pool[id].sta].parent # data[id].target
         /\ Begun(id) /\ "failures" \in e.counts => ~pool[id].done /\ ~data[id].success
<1> DEFINE w == data[id].wait
           n == AfterWaiting(w, late)
           d == [data[id] EXCEPT !.wait = n]
<1>1. IsSteeringData(data[id])
  BY Zenon DEF ArrivalInv
<1>2. /\ IsSteeringData(d) /\ Remembers(id, d)
      /\ d.target = data[id].target /\ d.success = data[id].success
  <2> HIDE DEF n
  <2> QED
    BY <1>1, Zenon DEF IsSteeringData, Remembers
<1>3. ~Begun(id) => ~Overdue(w, late) /\ ~Waiting(n) /\ ~pool[id].done
  BY DEF IInv, FreshInv, NoWait, Overdue, Waiting, AfterWaiting
<1>4. \/ e = Moves(pool[id].state, d) /\ Begun(id)
      \/ e \in SteeringWork(id, d) /\ ~pool[id].done
  <2> HIDE DEF d
  <2>1. Overdue(w, late) => e = Moves(pool[id].state, d)
    BY Zenon DEF Executions, handle_responses_timeout, d
  <2>2. ~Overdue(w, late) /\ ~Waiting(n) /\ ~pool[id].done => e \in SteeringWork(id, d)
    BY Zenon DEF Executions, Work, d
  <2>3. ~Overdue(w, late) /\ ~(~Waiting(n) /\ ~pool[id].done) => e = Moves(pool[id].state, d)
    BY Zenon DEF Executions, d
  <2> QED
    BY <1>3, <2>1, <2>2, <2>3, Zenon
<1> HIDE DEF d
<1>5. CASE e = Moves(pool[id].state, d) /\ Begun(id)
  BY <1>2, <1>5, Zenon DEF Moves
<1>6. CASE e \in SteeringWork(id, d) /\ ~pool[id].done
  <2>1. PICK resolved \in BOOLEAN :
          e = IF pool[id].state = "STEER" THEN Steer(id, d, resolved)
              ELSE SteeringFinalize(id, d, resolved)
    BY <1>6, Zenon DEF SteeringWork
  <2>2. Begun(id) <=> pool[id].state # "STEER"
    BY FirstStates, Zenon DEF Begun
  <2>3. CASE pool[id].state = "STEER"
    <3> DEFINE v == station[pool[id].sta]
               sent == [d EXCEPT !.tryPerformed = ~v.bSta]
               asked == [sent EXCEPT !.wait =
                           wait_for_events(@, {"STA_DISCONNECTED", "STA_CONNECTED"})]
    <3>1. \/ \E cs : e = Counting(Taking(Finishes(id, d)), cs)
          \/ v.parent # d.target /\ e = Counting(Taking(Ending(Moves("FINALIZE", sent))), {"attempts"})
          \/ v.parent # d.target
             /\ e = [Counting(Taking(Moves("FINALIZE", asked)), {"attempts"}) EXCEPT
                       !.flag = IF v.bSta THEN "keep" ELSE "set"]
      <4> HIDE DEF sent, asked, v
      <4> QED
        BY <2>1, <2>3, Zenon DEF Steer, sent, asked, v
    <3>2. Remembers(id, sent) /\ IsSteeringData(sent)
      BY <1>2, Zenon DEF IsSteeringData, Remembers
    <3>3. Remembers(id, asked)
      <4> HIDE DEF sent
      <4> QED
        BY <3>2, Zenon DEF IsSteeringData, Remembers
    <3> HIDE DEF v, sent, asked
    <3>4. ASSUME NEW cs, e = Counting(Taking(Finishes(id, d)), cs)
          PROVE  e.data = d /\ e.done
      BY <3>4, Zenon DEF Counting, Taking, Finishes, Ending, Moves
    <3>5. CASE e = Counting(Taking(Ending(Moves("FINALIZE", sent))), {"attempts"})
      <4>1. e.data = sent /\ e.done
        BY <3>5, Zenon DEF Counting, Taking, Ending, Moves
      <4> QED
        BY <2>2, <2>3, <3>2, <4>1, Zenon
    <3>6. CASE v.parent # d.target
               /\ e = [Counting(Taking(Moves("FINALIZE", asked)), {"attempts"}) EXCEPT
                         !.flag = IF v.bSta THEN "keep" ELSE "set"]
      <4>1. e.data = asked
        BY <3>6, Zenon DEF Counting, Taking, Moves
      <4> QED
        BY <1>2, <2>2, <2>3, <3>3, <3>6, <4>1, Zenon DEF v
    <3> QED
      BY <1>2, <2>2, <2>3, <3>1, <3>4, <3>5, <3>6, Zenon
  <2>4. CASE pool[id].state # "STEER"
    <3>1. e = Counting(Finishes(id, d), IF resolved THEN {Outcome(d)} ELSE {})
      BY <2>1, <2>4, Zenon DEF SteeringFinalize
    <3>2. e.data = d /\ e.counts = IF resolved THEN {Outcome(d)} ELSE {}
      BY <3>1, Zenon DEF Counting, Finishes, Ending, Moves
    <3>3. Outcome(d) = "failures" => ~d.success
      BY Zenon DEF Outcome
    <3> QED
      BY <1>2, <1>6, <2>2, <2>4, <3>2, <3>3, Zenon
  <2> QED
    BY <2>3, <2>4, Zenon
<1> QED
  BY <1>4, <1>5, <1>6, Zenon

\* An execution keeps it.
LEMMA ExecArrival ==
  ASSUME IInv, ArrivalInv, NEW id \in DOMAIN pool, NEW late \in BOOLEAN,
         NEW e \in Executions(id, late), Execute(id, e), ExecStep(id, e), GoodEffect(id, e)
  PROVE  ArrivalInv'
<1>0. /\ IsTask(pool[id]) /\ nextId \notin DOMAIN pool
      /\ \A i \in DOMAIN pool : pool[i].sta \in Stations
  BY Zenon DEF IInv, PoolInv, IsTask, ExecStep
<1> DEFINE s == pool[id].sta
           over == e.done \/ pool[id].done
           heirs == {i \in DOMAIN pool : pool[i].kind = "roaming" /\ data[i].wait.task = id}
           told(i) == [state |-> pool[i].state,
                       data |-> [data[i] EXCEPT !.wait.forTask = FALSE]]
           chg == [i \in {id} \cup (IF over THEN heirs ELSE {}) |->
                     IF i = id THEN [state |-> e.state, data |-> e.data] ELSE told(i)]
<1>1. PICK ended, gone : Apply(s, chg, ended, gone, e.new, WithBeacon(station[s], e.beacon), e.flag)
  BY Zenon DEF Execute
<1>2. /\ id \in DOMAIN chg /\ chg[id].data = e.data
      /\ \A i \in DOMAIN chg : i # id => pool[i].kind = "roaming"
  BY Zenon
<1> HIDE DEF chg
<1>3. ASSUME NEW t \in Stations
      PROVE  "parent" \in DOMAIN station'[t] /\ station'[t].parent = station[t].parent
  <2>1. "parent" \in DOMAIN station[t]
    BY Zenon DEF ArrivalInv
  <2> DEFINE db == WithBeacon(station[s], e.beacon)
  <2>2. s \in Stations /\ "parent" \in DOMAIN db /\ db.parent = station[s].parent
    BY <1>0, BeaconParent, Zenon DEF IsTask
  <2>3. (t = s => ParentOf(t, db)) /\ (t # s => ParentOf(t, station[t]))
    BY <1>1, AppliedStation, Zenon
  <2> HIDE DEF db
  <2> QED
    BY <2>1, <2>2, <2>3, Zenon DEF ParentOf
<1>4. ASSUME NEW i \in DOMAIN pool \cap DOMAIN pool', pool[i].kind = "steering"
      PROVE  /\ Remembers(i, data'[i]) /\ pool'[i].kind = "steering" /\ pool'[i].sta = pool[i].sta
             /\ Active(i)' /\ i # id => Active(i)
             /\ Active(i)' /\ i = id => ~pool[i].done /\ ~e.done
  <2>0. DataOf(i, chg, e.new)
    BY <1>1, AppliedData, Zenon
  <2>1. data'[i] = IF i \in DOMAIN chg THEN chg[i].data ELSE data[i]
    BY <2>0, Zenon DEF DataOf
  <2>2. Remembers(i, data[i])
    BY <1>4, Zenon DEF ArrivalInv, Remembers
  <2>3. Remembers(i, data'[i])
    BY <1>2, <1>4, <2>1, <2>2, SteeringArrival, Zenon
  <2> QED
    BY <1>0, <1>4, <2>3, Zenon DEF ExecStep, Active
<1>5. ASSUME NEW i \in DOMAIN pool' \ DOMAIN pool, pool'[i].kind = "steering"
      PROVE  IsSteeringData(data'[i]) /\ ~Active(i)'
  <2>1. i = nextId /\ e.new # NoTask
    BY Zenon DEF ExecStep
  <2> QED
    BY <1>5, <2>1, Zenon DEF ExecStep, FreshData, Active, Begun
<1>6. ASSUME NEW i \in DOMAIN pool \cap DOMAIN pool', pool[i].kind = "steering", Active(i)',
             station'[pool[i].sta].parent = data'[i].target
      PROVE  data'[i].success
  <2>1. station[pool[i].sta].parent = data[i].target /\ (data[i].success => data'[i].success)
    BY <1>0, <1>3, <1>4, <1>6, Zenon DEF Remembers
  <2>2. Active(i)
    <3>1. CASE i = id
      BY <1>4, <1>6, <2>1, <3>1, SteeringArrival, Zenon DEF Active
    <3> QED
      BY <1>4, <1>6, <3>1, Zenon
  <2> QED
    BY <1>6, <2>1, <2>2, Zenon DEF ArrivalInv
<1>7. \A i \in DOMAIN pool \cap DOMAIN pool' : pool'[i].kind = pool[i].kind
  BY Zenon DEF ExecStep
<1> QED
  BY <1>3, <1>4, <1>5, <1>6, <1>7, Zenon DEF ArrivalInv, Remembers

=============================================================================
