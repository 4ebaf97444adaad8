------------------------- MODULE StationTasks_proof -------------------------
(***************************************************************************)
(* Proofs about StationTasks, for any stations, BSSs, commands, settings   *)
(* and numbers of inputs: one task of a kind at work per station, the      *)
(* owner of the handoff flag, the sums of the steering summary, the client *)
(* on the target that counts as no failure, and that StationTasks          *)
(* implements TaskSuccession.                                              *)
(***************************************************************************)
EXTENDS TaskSteps_proof, FiniteSetTheorems, WellFoundedInduction

\* run_tasks executes the next task.
Executes ==
  \E id, e :
    /\ id \in DOMAIN pool
    /\ id > cursor /\ \A j \in DOMAIN pool : j > cursor => id <= j
    /\ GoodEffect(id, e) /\ ExecStep(id, e)
    /\ owner' = IF e.takes THEN [owner EXCEPT ![pool[id].sta][pool[id].kind] = id] ELSE owner
    /\ cursor' = IF \E i \in DOMAIN pool' : i > id THEN id ELSE 0
    /\ stats' = Counted(pool[id].sta, e.counts)

\* There is a next task when there is a task left.
LEMMA NextTaskIsNext ==
  ASSUME PoolInv, Pending # {}
  PROVE  /\ NextTask \in DOMAIN pool /\ NextTask > cursor
         /\ \A j \in DOMAIN pool : j > cursor => NextTask <= j
<1>1. Pending \subseteq Nat
  BY DEF PoolInv, Pending
<1>2. PICK x \in Pending : \A y \in Pending : ~(<<y, x>> \in OpToRel(<, Nat))
  BY <1>1, NatLessThanWellFounded, WFMin, Zenon
<1>3. \A y \in Pending : x <= y
  <2> SUFFICES ASSUME NEW y \in Pending
               PROVE  x <= y
    BY Zenon
  <2>1. x \in Nat /\ y \in Nat
    BY <1>1, Zenon
  <2>2. y < x => <<y, x>> \in OpToRel(<, Nat)
    BY <2>1, Zenon DEF OpToRel
  <2>3. ~(y < x)
    BY <1>2, <2>2, Zenon
  <2> QED
    BY <2>1, <2>3
<1>4. NextTask \in Pending /\ \A j \in Pending : NextTask <= j
  BY <1>3, Zenon DEF NextTask
<1> QED
  BY <1>4, Zenon DEF Pending

\* The execution of the next task.
LEMMA RunStep ==
  ASSUME IInv, NEW late \in BOOLEAN, RunNextTask(late)
  PROVE  Executes
<1>1. PoolInv /\ FreshInv /\ HeirInv /\ Pending # {}
  BY Zenon DEF IInv, RunNextTask
<1>2. PICK id : id = NextTask
  BY Zenon
<1>3. /\ id \in DOMAIN pool /\ id > cursor
      /\ \A j \in DOMAIN pool : j > cursor => id <= j
  BY <1>1, <1>2, NextTaskIsNext, Zenon
<1>4. PICK e \in Executions(id, late) : Execute(id, e)
  BY <1>2, Zenon DEF RunNextTask
<1>5. GoodEffect(id, e)
  BY <1>1, <1>3, ExecutionEffects, Zenon
<1>6. ExecStep(id, e)
  BY <1>3, <1>4, <1>5, ExecPool, Zenon
<1>7. /\ owner' = IF e.takes THEN [owner EXCEPT ![pool[id].sta][pool[id].kind] = id] ELSE owner
      /\ cursor' = IF \E i \in DOMAIN pool' : i > id THEN id ELSE 0
      /\ stats' = Counted(pool[id].sta, e.counts)
  BY <1>4, Zenon DEF Execute
<1> QED
  BY <1>3, <1>5, <1>6, <1>7, Zenon DEF Executes

-----------------------------------------------------------------------------
(* Invariance. *)

\* Every step has one of the two forms.
LEMMA StepKinds == IInv /\ Next => Handles \/ Executes
BY HandlerSteps, RunStep, Zenon DEF RunTask, RunLateTask

\* The inductive invariant holds of every behaviour.
THEOREM StationInvariance == Spec => []IInv
<1>1. IInv /\ [Next]_vars => IInv'
  <2>1. ASSUME IInv, Next
        PROVE  IInv'
    <3>1. CASE Handles
      <4>1. PICK chg, ended, new : /\ GoodInput(chg, ended, new) /\ InputStep(ended, new)
                                   /\ cursor' = cursor /\ owner' = owner
        BY <3>1, Zenon DEF Handles
      <4> QED
        BY <2>1, <4>1, InputInv, Zenon
    <3>2. CASE Executes
      <4>1. PICK id, e :
              /\ id \in DOMAIN pool
              /\ id > cursor /\ \A j \in DOMAIN pool : j > cursor => id <= j
              /\ GoodEffect(id, e) /\ ExecStep(id, e)
              /\ owner' = IF e.takes THEN [owner EXCEPT ![pool[id].sta][pool[id].kind] = id]
                          ELSE owner
              /\ cursor' = IF \E i \in DOMAIN pool' : i > id THEN id ELSE 0
        BY <3>2, Zenon DEF Executes
      <4> QED
        BY <2>1, <4>1, ExecInv, Zenon
    <3> QED
      BY <2>1, <3>1, <3>2, StepKinds, Zenon
  <2>2. ASSUME IInv, UNCHANGED vars
        PROVE  IInv'
    <3>1. pool' = pool /\ data' = data /\ cursor' = cursor /\ nextId' = nextId
          /\ owner' = owner /\ handoff' = handoff
      BY <2>2, Zenon DEF vars, taskVars
    <3> QED
      BY <2>2, <3>1, SMTT(30) DEF IInv, PoolInv, FreshInv, OwnerInv, HeirInv, HandoffHasOwner, Begun,
         Active, Running, is_task_running
  <2> QED
    BY <2>1, <2>2, Zenon
<1> QED
  BY <1>1, InitInv, PTL DEF Spec

\* The state is always made of known tasks, owners and counters.
THEOREM TypeOKHolds == Spec => []TypeOK
<1>1. IInv => TypeOK
  BY Zenon DEF IInv, PoolInv, TypeOK, IsTask
<1> QED
  BY <1>1, StationInvariance, PTL

\* For any number of stations and any interleaving, a station has at most one
\* task of a kind at work.
THEOREM OneTaskPerStationHolds == Spec => []OneTaskPerStation
<1>1. IInv => OneTaskPerStation
  BY Zenon DEF IInv, OwnerInv, OneTaskPerStation
<1> QED
  BY <1>1, StationInvariance, PTL

\* A handoff flag that is set always has a steering or BTM task at work that
\* will clear it.
THEOREM HandoffHasOwnerHolds == Spec => []HandoffHasOwner
<1>1. IInv => HandoffHasOwner
  BY Zenon DEF IInv
<1> QED
  BY <1>1, StationInvariance, PTL

-----------------------------------------------------------------------------
(* The steering summary. *)

\* The steering and BTM tasks of s at work.
AtWork(s) == {i \in DOMAIN pool : /\ pool[i].sta = s
                                  /\ pool[i].kind \in Steerers
                                  /\ Active(i)}

CountInv ==
  /\ stats \in [Stations -> [attempts : Nat, successes : Nat, failures : Nat]]
  /\ \A s \in Stations :
       stats[s].successes + stats[s].failures + Cardinality(AtWork(s)) <= stats[s].attempts

\* The tasks at work are finitely many.
LEMMA AtWorkFinite ==
  ASSUME PoolInv, NEW s
  PROVE  IsFiniteSet(AtWork(s)) /\ Cardinality(AtWork(s)) \in Nat
<1>1. AtWork(s) \in SUBSET (1..(nextId - 1)) /\ nextId - 1 \in Int
  BY DEF PoolInv, AtWork
<1>2. IsFiniteSet(1..(nextId - 1))
  BY <1>1, FS_Interval
<1>3. IsFiniteSet(AtWork(s))
  BY <1>1, <1>2, FS_Subset, Zenon
<1> QED
  BY <1>3, FS_CardinalityType, Zenon

\* A handler sets no task to work.
LEMMA InputAtWork ==
  ASSUME NEW ended, NEW new, InputStep(ended, new), NEW s
  PROVE  AtWork(s)' \subseteq AtWork(s)
<1> SUFFICES ASSUME NEW i \in AtWork(s)'
             PROVE  i \in AtWork(s)
  BY Zenon
<1>1. i \in DOMAIN pool' /\ pool'[i].sta = s /\ pool'[i].kind \in Steerers
      /\ Begun(i)' /\ ~pool'[i].done
  BY Zenon DEF AtWork, Active
<1>2. i \in DOMAIN pool
  <2>1. CASE new # NoTask /\ i = nextId
    <3>1. pool'[i].state = First(pool'[i].kind)
      BY <2>1, Zenon DEF InputStep
    <3> QED
      BY <1>1, <3>1, Zenon DEF Begun
  <2> QED
    BY <1>1, <2>1, Zenon DEF InputStep
<1> QED
  BY <1>1, <1>2, Zenon DEF InputStep, AtWork, Active

\* An execution sets at most the executed task to work, if it takes its place.
LEMMA ExecAtWork ==
  ASSUME NEW id \in DOMAIN pool, NEW e, GoodEffect(id, e), ExecStep(id, e), NEW s
  PROVE  /\ AtWork(s)' \subseteq AtWork(s) \cup {id}
         /\ e.done => id \notin AtWork(s)'
         /\ id \in AtWork(s)' => /\ s = pool[id].sta
                                 /\ \/ id \in AtWork(s)
                                    \/ e.takes /\ ~e.done /\ pool[id].kind \in Steerers
<1>1. ASSUME NEW i \in AtWork(s)'
      PROVE  /\ i \in DOMAIN pool \cap DOMAIN pool'
             /\ pool[i].sta = s /\ pool[i].kind \in Steerers /\ ~pool[i].done
             /\ i # id => Begun(i)
             /\ i = id => ~e.done
  <2>1. i \in DOMAIN pool' /\ pool'[i].sta = s /\ pool'[i].kind \in Steerers
        /\ Begun(i)' /\ ~pool'[i].done
    BY Zenon DEF AtWork, Active
  <2>2. i \in DOMAIN pool
    <3>1. CASE e.new # NoTask /\ i = nextId
      <4>1. pool'[i].state = First(pool'[i].kind)
        BY <3>1, Zenon DEF ExecStep
      <4> QED
        BY <2>1, <4>1, Zenon DEF Begun
    <3> QED
      BY <2>1, <3>1, Zenon DEF ExecStep
  <2>3. i = id => ~e.done
    <3>1. nextId \notin DOMAIN pool
      BY Zenon DEF ExecStep
    <3> QED
      BY <2>1, <2>2, <3>1, Zenon DEF ExecStep
  <2>4. /\ pool'[i].kind = pool[i].kind /\ pool'[i].sta = pool[i].sta
        /\ pool'[i].done = (pool[i].done \/ i \in EndedBy(id, e))
        /\ i # id => Begun(i)' = Begun(i)
    BY <2>1, <2>2, Zenon DEF ExecStep
  <2> QED
    BY <2>1, <2>2, <2>3, <2>4, Zenon
<1>2. AtWork(s)' \subseteq AtWork(s) \cup {id}
  BY <1>1, Zenon DEF AtWork, Active
<1>3. id \in AtWork(s)' => \/ id \in AtWork(s)
                           \/ e.takes /\ ~e.done /\ pool[id].kind \in Steerers
  <2> SUFFICES ASSUME id \in AtWork(s)', ~Begun(id)
               PROVE  e.takes /\ ~e.done /\ pool[id].kind \in Steerers
    BY <1>1, Zenon DEF AtWork, Active
  <2> QED
    BY <1>1, Zenon DEF GoodEffect
<1> QED
  BY <1>1, <1>2, <1>3, Zenon

\* The counters before and after an execution.
LEMMA CountedStats ==
  ASSUME CountInv, NEW s \in Stations, NEW cs, stats' = Counted(s, cs), NEW t \in Stations
  PROVE  /\ stats'[t] \in [attempts : Nat, successes : Nat, failures : Nat]
         /\ t # s => stats'[t] = stats[t]
         /\ t = s =>
              /\ stats'[t].attempts = IF "attempts" \in cs THEN stats[t].attempts + 1
                                                           ELSE stats[t].attempts
              /\ stats'[t].successes = IF "successes" \in cs THEN stats[t].successes + 1
                                                             ELSE stats[t].successes
              /\ stats'[t].failures = IF "failures" \in cs THEN stats[t].failures + 1
                                                           ELSE stats[t].failures
<1>1. stats \in [Stations -> [attempts : Nat, successes : Nat, failures : Nat]]
  BY Zenon DEF CountInv
<1> DEFINE r == [c \in DOMAIN stats[s] |-> IF c \in cs THEN stats[s][c] + 1 ELSE stats[s][c]]
<1>2. stats'[s] = r /\ \A u \in Stations : u # s => stats'[u] = stats[u]
  BY <1>1, Zenon DEF Counted
<1>3. DOMAIN stats[s] = {"attempts", "successes", "failures"}
  BY <1>1, Zenon
<1>4. /\ r \in [attempts : Nat, successes : Nat, failures : Nat]
      /\ r.attempts = IF "attempts" \in cs THEN stats[s].attempts + 1 ELSE stats[s].attempts
      /\ r.successes = IF "successes" \in cs THEN stats[s].successes + 1 ELSE stats[s].successes
      /\ r.failures = IF "failures" \in cs THEN stats[s].failures + 1 ELSE stats[s].failures
  BY <1>1, <1>3
<1> HIDE DEF r
<1> QED
  BY <1>1, <1>2, <1>4, Zenon

\* Outcomes and tasks at work stay within attempts, whichever of them a step
\* changes.
LEMMA Sums ==
  ASSUME NEW a \in Nat, NEW u \in Nat, NEW f \in Nat, NEW n \in Nat,
         u + f + n <= a
  PROVE  /\ \A m \in Nat : m <= n => u + f + m <= a
         /\ \A m \in Nat : m <= n + 1 => u + f + m <= a + 1
         /\ \A m \in Nat : m <= n => u + (f + 1) + m <= a + 1
         /\ \A m \in Nat : m <= n - 1 => u + (f + 1) + m <= a /\ (u + 1) + f + m <= a
OBVIOUS

\* An execution keeps the sums.
LEMMA ExecCount ==
  ASSUME IInv, IInv', CountInv, NEW id \in DOMAIN pool, NEW e, GoodEffect(id, e),
         ExecStep(id, e), stats' = Counted(pool[id].sta, e.counts)
  PROVE  CountInv'
<1>0. PoolInv /\ PoolInv' /\ pool[id].sta \in Stations /\ GoodCounts(id, e)
  BY Zenon DEF IInv, PoolInv, IsTask, GoodEffect
<1>1. stats' \in [Stations -> [attempts : Nat, successes : Nat, failures : Nat]]
  <2>1. \A t \in Stations : stats'[t] \in [attempts : Nat, successes : Nat, failures : Nat]
    BY <1>0, CountedStats, Zenon
  <2>2. DOMAIN stats' = Stations /\ stats' = [t \in DOMAIN stats' |-> stats'[t]]
    BY Zenon DEF Counted, CountInv
  <2> QED
    BY <2>1, <2>2, Zenon
<1>2. ASSUME NEW t \in Stations
      PROVE  stats'[t].successes + stats'[t].failures + Cardinality(AtWork(t)') <= stats'[t].attempts
  <2> DEFINE a == stats[t].attempts
             u == stats[t].successes
             f == stats[t].failures
             n == Cardinality(AtWork(t))
             m == Cardinality(AtWork(t)')
  <2>1. a \in Nat /\ u \in Nat /\ f \in Nat /\ u + f + n <= a
    BY Zenon DEF CountInv
  <2>2. IsFiniteSet(AtWork(t)) /\ n \in Nat
    BY <1>0, AtWorkFinite, Zenon
  <2>3. IsFiniteSet(AtWork(t)') /\ m \in Nat
    <3>1. AtWork(t)' \in SUBSET (1..(nextId' - 1)) /\ nextId' - 1 \in Int
      BY <1>0 DEF PoolInv, AtWork
    <3>2. IsFiniteSet(1..(nextId' - 1))
      BY <3>1, FS_Interval
    <3>3. IsFiniteSet(AtWork(t)')
      BY <3>1, <3>2, FS_Subset, Zenon
    <3> QED
      BY <3>3, FS_CardinalityType, Zenon
  <2>4. /\ AtWork(t)' \subseteq AtWork(t) \cup {id}
        /\ e.done => id \notin AtWork(t)'
        /\ id \in AtWork(t)' => /\ t = pool[id].sta
                                /\ \/ id \in AtWork(t)
                                   \/ e.takes /\ ~e.done /\ pool[id].kind \in Steerers
    BY ExecAtWork, Zenon
  <2>5. m <= n + 1
    <3>1. IsFiniteSet(AtWork(t) \cup {id}) /\ Cardinality(AtWork(t) \cup {id}) <= n + 1
          /\ Cardinality(AtWork(t) \cup {id}) \in Nat
      <4> DEFINE S == AtWork(t)
      <4>1. IsFiniteSet(S)
        BY <2>2, Zenon
      <4> HIDE DEF S
      <4>2. /\ IsFiniteSet(S \cup {id})
            /\ Cardinality(S \cup {id}) = IF id \in S THEN Cardinality(S) ELSE Cardinality(S) + 1
        BY <4>1, FS_AddElement, Zenon
      <4> QED
        BY <2>2, <4>2 DEF S
    <3>2. m <= Cardinality(AtWork(t) \cup {id})
      BY <2>4, <3>1, FS_Subset, Zenon
    <3> QED
      BY <2>2, <2>3, <3>1, <3>2
  <2>6. AtWork(t)' \subseteq AtWork(t) => m <= n
    BY <2>2, FS_Subset, Zenon
  <2>7. id \in AtWork(t) /\ AtWork(t)' \subseteq AtWork(t) \ {id} => m <= n - 1
    <3> SUFFICES ASSUME id \in AtWork(t), AtWork(t)' \subseteq AtWork(t) \ {id}
                 PROVE  m <= n - 1
      BY Zenon
    <3> DEFINE S == AtWork(t)
               T == S \ {id}
    <3>1. IsFiniteSet(S) /\ id \in S
      BY <2>2, Zenon
    <3> HIDE DEF S
    <3>2. IsFiniteSet(T) /\ Cardinality(T) = Cardinality(S) - 1
      BY <3>1, FS_RemoveElement, Zenon
    <3>3. AtWork(t)' \in SUBSET T
      BY Zenon DEF S
    <3> HIDE DEF T
    <3>4. m <= Cardinality(T)
      BY <3>2, <3>3, FS_Subset, Zenon
    <3> QED
      BY <3>2, <3>4, Zenon DEF S
  <2> HIDE DEF a, u, f, n, m
  <2>8. /\ m <= n => u + f + m <= a
        /\ m <= n + 1 => u + f + m <= a + 1
        /\ m <= n => u + (f + 1) + m <= a + 1
        /\ m <= n - 1 => u + (f + 1) + m <= a /\ (u + 1) + f + m <= a
    BY <2>1, <2>2, <2>3, Sums, Zenon
  <2>9. CASE t # pool[id].sta
    <3>1. AtWork(t)' \subseteq AtWork(t) /\ stats'[t] = stats[t]
      BY <1>0, <2>4, <2>9, CountedStats
    <3> QED
      BY <2>6, <2>8, <3>1, Zenon DEF a, u, f, m
  <2>10. CASE t = pool[id].sta
    <3>0. /\ stats'[t].attempts = IF "attempts" \in e.counts THEN a + 1 ELSE a
          /\ stats'[t].successes = IF "successes" \in e.counts THEN u + 1 ELSE u
          /\ stats'[t].failures = IF "failures" \in e.counts THEN f + 1 ELSE f
      BY <1>0, <2>10, CountedStats, SMTT(30) DEF a, u, f
    <3>1. CASE e.counts = {}
      <4>1. AtWork(t)' \subseteq AtWork(t)
        BY <1>0, <2>4, <3>1, Zenon DEF GoodCounts
      <4> QED
        BY <2>6, <2>8, <3>0, <3>1, <4>1, Zenon DEF m
    <3>2. CASE e.counts = {"attempts"}
      <4>1. stats'[t].attempts = a + 1 /\ stats'[t].successes = u /\ stats'[t].failures = f
        BY <3>0, <3>2, Zenon
      <4> QED
        BY <2>5, <2>8, <4>1, Zenon DEF m
    <3>3. CASE e.counts = {"attempts", "failures"} /\ e.done
      <4>1. stats'[t].attempts = a + 1 /\ stats'[t].successes = u /\ stats'[t].failures = f + 1
        BY <3>0, <3>3, Zenon
      <4>2. AtWork(t)' \subseteq AtWork(t)
        BY <2>4, <3>3, Zenon
      <4> QED
        BY <2>6, <2>8, <4>1, <4>2, Zenon DEF m
    <3>4. CASE e.counts \in {{"successes"}, {"failures"}} /\ e.done /\ Active(id)
      <4>1. \/ stats'[t].attempts = a /\ stats'[t].successes = u + 1 /\ stats'[t].failures = f
            \/ stats'[t].attempts = a /\ stats'[t].successes = u /\ stats'[t].failures = f + 1
        BY <3>0, <3>4, Zenon
      <4>2. id \in AtWork(t)
        BY <1>0, <2>10, <3>4, Zenon DEF GoodCounts, AtWork
      <4>3. AtWork(t)' \subseteq AtWork(t) \ {id}
        BY <2>4, <3>4, Zenon
      <4> QED
        BY <2>7, <2>8, <4>1, <4>2, <4>3, Zenon DEF m
    <3> QED
      BY <1>0, <3>1, <3>2, <3>3, <3>4, Zenon DEF GoodCounts
  <2> QED
    BY <2>9, <2>10, Zenon
<1> QED
  BY <1>1, <1>2, Zenon DEF CountInv

\* A handler keeps the sums.
LEMMA InputCount ==
  ASSUME PoolInv, CountInv, NEW ended, NEW new, InputStep(ended, new), stats' = stats
  PROVE  CountInv'
<1>1. ASSUME NEW t \in Stations
      PROVE  stats'[t].successes + stats'[t].failures + Cardinality(AtWork(t)') <= stats'[t].attempts
  <2> DEFINE a == stats[t].attempts
             u == stats[t].successes
             f == stats[t].failures
             n == Cardinality(AtWork(t))
             m == Cardinality(AtWork(t)')
  <2>1. a \in Nat /\ u \in Nat /\ f \in Nat /\ u + f + n <= a
    BY Zenon DEF CountInv
  <2>2. IsFiniteSet(AtWork(t)) /\ n \in Nat
    BY AtWorkFinite, Zenon
  <2>3. IsFiniteSet(AtWork(t)') /\ m <= n
    BY <2>2, InputAtWork, FS_Subset, Zenon
  <2>4. m \in Nat
    BY <2>3, FS_CardinalityType, Zenon
  <2> HIDE DEF a, u, f, n, m
  <2>5. u + f + m <= a
    BY <2>1, <2>2, <2>3, <2>4, Sums, Zenon
  <2> QED
    BY <2>5, Zenon DEF a, u, f, m
<1> QED
  BY <1>1, Zenon DEF CountInv

\* The counters are numbers and outcomes and tasks at work stay within attempts.
THEOREM CountInvariance == Spec => []CountInv
<1>1. Init => CountInv
  <2> SUFFICES ASSUME Init PROVE CountInv
    BY Zenon
  <2>1. \A s \in Stations : AtWork(s) = {}
    BY Zenon DEF Init, AtWork
  <2>2. Cardinality({}) = 0
    BY FS_EmptySet, Zenon
  <2>3. stats \in [Stations -> [attempts : Nat, successes : Nat, failures : Nat]]
    BY Zenon DEF Init
  <2>4. \A s \in Stations : /\ stats[s].attempts = 0 /\ stats[s].successes = 0
                            /\ stats[s].failures = 0
    BY Zenon DEF Init
  <2>5. \A s \in Stations :
          stats[s].successes + stats[s].failures + Cardinality(AtWork(s)) <= stats[s].attempts
    BY <2>1, <2>2, <2>4
  <2> QED
    BY <2>3, <2>5, Zenon DEF CountInv
<1>2. CountInv /\ IInv /\ IInv' /\ [Next]_vars => CountInv'
  <2>1. ASSUME CountInv, IInv, IInv', Next
        PROVE  CountInv'
    <3>1. CASE Handles
      <4>1. PICK ended, new : InputStep(ended, new) /\ stats' = stats
        BY <3>1, Zenon DEF Handles
      <4> QED
        BY <2>1, <4>1, InputCount, Zenon DEF IInv
    <3>2. CASE Executes
      <4>1. PICK id, e :
              /\ id \in DOMAIN pool
              /\ GoodEffect(id, e) /\ ExecStep(id, e)
              /\ stats' = Counted(pool[id].sta, e.counts)
        BY <3>2, Zenon DEF Executes
      <4> QED
        BY <2>1, <4>1, ExecCount, Zenon
    <3> QED
      BY <2>1, <3>1, <3>2, StepKinds, Zenon
  <2>2. ASSUME CountInv, UNCHANGED vars
        PROVE  CountInv'
    <3>1. pool' = pool /\ stats' = stats
      BY <2>2, Zenon DEF vars, taskVars
    <3>2. \A s : AtWork(s)' = AtWork(s)
      BY <3>1, Zenon DEF AtWork, Active, Begun
    <3> QED
      BY <2>2, <3>1, <3>2, Zenon DEF CountInv
  <2> QED
    BY <2>1, <2>2, Zenon
<1> QED
  BY <1>1, <1>2, StationInvariance, PTL DEF Spec


\* The steering summary adds up, for any interleaving and any number of
\* stations and commands: outcomes and tasks at work never exceed attempts.
THEOREM OutcomesWithinAttemptsHolds == Spec => []OutcomesWithinAttempts
<1>1. CountInv => OutcomesWithinAttempts
  BY Zenon DEF CountInv, AtWork, OutcomesWithinAttempts
<1> QED
  BY <1>1, CountInvariance, PTL

-----------------------------------------------------------------------------
(* StationTasks implements TaskSuccession. *)

\* The mapping, slot by slot.
Asked(x) == {i \in DOMAIN pool : <<pool[i].sta, pool[i].kind>> = x /\ ~Begun(i)}
Last(x) == owner[x[1]][x[2]]
On(x) == Running(x[1], x[2])

AskStep(x) ==
  /\ \E i \in Asked(x)' : /\ i > Last(x) /\ \A j \in Asked(x) : i > j
                          /\ Asked(x)' = Asked(x) \cup {i}
  /\ Last(x)' = Last(x) /\ On(x)' = On(x)

TakeUpStep(x) ==
  \E i \in Asked(x) : /\ \A j \in Asked(x) : i <= j
                      /\ Asked(x)' = Asked(x) \ {i}
                      /\ Last(x)' = i \/ (Last(x)' = Last(x) /\ On(x)' = On(x))

RestStep(x) ==
  /\ Asked(x)' = Asked(x) /\ Last(x)' = Last(x)
  /\ On(x)' => On(x)

\* A step of each slot is a step of TaskSuccession.
LEMMA SlotSteps ==
  ASSUME \A x \in Slots : AskStep(x) \/ TakeUpStep(x) \/ RestStep(x)
  PROVE  Succession!Next
<1> SUFFICES ASSUME NEW x \in Slots
             PROVE  \/ Succession!Ask(x) \/ Succession!Begin(x) \/ Succession!Refuse(x)
                    \/ Succession!End(x) \/ Succession!Stay(x)
  BY Zenon DEF Succession!Next
<1> USE DEF Asked, Last, On
<1>1. CASE AskStep(x)
  BY <1>1, Zenon DEF AskStep, Succession!Ask
<1>2. CASE TakeUpStep(x)
  BY <1>2, Zenon DEF TakeUpStep, Succession!Begin, Succession!Refuse, Succession!IsNext
<1>3. CASE RestStep(x)
  BY <1>3, Zenon DEF RestStep, Succession!End, Succession!Stay, Running, is_task_running
<1> QED
  BY <1>1, <1>2, <1>3, Zenon

\* A slot is at work if its last task is in the pool and not done.
LEMMA OnIs ==
  ASSUME NEW x
  PROVE  /\ On(x) <=> (Last(x) \in DOMAIN pool /\ ~pool[Last(x)].done)
         /\ On(x)' <=> (Last(x)' \in DOMAIN pool' /\ ~pool'[Last(x)'].done)
BY Zenon DEF On, Last, Running, is_task_running

\* A handler makes a step in each slot.
LEMMA InputSlots ==
  ASSUME IInv, NEW chg, NEW ended, NEW new, GoodInput(chg, ended, new),
         InputStep(ended, new), owner' = owner, NEW x \in Slots
  PROVE  AskStep(x) \/ RestStep(x)
<1>0. PoolInv /\ x[1] \in Stations /\ x[2] \in Kinds
  BY Zenon DEF IInv, Slots
<1>1. Last(x)' = Last(x) /\ Last(x) \in {-1} \cup 1..(nextId - 1) /\ nextId \in Nat
  BY <1>0, Zenon DEF PoolInv, Last
<1>2. PICK o : o = Last(x)
  BY Zenon
<1>3. o # nextId /\ nextId > o /\ \A j \in DOMAIN pool : nextId > j /\ j # nextId
  BY <1>0, <1>1, <1>2 DEF PoolInv
<1>4. o \in DOMAIN pool' <=> o \in DOMAIN pool
  BY <1>3, Zenon DEF InputStep
<1>5. o \in DOMAIN pool => pool'[o].done = (pool[o].done \/ o \in ended)
  BY Zenon DEF InputStep
<1>6. (On(x)' => On(x)) /\ (new # NoTask => On(x)' = On(x))
  <2>1. On(x) <=> (o \in DOMAIN pool /\ ~pool[o].done)
    BY <1>2, OnIs, Zenon
  <2>2. On(x)' <=> (o \in DOMAIN pool' /\ ~pool'[o].done)
    BY <1>1, <1>2, OnIs, Zenon
  <2>3. new # NoTask => ended = {}
    BY Zenon DEF GoodInput
  <2>4. On(x) \in BOOLEAN /\ On(x)' \in BOOLEAN
    BY Zenon DEF On, Running, is_task_running
  <2> QED
    BY <1>4, <1>5, <2>1, <2>2, <2>3, <2>4, Zenon
<1>7. ASSUME NEW i \in DOMAIN pool
      PROVE  i \in DOMAIN pool' /\ (i \in Asked(x)' <=> i \in Asked(x))
  BY Zenon DEF InputStep, Asked
<1>8. CASE new = NoTask
  <2>1. DOMAIN pool' = DOMAIN pool
    BY <1>8, Zenon DEF InputStep
  <2>2. Asked(x)' = Asked(x)
    BY <1>7, <2>1, Zenon DEF Asked
  <2> QED
    BY <1>1, <1>6, <2>2, Zenon DEF RestStep
<1>9. CASE new # NoTask
  <2>1. DOMAIN pool' = DOMAIN pool \cup {nextId}
    BY <1>9, Zenon DEF InputStep
  <2>2. PICK n : n = nextId
    BY Zenon
  <2>3. n \notin DOMAIN pool /\ n \in DOMAIN pool' /\ ~Begun(n)'
    BY <1>9, <2>1, <2>2, Zenon DEF InputStep, Begun
  <2>4. CASE <<pool'[n].sta, pool'[n].kind>> = x
    <3>1. n \in Asked(x)'
      BY <2>3, <2>4, Zenon DEF Asked
    <3>2. Asked(x)' = Asked(x) \cup {n}
      BY <1>7, <2>1, <2>2, <3>1, Zenon DEF Asked
    <3>3. n > Last(x) /\ \A j \in Asked(x) : n > j
      BY <1>2, <1>3, <2>2, Zenon DEF Asked
    <3> QED
      BY <1>1, <1>6, <1>9, <3>1, <3>2, <3>3, Zenon DEF AskStep
  <2>5. CASE <<pool'[n].sta, pool'[n].kind>> # x
    <3>1. n \notin Asked(x)'
      BY <2>5, Zenon DEF Asked
    <3>2. Asked(x)' = Asked(x)
      BY <1>7, <2>1, <2>2, <3>1, Zenon DEF Asked
    <3> QED
      BY <1>1, <1>6, <3>2, Zenon DEF RestStep
  <2> QED
    BY <2>4, <2>5, Zenon
<1> QED
  BY <1>8, <1>9, Zenon

\* The execution of the next task makes a step in each slot.
LEMMA ExecSlots ==
  ASSUME IInv, NEW id \in DOMAIN pool, id > cursor,
         \A j \in DOMAIN pool : j > cursor => id <= j,
         NEW e, GoodEffect(id, e), ExecStep(id, e),
         owner' = IF e.takes THEN [owner EXCEPT ![pool[id].sta][pool[id].kind] = id] ELSE owner,
         NEW x \in Slots
  PROVE  AskStep(x) \/ TakeUpStep(x) \/ RestStep(x)
<1> DEFINE slot(i) == <<pool[i].sta, pool[i].kind>>
<1>0. /\ PoolInv /\ FreshInv /\ OwnerInv /\ IsTask(pool[id])
      /\ x[1] \in Stations /\ x[2] \in Kinds /\ x = <<x[1], x[2]>>
  BY SMTT(30) DEF IInv, Slots, PoolInv
<1>1. Last(x)' = IF e.takes /\ slot(id) = x THEN id ELSE Last(x)
  BY <1>0 DEF PoolInv, Last, IsTask
<1>2. PICK o : o = Last(x)
  BY Zenon
<1>3. /\ o \in {-1} \cup 1..(nextId - 1) /\ nextId \in Nat
      /\ o # nextId /\ nextId > o /\ \A j \in DOMAIN pool : nextId > j /\ j # nextId
  BY <1>0, <1>2 DEF PoolInv, Last
<1>4. o \in DOMAIN pool => slot(o) = x /\ Begun(o)
  BY <1>0, <1>2 DEF OwnerInv, Last
<1>5. o \in DOMAIN pool' => o \in DOMAIN pool
  BY <1>3, Zenon DEF ExecStep
<1>6. o \in DOMAIN pool /\ o # id => o \in DOMAIN pool'
  BY Zenon DEF ExecStep
<1>7. o \in DOMAIN pool /\ o \in DOMAIN pool' =>
        pool'[o].done = (pool[o].done \/ o \in EndedBy(id, e))
  BY Zenon DEF ExecStep
<1>8. On(x) <=> (o \in DOMAIN pool /\ ~pool[o].done)
  BY <1>2, OnIs, Zenon
<1>9. ~(e.takes /\ slot(id) = x) =>
        /\ Last(x)' = Last(x)
        /\ On(x)' <=> (o \in DOMAIN pool' /\ ~pool'[o].done)
        /\ On(x)' => On(x)
  <2> SUFFICES ASSUME ~(e.takes /\ slot(id) = x)
               PROVE  /\ Last(x)' = Last(x)
                      /\ On(x)' <=> (o \in DOMAIN pool' /\ ~pool'[o].done)
                      /\ On(x)' => On(x)
    BY Zenon
  <2>1. Last(x)' = o
    BY <1>1, <1>2, Zenon
  <2>2. On(x)' <=> (o \in DOMAIN pool' /\ ~pool'[o].done)
    BY <2>1, OnIs, Zenon
  <2> QED
    BY <1>2, <1>5, <1>7, <1>8, <2>1, <2>2, Zenon
<1>10. \A i \in EndedBy(id, e) \cap DOMAIN pool : i # id =>
         /\ \/ e.takes /\ slot(i) = slot(id)
            \/ pool[i].kind = "roaming" /\ pool[id].kind # "roaming"
         /\ e.new # NoTask => pool[i].kind # e.new.kind
  BY EndedTasks
<1>11. On(x) \in BOOLEAN /\ On(x)' \in BOOLEAN
  BY Zenon DEF On, Running, is_task_running
<1>12. ASSUME NEW i \in DOMAIN pool, i # id
       PROVE  i \in DOMAIN pool' /\ (i \in Asked(x)' <=> i \in Asked(x))
  BY <1>12, Zenon DEF ExecStep, Asked
<1>13. id \notin Asked(x)'
  BY Zenon DEF ExecStep, Asked
<1>14. id \in Asked(x) <=> slot(id) = x /\ ~Begun(id)
  BY Zenon DEF Asked
<1>15. e.new # NoTask =>
         /\ e.new.kind # pool[id].kind
         /\ nextId \in DOMAIN pool' /\ pool'[nextId].state = First(pool'[nextId].kind)
         /\ pool'[nextId].kind = e.new.kind
  <2>1. GoodNew(pool[id].sta, pool[id].kind, e.new)
    BY Zenon DEF GoodEffect
  <2> QED
    BY <2>1, Zenon DEF GoodNew, ExecStep
<1>16. ASSUME NEW i \in DOMAIN pool', i \notin DOMAIN pool
       PROVE  i = nextId /\ e.new # NoTask
  BY <1>16 DEF ExecStep
<1> HIDE DEF slot
<1>17. CASE slot(id) = x
  <2>1. \A i \in DOMAIN pool' : i \notin DOMAIN pool => i \notin Asked(x)'
    <3> SUFFICES ASSUME NEW i \in DOMAIN pool', i \notin DOMAIN pool
                 PROVE  i \notin Asked(x)'
      BY Zenon
    <3>1. pool'[i].kind # pool[id].kind
      BY <1>15, <1>16, Zenon
    <3> QED
      BY <1>17, <3>1, Zenon DEF Asked, slot
  <2>2. Asked(x)' = Asked(x) \ {id}
    <3>1. Asked(x)' \subseteq DOMAIN pool' /\ Asked(x) \subseteq DOMAIN pool
      BY Zenon DEF Asked
    <3> QED
      BY <1>12, <1>13, <2>1, <3>1, Zenon
  <2>3. CASE ~Begun(id)
    <3>1. id \in Asked(x) /\ \A j \in Asked(x) : id <= j
      <4> SUFFICES ASSUME NEW j \in Asked(x)
                   PROVE  id <= j
        BY <1>14, <1>17, <2>3, Zenon
      <4>1. j \in DOMAIN pool /\ ~Begun(j)
        BY Zenon DEF Asked
      <4> QED
        BY <1>0, <4>1, Zenon DEF FreshInv
    <3>2. CASE e.takes
      BY <1>1, <1>17, <2>2, <3>1, <3>2, Zenon DEF TakeUpStep
    <3>3. CASE ~e.takes
      <4>1. o # id
        BY <1>4, <2>3, Zenon
      <4>2. o \in DOMAIN pool => o \notin EndedBy(id, e)
        <5> SUFFICES ASSUME o \in DOMAIN pool, o \in EndedBy(id, e)
                     PROVE  FALSE
          BY Zenon
        <5>1. pool[o].kind = pool[id].kind
          BY <1>4, <1>17, Zenon DEF slot
        <5> QED
          BY <1>10, <3>3, <4>1, <5>1, Zenon
      <4>3. On(x)' = On(x)
        BY <1>5, <1>6, <1>7, <1>8, <1>9, <1>11, <3>3, <4>1, <4>2, Zenon
      <4> QED
        BY <1>9, <2>2, <3>1, <3>3, <4>3, Zenon DEF TakeUpStep
    <3> QED
      BY <3>2, <3>3, Zenon
  <2>4. CASE Begun(id)
    <3>1. ~e.takes
      BY <2>4, Zenon DEF GoodEffect
    <3>2. Asked(x)' = Asked(x)
      BY <1>14, <2>2, <2>4, Zenon
    <3> QED
      BY <1>9, <3>1, <3>2, Zenon DEF RestStep
  <2> QED
    BY <2>3, <2>4, Zenon
<1>18. CASE slot(id) # x
  <2>1. id \notin Asked(x) /\ Asked(x) \subseteq DOMAIN pool /\ Asked(x)' \subseteq DOMAIN pool'
    BY <1>14, <1>18, Zenon DEF Asked
  <2>2. PICK n : n = nextId
    BY Zenon
  <2>3. n \notin DOMAIN pool
    BY <1>3, <2>2, Zenon
  <2>4. CASE n \in Asked(x)'
    <3>1. n \in DOMAIN pool' /\ <<pool'[n].sta, pool'[n].kind>> = x
      BY <2>4, Zenon DEF Asked
    <3>2. e.new # NoTask
      BY <1>16, <2>3, <3>1, Zenon
    <3>3. e.new.kind = x[2]
      BY <1>0, <1>15, <2>2, <3>1, <3>2, Zenon
    <3>4. o \in DOMAIN pool => o # id /\ o \notin EndedBy(id, e)
      <4> SUFFICES ASSUME o \in DOMAIN pool
                   PROVE  o # id /\ o \notin EndedBy(id, e)
        BY Zenon
      <4>1. slot(o) = x /\ o # id
        BY <1>4, <1>18, Zenon
      <4>2. pool[o].kind = x[2]
        BY <1>0, <4>1, Zenon DEF slot
      <4> QED
        BY <1>10, <3>2, <3>3, <4>1, <4>2, Zenon
    <3>5. On(x)' = On(x)
      BY <1>5, <1>6, <1>7, <1>8, <1>9, <1>11, <1>18, <3>4, Zenon
    <3>6. Asked(x)' = Asked(x) \cup {n}
      BY <1>12, <1>13, <1>16, <2>1, <2>2, <2>4, Zenon
    <3>7. n > Last(x) /\ \A j \in Asked(x) : n > j
      BY <1>2, <1>3, <2>1, <2>2, Zenon
    <3> QED
      BY <1>9, <1>18, <2>4, <3>5, <3>6, <3>7, Zenon DEF AskStep
  <2>5. CASE n \notin Asked(x)'
    <3>1. Asked(x)' = Asked(x)
      BY <1>12, <1>13, <1>16, <2>1, <2>2, <2>5
    <3> QED
      BY <1>9, <1>18, <3>1, Zenon DEF RestStep
  <2> QED
    BY <2>4, <2>5, Zenon
<1> QED
  BY <1>17, <1>18, Zenon

\* StationTasks implements TaskSuccession: for any number of stations, the
\* tasks of each slot are taken up in the order in which they were asked for,
\* one at a time, the younger superseding the older.
THEOREM RequestsInOrderHolds == Spec => RequestsInOrder
<1>1. Init => Succession!Init
  <2> SUFFICES ASSUME Init
               PROVE  Succession!Init
    BY Zenon
  <2>1. DOMAIN pool = {}
    BY Zenon DEF Init
  <2>2. \A x \in Slots : Asked(x) = {}
    BY <2>1, Zenon DEF Asked
  <2>3. \A x \in Slots : Last(x) = -1
    BY Zenon DEF Init, Slots, Last
  <2>4. \A x \in Slots : On(x) = FALSE
    BY <2>1, Zenon DEF On, Running, is_task_running
  <2> QED
    BY <2>2, <2>3, <2>4, Zenon DEF Succession!Init, Asked, Last, On
<1>2. IInv /\ [Next]_vars => [Succession!Next]_(Succession!vars)
  <2>1. ASSUME IInv, Next
        PROVE  Succession!Next
    <3>1. CASE Handles
      <4>1. PICK chg, ended, new : /\ GoodInput(chg, ended, new) /\ InputStep(ended, new)
                                   /\ owner' = owner
        BY <3>1, Zenon DEF Handles
      <4>2. \A x \in Slots : AskStep(x) \/ RestStep(x)
        BY <2>1, <4>1, InputSlots, Zenon
      <4> QED
        BY <4>2, SlotSteps, Zenon
    <3>2. CASE Executes
      <4>1. PICK id, e :
              /\ id \in DOMAIN pool
              /\ id > cursor /\ \A j \in DOMAIN pool : j > cursor => id <= j
              /\ GoodEffect(id, e) /\ ExecStep(id, e)
              /\ owner' = IF e.takes THEN [owner EXCEPT ![pool[id].sta][pool[id].kind] = id]
                          ELSE owner
        BY <3>2, Zenon DEF Executes
      <4>2. \A x \in Slots : AskStep(x) \/ TakeUpStep(x) \/ RestStep(x)
        BY <2>1, <4>1, ExecSlots, Zenon
      <4> QED
        BY <4>2, SlotSteps, Zenon
    <3> QED
      BY <2>1, <3>1, <3>2, StepKinds, Zenon
  <2>2. ASSUME UNCHANGED vars
        PROVE  UNCHANGED Succession!vars
    <3>1. pool' = pool /\ owner' = owner
      BY <2>2, Zenon DEF vars, taskVars
    <3> QED
      BY <3>1, Zenon DEF Succession!vars, Begun, Running, is_task_running
  <2> QED
    BY <2>1, <2>2, Zenon
<1> QED
  BY <1>1, <1>2, StationInvariance, PTL DEF Spec, RequestsInOrder, Succession!Spec

-----------------------------------------------------------------------------
(* The client that is on the target. *)

\* An execution erases no other task, and the executed one counts no failure when its
\* client is on the target.
LEMMA ExecNoFailure ==
  ASSUME IInv, ArrivalInv, CountInv, NEW id \in DOMAIN pool, NEW late \in BOOLEAN,
         NEW e \in Executions(id, late), Execute(id, e), ExecStep(id, e),
         NEW i \in DOMAIN pool \ DOMAIN pool', pool[i].kind = "steering", Begun(i),
         station[pool[i].sta].parent = data[i].target
  PROVE  stats'[pool[i].sta].failures = stats[pool[i].sta].failures
<1>1. i = id
  BY Zenon DEF ExecStep
<1>2. pool[i].sta \in Stations
  BY Zenon DEF IInv, PoolInv, IsTask
<1>3. "failures" \notin e.counts
  <2>1. "failures" \in e.counts => ~pool[id].done /\ ~data[id].success
    BY <1>1, SteeringArrival, Zenon
  <2> QED
    BY <1>1, <2>1, Zenon DEF ArrivalInv, Active
<1>4. stats' = Counted(pool[id].sta, e.counts)
  BY Zenon DEF Execute
<1>5. stats'[pool[id].sta].failures = IF "failures" \in e.counts
                                      THEN stats[pool[id].sta].failures + 1
                                      ELSE stats[pool[id].sta].failures
  BY <1>1, <1>2, <1>4, CountedStats
<1> QED
  BY <1>1, <1>3, <1>5, Zenon

\* Whatever joins, departures, reports and commands come, and in whatever order, a
\* steering task that ends while its client is on the target counts no failure, unless
\* it finds it there at its first execution.
THEOREM ArrivalIsNoFailureHolds == Spec => ArrivalIsNoFailure
<1> DEFINE NoFailure ==
      \A i \in DOMAIN pool \ DOMAIN pool' :
        /\ pool[i].kind = "steering"
        /\ Begun(i)
        /\ station[pool[i].sta].parent = data[i].target
        => stats'[pool[i].sta].failures = stats[pool[i].sta].failures
<1>1. Init => ArrivalInv
  <2> SUFFICES ASSUME Init
               PROVE  ArrivalInv
    BY Zenon
  <2>1. PICK sc \in Scenarios : station = sc.station
    BY Zenon DEF Init
  <2>2. DOMAIN pool = {}
    BY Zenon DEF Init
  <2> QED
    BY <2>1, <2>2, StationAssumption, Zenon DEF ArrivalInv
<1>2. ASSUME IInv, ArrivalInv, RunTask \/ RunLateTask
      PROVE  ArrivalInv' /\ (CountInv => NoFailure)
  <2>1. PICK late \in BOOLEAN : RunNextTask(late)
    BY <1>2, Zenon DEF RunTask, RunLateTask
  <2>2. PICK id \in DOMAIN pool : id = NextTask
    BY <1>2, <2>1, NextTaskIsNext, Zenon DEF RunNextTask, IInv
  <2>3. PICK e \in Executions(id, late) : Execute(id, e)
    BY <2>1, <2>2, Zenon DEF RunNextTask
  <2>4. GoodEffect(id, e)
    BY <1>2, ExecutionEffects, Zenon DEF IInv
  <2>5. ExecStep(id, e)
    BY <1>2, <2>3, <2>4, ExecPool, Zenon
  <2>6. ArrivalInv'
    BY <1>2, <2>3, <2>4, <2>5, ExecArrival, Zenon
  <2>7. CountInv => NoFailure
    BY <1>2, <2>3, <2>5, ExecNoFailure, Zenon
  <2> QED
    BY <2>6, <2>7, Zenon
<1>3. ASSUME IInv, ArrivalInv, UNCHANGED vars
      PROVE  ArrivalInv' /\ NoFailure
  <2>1. pool' = pool /\ data' = data /\ station' = station
    BY <1>3, Zenon DEF vars, taskVars
  <2> QED
    BY <1>3, <2>1, Zenon DEF ArrivalInv, Active, Begun
<1>4. ASSUME IInv, ArrivalInv, CountInv, [Next]_vars
      PROVE  ArrivalInv' /\ NoFailure
  BY <1>2, <1>3, <1>4, HandlersArrival, Zenon
<1>5. ArrivalIsNoFailure <=> [][NoFailure]_vars
  BY PTL DEF ArrivalIsNoFailure
<1> HIDE DEF NoFailure
<1>6. IInv /\ ArrivalInv /\ CountInv /\ [Next]_vars => ArrivalInv' /\ [NoFailure]_vars
  BY <1>4, Zenon
<1> QED
  BY <1>1, <1>5, <1>6, StationInvariance, CountInvariance, PTL DEF Spec

=============================================================================
