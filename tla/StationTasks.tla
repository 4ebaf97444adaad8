---------------------------- MODULE StationTasks ----------------------------
(***************************************************************************)
(* The controller's tasks of a station together: steering, BTM request,    *)
(* association handling and roaming tasks in one pool, the message         *)
(* handlers that create, notify and kill them, and the station entry they  *)
(* share.                                                                  *)
(*                                                                         *)
(* The steps are the handlers of what comes from outside (commands,        *)
(* topology notifications, BTM reports, measurements, a dead radio) and    *)
(* the execution of the next task of the pool.                             *)
(***************************************************************************)
EXTENDS AssociationHandling

CONSTANTS
  Scenarios,  \* settings, stations and number of inputs to start from
  Commands    \* steering commands: target, disassoc_imminent, restricted

\* A station is on a BSS.
ASSUME StationAssumption ==
  \A sc \in Scenarios, s \in Stations : "parent" \in DOMAIN sc.station[s]

VARIABLE budget   \* the inputs that may still come

vars == <<taskVars, settings, budget>>

InputKinds == {"steer", "btm", "join", "leave", "report", "rssi", "idle", "dead"}

-----------------------------------------------------------------------------
(* The pool. *)

\* run_tasks goes through the pool in the order of the ids.
Pending == {i \in DOMAIN pool : i > cursor}

\* The youngest first, a bug that RequestsInOrder rules out.
YoungestTask == CHOOSE i \in Pending : \A j \in Pending : i >= j

NextTask == CHOOSE i \in Pending : \A j \in Pending : i <= j

Work(id, d) ==
  CASE pool[id].kind = "steering"    -> SteeringWork(id, d)
    [] pool[id].kind = "btm"         -> BtmWork(id, d)
    [] pool[id].kind = "association" -> {AssociationWork(id, d)}
    [] pool[id].kind = "roaming"     -> RoamingWork(id, d)

handle_responses_timeout(id, d, macs) ==
  CASE pool[id].kind = "association" -> AssociationTimeout(id, d)
    [] pool[id].kind = "roaming"     -> RoamingTimeout(id, d, macs)
    [] OTHER                         -> Moves(pool[id].state, d)

(* task::execute, as the set of its possible effects. *)
Executions(id, late) ==
  LET w == data[id].wait
      n == AfterWaiting(w, late)
      d == [data[id] EXCEPT !.wait = n]
  IN CASE Overdue(w, late) ->
            {handle_responses_timeout(id, d, {m[1] : m \in BagToSet(w.pending)})}
       [] ~Overdue(w, late) /\ ~Waiting(n) /\ ~pool[id].done -> Work(id, d)
       [] OTHER -> {Moves(pool[id].state, d)}

Counted(s, cs) ==
  [stats EXCEPT ![s] = [c \in DOMAIN @ |-> IF c \in cs THEN @[c] + 1 ELSE @[c]]]

\* The support level of a station is sticky: once set it is not taken back.
WithBeacon(v, b) == [v EXCEPT !.beacon = @ \/ b = "yes"]

\* No kill of the task before, a bug that OneTaskPerStation rules out.
NoPredecessor(id, e) == {}

\* A task that enters its id in the station kills the one entered before.
Predecessor(id, e) ==
  IF e.takes THEN {owner[pool[id].sta][pool[id].kind]} ELSE {}

(* One round of the loop of run_tasks.  A task that is done is erased, and *)
(* the roaming task that waits for it is finished.                         *)
Execute(id, e) ==
  LET s     == pool[id].sta
      k     == pool[id].kind
      over  == e.done \/ pool[id].done
      heirs == {i \in DOMAIN pool : /\ pool[i].kind = "roaming"
                                    /\ data[i].wait.task = id}
      ended == e.kills
               \cup Predecessor(id, e)
               \cup (IF e.done THEN {id} ELSE {})
               \cup (IF over THEN heirs ELSE {})
      told(i) == [state |-> pool[i].state,
                  data |-> [data[i] EXCEPT !.wait.forTask = FALSE]]
      chg   == [i \in {id} \cup (IF over THEN heirs ELSE {}) |->
                  IF i = id THEN [state |-> e.state, data |-> e.data] ELSE told(i)]
      gone  == IF over THEN {id} ELSE {}
  IN /\ Apply(s, chg, ended, gone, e.new, WithBeacon(station[s], e.beacon), e.flag)
     /\ owner' = IF e.takes THEN [owner EXCEPT ![s][k] = id] ELSE owner
     /\ stats' = Counted(s, e.counts)
     /\ cursor' = IF \E i \in DOMAIN pool' : i > id THEN id ELSE 0
     /\ UNCHANGED <<settings, budget>>

RunNextTask(late) ==
  /\ Pending # {}
  /\ late => Armed(data[NextTask].wait)
  /\ \E e \in Executions(NextTask, late) : Execute(NextTask, e)

RunTask == RunNextTask(FALSE)
RunLateTask == RunNextTask(TRUE)

-----------------------------------------------------------------------------
(* What comes from outside. *)

Spend(input) ==
  /\ budget[input] > 0
  /\ budget' = [budget EXCEPT ![input] = @ - 1]

NoChange == [i \in {} |-> 0]

\* A handler that only adds a task.
Adds(s, new) ==
  /\ Apply(s, NoChange, {}, {}, new, station[s], "keep")
  /\ UNCHANGED <<cursor, owner, stats, settings>>

\* son_actions::steer_sta, for the CLI, NBAPI and channel selection.
SteerSta(s, c) ==
  /\ Spend("steer")
  /\ Adds(s, NewTask("steering", s, SteeringData(c.target, c.imminent, c.restricted)))

\* son_actions::start_btm_request_task
StartBtmRequestTask(s, c) ==
  /\ Spend("btm")
  /\ ~c.restricted
  /\ Adds(s, NewTask("btm", s, BtmData(c.target, c.imminent)))

\* RX_RSSI_MEASUREMENT_NOTIFICATION from the station's own BSS
RssiNotification(s) ==
  /\ Spend("rssi")
  /\ ~station[s].bSta /\ station[s].connected /\ ~handoff[s]
  /\ ~Running(s, "roaming")
  /\ Adds(s, NewTask("roaming", s, RoamingData))

\* NO_ACTIVITY_NOTIFICATION
NoActivityNotification(s) ==
  /\ Spend("idle")
  /\ ~Running(s, "roaming")
  /\ Adds(s, NewTask("roaming", s, RoamingData))

\* The running steering tasks of s, which hear what happens to s.
Listeners(s) == {owner[s][k] : k \in {k \in Steerers : Running(s, k)}}

Hearing(ids, Hear(_)) ==
  [i \in ids |-> [state |-> pool[i].state, data |-> Hear(data[i])]]

(* A topology notification that s has joined bss: the station entry moves, *)
(* the steering tasks hear of it, an association task starts.              *)
StaJoined(s, bss) ==
  LET Hear(d) == StaConnected(d, bss)
  IN /\ Spend("join")
     /\ Apply(s, Hearing(Listeners(s), Hear), {}, {},
              NewTask("association", s, AssociationData),
              [station[s] EXCEPT !.parent = bss, !.connected = TRUE], "keep")
     /\ UNCHANGED <<cursor, owner, stats, settings>>

(* A topology notification that s has left bss (handle_dead_station).  The *)
(* notification may be older than the station's present connection: only   *)
(* the association task is then killed.                                    *)
StaLeft(s, bss) ==
  LET current == station[s].parent = bss
      ended   == {owner[s]["association"]}
                 \cup (IF current /\ ~handoff[s] THEN {owner[s]["roaming"]} ELSE {})
  IN /\ Spend("leave")
     /\ Apply(s, Hearing(IF current THEN Listeners(s) ELSE {}, StaDisconnected),
              {i \in ended : is_task_running(i)}, {}, NoTask,
              [station[s] EXCEPT !.connected = @ /\ ~current], "keep")
     /\ UNCHANGED <<cursor, owner, stats, settings>>

(* CLIENT_STEERING_BTM_REPORT.  A rejection kills the roaming task and     *)
(* aborts the steering task, which need not be running any more.           *)
BtmReport(s, accepted) ==
  LET steering == owner[s]["steering"]
      ended == IF accepted THEN {}
               ELSE {owner[s]["roaming"]}
                    \cup (IF Rejects(steering) THEN {steering} ELSE {})
  IN /\ Spend("report")
     /\ Apply(s, Hearing(Listeners(s), BtmReportReceived), ended, {}, NoTask,
              [station[s] EXCEPT !.supports11v = TRUE, !.failed11v = 0], "keep")
     /\ UNCHANGED <<cursor, owner, stats, settings>>

\* son_actions::handle_dead_radio, reported by the parent
RadioDead(bss) ==
  LET ended == {owner[t]["roaming"] : t \in {t \in Stations : station[t].parent = bss}}
      s == CHOOSE t \in Stations : TRUE
  IN /\ Spend("dead")
     /\ Apply(s, NoChange, {i \in ended : is_task_running(i)}, {}, NoTask,
              station[s], "keep")
     /\ UNCHANGED <<cursor, owner, stats, settings>>

(* An agent's answer to a request of the task id: it may come late, and    *)
(* may not come at all.                                                    *)
Respond(id, r, good) ==
  LET s == pool[id].sta
      d == [data[id] EXCEPT !.asked = @ (-) SetToBag({r}),
                            !.wait = Answered(@, r.mac, r.op)]
      e == IF pool[id].kind = "roaming" THEN RoamingResponse(id, d, r, good)
                                        ELSE AssociationResponse(id, d, r, good)
  IN /\ Apply(s, [i \in {id} |-> [state |-> e.state, data |-> e.data]],
              IF e.done THEN {id} ELSE {}, {}, NoTask,
              WithBeacon(station[s], e.beacon), "keep")
     /\ UNCHANGED <<cursor, owner, stats, settings, budget>>

Asking(id) == pool[id].kind \in {"association", "roaming"}

-----------------------------------------------------------------------------

Init ==
  /\ pool = [i \in {} |-> 0]
  /\ data = [i \in {} |-> 0]
  /\ cursor = 0
  /\ nextId = 1
  /\ owner = [s \in Stations |-> [k \in Kinds |-> -1]]
  /\ handoff = [s \in Stations |-> FALSE]
  /\ stats = [s \in Stations |-> [attempts |-> 0, successes |-> 0, failures |-> 0]]
  /\ \E sc \in Scenarios : /\ station = sc.station
                            /\ settings = sc.settings
                            /\ budget = sc.inputs

Next ==
  \/ RunTask
  \/ RunLateTask
  \/ \E s \in Stations, c \in Commands : SteerSta(s, c)
  \/ \E s \in Stations, c \in Commands : StartBtmRequestTask(s, c)
  \/ \E s \in Stations : RssiNotification(s)
  \/ \E s \in Stations : NoActivityNotification(s)
  \/ \E s \in Stations, b \in BSSs : StaJoined(s, b)
  \/ \E s \in Stations, b \in BSSs : StaLeft(s, b)
  \/ \E s \in Stations, accepted \in BOOLEAN : BtmReport(s, accepted)
  \/ \E b \in BSSs : RadioDead(b)
  \/ \E id \in DOMAIN pool :
       /\ Asking(id)
       /\ \E r \in BagToSet(data[id].asked), good \in BOOLEAN : Respond(id, r, good)

(* The event loop keeps calling run_tasks, and a task whose timer is armed *)
(* is executed again after it has expired.                                 *)
Fairness == WF_vars(RunTask) /\ SF_vars(RunLateTask)

Spec == Init /\ [][Next]_vars /\ Fairness

-----------------------------------------------------------------------------
(* Properties. *)

\* A task that has begun: it has killed its predecessor and entered its id.
Begun(i) == pool[i].state # First(pool[i].kind)
Active(i) == Begun(i) /\ ~pool[i].done

\* The state is made of known tasks, owners and counters.
TypeOK ==
  /\ DOMAIN pool \subseteq 1..(nextId - 1)
  /\ DOMAIN data = DOMAIN pool
  /\ \A i \in DOMAIN pool : /\ pool[i].kind \in Kinds
                            /\ pool[i].sta \in Stations
                            /\ pool[i].done \in BOOLEAN
  /\ cursor \in 0..(nextId - 1)
  /\ owner \in [Stations -> [Kinds -> {-1} \cup 1..(nextId - 1)]]
  /\ handoff \in [Stations -> BOOLEAN]

\* However commands, notifications and executions interleave, a station never
\* has two tasks of a kind at work: one that begins kills its predecessor.
OneTaskPerStation ==
  \A i, j \in DOMAIN pool :
    Active(i) /\ Active(j) /\ pool[i].kind = pool[j].kind /\ pool[i].sta = pool[j].sta
    => i = j

\* The handoff flag of a station is never left behind: as long as it is set a
\* steering or BTM task of the station, entered in it, is at work and will
\* clear it.
HandoffHasOwner ==
  \A s \in Stations : handoff[s] =>
    \E k \in Steerers : Running(s, k) /\ Active(owner[s][k])

\* The steering summary of a station adds up: an attempt ends as a success or
\* a failure at most once, whatever kills or aborts the task meanwhile.
OutcomesWithinAttempts ==
  \A s \in Stations :
    stats[s].successes + stats[s].failures
    + Cardinality({i \in DOMAIN pool : /\ pool[i].sta = s
                                       /\ pool[i].kind \in Steerers
                                       /\ Active(i)})
    <= stats[s].attempts

\* Once commands and notifications stop coming, every steering, BTM and
\* association task leaves the pool, even if no client and no agent answers,
\* and no station stays marked as being in a handoff.
SteeringsEnd ==
  <>[](/\ \A i \in DOMAIN pool : pool[i].kind = "roaming"
       /\ \A s \in Stations : ~handoff[s])

\* A client that is on the target when its steering ends does not count as a
\* failure, however it came there: by the steering, by itself after the attempt
\* began, or with a join that was reported before the leave.  The exception is
\* the task that finds it there at its first execution.
ArrivalIsNoFailure ==
  [][\A i \in DOMAIN pool \ DOMAIN pool' :
       /\ pool[i].kind = "steering"
       /\ Begun(i)
       /\ station[pool[i].sta].parent = data[i].target
       => stats'[pool[i].sta].failures = stats[pool[i].sta].failures]_vars

WaitsForAnswers(s) ==
  Running(s, "roaming") /\ data[owner[s]["roaming"]].wait.forResponses

\* APs that do not answer a measurement request in time are dropped from the
\* candidates: the roaming task stops waiting for them and goes on.
SilentHostapsAreDropped ==
  \A s \in Stations : WaitsForAnswers(s) ~> ~WaitsForAnswers(s)

(* Each kind of task of each station is a slot of TaskSuccession.          *)
Slots == Stations \X Kinds

Succession == INSTANCE TaskSuccession WITH
  waiting <- [x \in Slots |-> {i \in DOMAIN pool : /\ <<pool[i].sta, pool[i].kind>> = x
                                                   /\ ~Begun(i)}],
  latest <- [x \in Slots |-> owner[x[1]][x[2]]],
  atWork <- [x \in Slots |-> Running(x[1], x[2])]

\* Tasks are taken up in the order in which they were asked for, one at a time
\* in each slot, the younger superseding the older.
RequestsInOrder == Succession!Spec

=============================================================================
