--------------------------- MODULE ControllerTask ---------------------------
(***************************************************************************)
(* The controller's task base class (tasks/task.cpp), its task pool        *)
(* (tasks/task_pool.cpp) and the part of a station's database entry that   *)
(* the tasks of a station share.                                           *)
(*                                                                         *)
(* The controller is one event loop: between two message handlers it calls *)
(* run_tasks, which executes the tasks of the pool in the order of their   *)
(* ids and returns when its slot is used up.  What the slot allows is      *)
(* arbitrary, so a step of the model is one handler or one execute().      *)
(*                                                                         *)
(* A handler or a work() is described by its effect: the new private data  *)
(* and state of the tasks it touches, the tasks it finishes, the task it   *)
(* creates.  Apply turns an effect into the next state of the pool, with   *)
(* the handle_task_end of every task that is finished.                     *)
(***************************************************************************)
EXTENDS Integers, FiniteSets, Bags

CONSTANTS Stations,      \* MACs of the wireless stations
          BSSs,          \* BSSIDs; each is on a radio of its own
          FailuresFor11v \* roaming_11v_failed_attemps_threshold

ASSUME FailuresPositive == FailuresFor11v \in Nat \ {0}

VARIABLES
  pool,     \* m_scheduled_tasks: id -> kind, station, state, done
  data,     \* id -> the waits of the base class and the fields of the kind
  cursor,   \* the last task executed in this iteration of the pool, 0 if none
  nextId,   \* task::latest_id
  owner,    \* Station::steering_task_id, btm_request_task_id, ...
  handoff,  \* Station::m_handoff
  station,  \* parent, connected, 11v and 11k knowledge, backhaul station or not
  stats     \* Station::steering_summary_stats

taskVars == <<pool, data, cursor, nextId, owner, handoff, station, stats>>

Kinds == {"steering", "btm", "association", "roaming"}
Steerers == {"steering", "btm"}

First(kind) ==
  CASE kind = "steering"    -> "STEER"
    [] kind = "btm"         -> "SEND_BTM_REQUEST"
    [] kind = "association" -> "START"
    [] kind = "roaming"     -> "START"

-----------------------------------------------------------------------------
(* The waits of the base class.  An events timeout and a pending-task      *)
(* timeout are always set together with the wait they belong to; the       *)
(* responses timeout is not, so it has a flag of its own.                  *)

NoWait == [delay |-> FALSE, events |-> {}, forEvents |-> FALSE,
           pending |-> EmptyBag, forResponses |-> FALSE, timeout |-> FALSE,
           task |-> 0, forTask |-> FALSE]

wait_for(w) == [w EXCEPT !.delay = TRUE]

wait_for_events(w, evs) ==
  [w EXCEPT !.events = @ \cup evs, !.forEvents = TRUE]

wait_for_task_end(w, id) == [w EXCEPT !.task = id, !.forTask = TRUE]

\* entries: pairs of a MAC and the operation that is to answer
add_pending_macs(w, entries) ==
  IF entries = {} THEN w
  ELSE [w EXCEPT !.pending = @ (+) SetToBag(entries), !.forResponses = TRUE]

set_responses_timeout(w) == [w EXCEPT !.timeout = TRUE]

\* task::event_received and task::response_received drop what has come.
Heard(w, ev) == [w EXCEPT !.events = @ \ {ev}]
Answered(w, mac, op) == [w EXCEPT !.pending = @ (-) SetToBag({<<mac, op>>})]

\* An events wait without its timeout, a bug that SteeringsEnd rules out.
ArmedWithoutEvents(w) == w.delay \/ w.timeout \/ w.forTask

Waiting(w) == w.delay \/ w.forEvents \/ w.forResponses \/ w.forTask
Armed(w) == w.delay \/ w.forEvents \/ w.timeout \/ w.forTask

(* task::execute up to work().  `late' says that the armed timers have     *)
(* expired.  A responses timeout empties the pending list but leaves       *)
(* waiting_for_responses set: the task goes on only in its next execute(). *)
Overdue(w, late) ==
  /\ Waiting(w) /\ ~(w.delay /\ ~late)
  /\ w.timeout /\ late /\ w.pending # EmptyBag

AfterWaiting(w, late) ==
  IF ~Waiting(w) \/ (w.delay /\ ~late) THEN w
  ELSE LET heard    == IF w.forEvents /\ late THEN {} ELSE w.events
           answered == w.forResponses /\ w.pending = EmptyBag
           out      == Overdue(w, late)
       IN [w EXCEPT !.delay = FALSE,
                    !.events = heard,
                    !.forEvents = @ /\ heard # {},
                    !.pending = IF out THEN EmptyBag ELSE @,
                    !.forResponses = @ /\ ~answered,
                    !.timeout = @ /\ ~answered /\ ~out,
                    !.forTask = @ /\ ~late]

-----------------------------------------------------------------------------
(* Effects. *)

NoTask == [kind |-> "none"]

NewTask(kind, s, d) == [kind |-> kind, sta |-> s, data |-> d]

(* A work() that moves to a state with new private data.  `takes' is the   *)
(* kill of the predecessor together with the entry of the own id in the    *)
(* station; `flag' is what the code itself does to the handoff flag.       *)
Moves(st, d) ==
  [state |-> st, data |-> d, done |-> FALSE, takes |-> FALSE, kills |-> {},
   new |-> NoTask, flag |-> "keep", counts |-> {}, beacon |-> "keep"]

Ending(e) == [e EXCEPT !.done = TRUE]
Finishes(id, d) == Ending(Moves(pool[id].state, d))

Taking(e) == [e EXCEPT !.takes = TRUE]
Counting(e, cs) == [e EXCEPT !.counts = cs]

is_task_running(id) == id \in DOMAIN pool /\ ~pool[id].done

Running(s, k) == is_task_running(owner[s][k])

\* update_node_11v_responsiveness(false), n times.  The counter, which the code
\* lets grow, stops at the threshold.
Lapse(v, n) ==
  LET failed == IF v.failed11v + n < FailuresFor11v THEN v.failed11v + n
                ELSE FailuresFor11v
  IN [v EXCEPT !.failed11v = failed,
               !.supports11v = @ /\ (n > 0 => failed < FailuresFor11v)]

\* client_steering_task::handle_task_end reports a client that did not answer.
Unanswered(id, d) ==
  pool[id].kind = "steering" /\ d.tryPerformed /\ ~d.reportReceived

\* A BTM task that does not clear the handoff flag when it ends, a bug that
\* HandoffHasOwner rules out.
OnlySteeringEnding(t, ended) ==
  {i \in ended \cap DOMAIN pool : pool[i].sta = t /\ pool[i].kind = "steering"}

\* The tasks whose handle_task_end clears the handoff flag of station t.
SteerersEnding(t, ended) ==
  {i \in ended \cap DOMAIN pool : pool[i].sta = t /\ pool[i].kind \in Steerers}

\* Ids that are not counted up, a bug that TypeOK rules out.
SameId(new) == nextId

\* task::latest_id after the creation of new.
LatestId(new) == IF new = NoTask THEN nextId ELSE nextId + 1

(* The state after a handler of station s that gives the tasks in          *)
(* DOMAIN chg a new state and data, finishes (or kills) the tasks in       *)
(* ended, adds the task new and erases the tasks in gone.  db is the entry *)
(* of s after the handler's own writes, flag its own write to the handoff  *)
(* flag; handle_task_end of a steering task clears the flag, and in every  *)
(* handler that does both the clearing comes before the setting.           *)
Apply(s, chg, ended, gone, new, db, flag) ==
  LET now(i)   == IF i \in DOMAIN chg THEN chg[i].data ELSE data[i]
      ids      == (DOMAIN pool \ gone) \cup (IF new = NoTask THEN {} ELSE {nextId})
      entry(t) == IF t = s THEN db ELSE station[t]
  IN /\ pool' = [i \in ids |->
                   IF i \in DOMAIN pool
                   THEN [pool[i] EXCEPT
                           !.state = IF i \in DOMAIN chg THEN chg[i].state ELSE @,
                           !.done = @ \/ i \in ended]
                   ELSE [kind |-> new.kind, sta |-> new.sta,
                         state |-> First(new.kind), done |-> FALSE]]
     /\ data' = [i \in ids |-> IF i \in DOMAIN pool THEN now(i) ELSE new.data]
     /\ nextId' = LatestId(new)
     /\ handoff' = [t \in Stations |->
                      CASE t = s /\ flag = "set"   -> TRUE
                        [] t = s /\ flag = "clear" -> FALSE
                        [] OTHER -> handoff[t] /\ SteerersEnding(t, ended) = {}]
     /\ station' = [t \in Stations |->
                      Lapse(entry(t), Cardinality({i \in SteerersEnding(t, ended) :
                                                     Unanswered(i, now(i))}))]

=============================================================================
