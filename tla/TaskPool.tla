------------------------------ MODULE TaskPool ------------------------------
(***************************************************************************)
(* The agent's task pool (agent/src/beerocks/slave/tasks/task_pool.cpp).   *)
(*                                                                         *)
(* run_tasks() is called by a timer of the single-threaded event loop.  It *)
(* first empties m_event_queue, handing every event to the tasks that      *)
(* registered for it (a handler may append further events, which are       *)
(* handled in the same call), and then calls work() of the tasks, in the   *)
(* iteration order of m_task_pool, until the execution deadline passes.    *)
(* CMDUs are handled by the same thread between two calls, so nothing is   *)
(* interleaved with a call: "phase" and "next" are the position inside it. *)
(*                                                                         *)
(* WorkOrder lists the calls to work() of one pass.  The work() of the     *)
(* switch-channel task visits its state machines one after the other; each *)
(* visit is one element, named by its interface.                           *)
(***************************************************************************)
EXTENDS TaskMessages

CONSTANTS CacTask,    \* the element of WorkOrder for CoordinatedCacTask::work
          WorkOrder,  \* the work() calls of one pass, in iteration order
          MaxAge      \* bound: the seconds a state machine waits are counted up to it

ASSUME CacTaskAssumption == CacTask \notin Ifaces

ASSUME WorkOrderAssumption == WorkOrder \in Seq(Ifaces \cup {CacTask})

ASSUME MaxAgeAssumption == MaxAge \in Nat

VARIABLES m_event_queue,  \* TaskPool::m_event_queue
          phase,          \* "idle", or where run_tasks() is: "events", "work"
          next            \* the element of WorkOrder that works next

poolVars == <<m_event_queue, phase, next>>

PoolInit ==
  /\ m_event_queue = << >>
  /\ phase = "idle"
  /\ next = 1

Phases == {"idle", "events", "work"}

-----------------------------------------------------------------------------
(* What task code does to the pool. *)

\* send_event from a CMDU handler: only between two calls of run_tasks().
SendFromCmdu(events) ==
  /\ phase = "idle"
  /\ m_event_queue' = m_event_queue \o events
  /\ UNCHANGED <<phase, next>>

\* The event at the front of the queue is handed to the tasks registered for
\* it; it is popped after the handlers have appended their own events.
Delivered(type) ==
  /\ phase = "events"
  /\ m_event_queue # << >>
  /\ Head(m_event_queue).type = type

Popped(events) ==
  /\ m_event_queue' = Tail(m_event_queue \o events)
  /\ UNCHANGED <<phase, next>>

\* One call to work(), whose send_events stay queued until the next run_tasks().
Working(w) ==
  /\ phase = "work"
  /\ next <= Len(WorkOrder)
  /\ WorkOrder[next] = w

Worked(events) ==
  /\ m_event_queue' = m_event_queue \o events
  /\ next' = next + 1
  /\ UNCHANGED phase

-----------------------------------------------------------------------------
(* The control of run_tasks() itself. *)

RunTasks ==
  /\ phase = "idle"
  /\ phase' = "events"
  /\ UNCHANGED <<m_event_queue, next>>

\* A mutant: work() is called without emptying the queue first.
WorkWithoutDraining ==
  /\ phase = "events"
  /\ phase' = "work"
  /\ next' = 1
  /\ UNCHANGED m_event_queue

StartWork ==
  /\ phase = "events"
  /\ m_event_queue = << >>
  /\ phase' = "work"
  /\ next' = 1
  /\ UNCHANGED m_event_queue

\* The deadline is tested before each task, not between the state machines of
\* the switch-channel task.
StartsTask(n) == n > 1 => CacTask \in {WorkOrder[n], WorkOrder[n - 1]}

DeadlineReached ==
  /\ phase = "work"
  /\ next <= Len(WorkOrder)
  /\ StartsTask(next)
  /\ phase' = "idle"
  /\ next' = 1
  /\ UNCHANGED m_event_queue

WorkDone ==
  /\ phase = "work"
  /\ next > Len(WorkOrder)
  /\ phase' = "idle"
  /\ next' = 1
  /\ UNCHANGED m_event_queue

PoolControl == RunTasks \/ StartWork \/ DeadlineReached \/ WorkDone

=============================================================================
