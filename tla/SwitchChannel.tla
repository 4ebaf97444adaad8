---------------------------- MODULE SwitchChannel ----------------------------
(***************************************************************************)
(* SwitchChannelTask (agent/.../tasks/switch_channel_task.cpp): one         *)
(* SwitchChannelFsm per radio interface carries a switch-channel request to *)
(* the driver and turns the driver's answers into a switch-channel report.  *)
(*                                                                         *)
(* A state machine is created in IDLE on the first event for its interface *)
(* and stays forever; PERIODIC does nothing in IDLE, so a machine that does *)
(* not exist yet is the same as one in IDLE with no data.  Each action is   *)
(* one .on() handler, its transition and the entry code of the state it     *)
(* leads to.  Events that the current state does not register are dropped.  *)
(***************************************************************************)
EXTENDS TaskPool

VARIABLES m_fsms,   \* SwitchChannelTask::m_fsms
          driver    \* external: what the driver of each radio is doing

WN == "WAIT_FOR_SWITCH_CHANNEL_NOTIFICATION"
WC == "WAIT_FOR_CAC_COMPLETED"

FsmStates == {"IDLE", WN, WC, "ERROR"}

\* The members of SwitchChannelFsm.  m_max_wait_for_cac_completed_sec and the
\* time since m_cac_started_time_point are read in WC only, where CAC_STARTED
\* has just set them; they are kept at 0 elsewhere.
SwitchChannelFsm ==
  [state : FsmStates, request : BOOLEAN, notification : BOOLEAN, started : BOOLEAN,
   completed : BOOLEAN, wait : Nat, age : 0..MaxAge]

\* reset(), which is also the entry code of IDLE and of WN.
ResetIn(s) ==
  [state |-> s, request |-> FALSE, notification |-> FALSE, started |-> FALSE,
   completed |-> FALSE, wait |-> 0, age |-> 0]

\* A driver has nothing to do, is switching to "target", or is performing the
\* CAC of "target".
DriverIdle == [mode |-> "idle", target |-> NoChannel]

Driver == {DriverIdle} \cup [mode : {"switching", "cac"}, target : Channels]

SwitchChannelInit ==
  /\ m_fsms = [i \in Ifaces |-> ResetIn("IDLE")]
  /\ driver = [i \in Ifaces |-> DriverIdle]

\* An event of the given type for i is handed to the machine of i, in state s.
Handles(type, i, s) ==
  /\ Delivered(type)
  /\ Head(m_event_queue).ifname = i
  /\ m_fsms[i].state = s

Goto(i, fsm) == m_fsms' = [m_fsms EXCEPT ![i] = fsm]

\* The report that gives all that the machine has.
FullReport(i, fsm, cac_happened) ==
  SwitchChannelReport(i, cac_happened, fsm.request, fsm.notification,
                      fsm.started, fsm.completed, "NOT_COMPUTED")

-----------------------------------------------------------------------------
(* IDLE *)

\* The request is sent to the driver; entering WN clears it from the machine.
SwitchChannelRequestSent(i) ==
  /\ Handles("SWITCH_CHANNEL_REQUEST", i, "IDLE")
  /\ Goto(i, ResetIn(WN))
  /\ driver' = [driver EXCEPT ![i] = [mode |-> "switching",
                                      target |-> Head(m_event_queue).channel]]
  /\ Popped(<< >>)

\* The CMDU cannot be built, there is no socket, or the send fails.
SwitchChannelRequestFailed(i) ==
  /\ Handles("SWITCH_CHANNEL_REQUEST", i, "IDLE")
  /\ Goto(i, [m_fsms[i] EXCEPT !.state = "ERROR", !.request = TRUE])
  /\ Popped(<< >>)
  /\ UNCHANGED driver

\* The radio has left the agent's database: the handler stays in IDLE with the
\* request stored.
SwitchChannelRequestNoRadio(i) ==
  /\ Handles("SWITCH_CHANNEL_REQUEST", i, "IDLE")
  /\ Goto(i, [m_fsms[i] EXCEPT !.request = TRUE])
  /\ Popped(<< >>)
  /\ UNCHANGED driver

CsaInIdle(i) ==
  /\ Handles("SWITCH_CHANNEL_NOTIFICATION_EVENT", i, "IDLE")
  /\ Popped(<< SwitchChannelReport(i, FALSE, FALSE, TRUE, FALSE, FALSE, "NOT_COMPUTED") >>)
  /\ UNCHANGED <<m_fsms, driver>>

-----------------------------------------------------------------------------
(* WAIT_FOR_SWITCH_CHANNEL_NOTIFICATION *)

\* A mutant: the report is posted but the machine keeps waiting.
CsaInWnStays(i) ==
  /\ Handles("SWITCH_CHANNEL_NOTIFICATION_EVENT", i, WN)
  /\ Popped(<< FullReport(i, [m_fsms[i] EXCEPT !.notification = TRUE], FALSE) >>)
  /\ UNCHANGED <<m_fsms, driver>>

CsaInWn(i) ==
  /\ Handles("SWITCH_CHANNEL_NOTIFICATION_EVENT", i, WN)
  /\ Goto(i, ResetIn("IDLE"))
  /\ Popped(<< FullReport(i, [m_fsms[i] EXCEPT !.notification = TRUE], FALSE) >>)
  /\ UNCHANGED driver

CacStartedInWn(i) ==
  LET wait == WaitFor(Head(m_event_queue).cac_duration_sec) IN
  /\ Handles("CAC_STARTED_NOTIFICATION", i, WN)
  /\ Goto(i, [m_fsms[i] EXCEPT !.state = WC, !.started = TRUE, !.wait = wait])
  /\ Popped(<< SwitchChannelDurationTime(i, wait) >>)
  /\ UNCHANGED driver

\* report_switch_channel_in_progress: also the handler of WC.
RequestInProgress(i) ==
  /\ \E s \in {WN, WC} : Handles("SWITCH_CHANNEL_REQUEST", i, s)
  /\ Popped(<< SwitchChannelReport(i, FALSE, TRUE, FALSE, FALSE, FALSE,
                                   "ANOTHER_SWITCH_IN_PROGRESS") >>)
  /\ UNCHANGED <<m_fsms, driver>>

-----------------------------------------------------------------------------
(* WAIT_FOR_CAC_COMPLETED *)

\* A mutant: the report is built before the completion is stored.
CacCompletedReportedFirst(i) ==
  /\ Handles("CAC_COMPLETED_NOTIFICATION", i, WC)
  /\ Goto(i, ResetIn("IDLE"))
  /\ Popped(<< FullReport(i, m_fsms[i], TRUE) >>)
  /\ UNCHANGED driver

CacCompletedInWc(i) ==
  /\ Handles("CAC_COMPLETED_NOTIFICATION", i, WC)
  /\ Goto(i, ResetIn("IDLE"))
  /\ Popped(<< FullReport(i, [m_fsms[i] EXCEPT !.completed = TRUE], TRUE) >>)
  /\ UNCHANGED driver

\* A local variable hides the member: the machine's own notification stays unset.
CsaInWc(i) ==
  /\ Handles("SWITCH_CHANNEL_NOTIFICATION_EVENT", i, WC)
  /\ Goto(i, ResetIn("IDLE"))
  /\ Popped(<< SwitchChannelReport(i, FALSE, m_fsms[i].request, TRUE, FALSE, FALSE,
                                   "NOT_COMPUTED") >>)
  /\ UNCHANGED driver

-----------------------------------------------------------------------------
(* Events that the state does not register, and PERIODIC. *)

Registers(s, type) ==
  \/ s = "IDLE" /\ type \in {"SWITCH_CHANNEL_REQUEST", "SWITCH_CHANNEL_NOTIFICATION_EVENT"}
  \/ s = WN /\ type \in {"SWITCH_CHANNEL_REQUEST", "SWITCH_CHANNEL_NOTIFICATION_EVENT",
                         "CAC_STARTED_NOTIFICATION"}
  \/ s = WC /\ type \in {"SWITCH_CHANNEL_REQUEST", "SWITCH_CHANNEL_NOTIFICATION_EVENT",
                         "CAC_COMPLETED_NOTIFICATION"}

SwitchChannelEvents == {"SWITCH_CHANNEL_REQUEST", "SWITCH_CHANNEL_NOTIFICATION_EVENT",
                        "CAC_STARTED_NOTIFICATION", "CAC_COMPLETED_NOTIFICATION"}

EventDropped(i) ==
  /\ \E type \in SwitchChannelEvents :
       /\ Handles(type, i, m_fsms[i].state)
       /\ ~ Registers(m_fsms[i].state, type)
  /\ Popped(<< >>)
  /\ UNCHANGED <<m_fsms, driver>>

TimedOut(i) == m_fsms[i].state = WC /\ m_fsms[i].age > m_fsms[i].wait

\* A mutant: the timeout is noticed but the machine stays.
PeriodicCacTimeoutStays(i) ==
  /\ Working(i)
  /\ TimedOut(i)
  /\ Worked(<< >>)
  /\ UNCHANGED <<m_fsms, driver>>

PeriodicCacTimeout(i) ==
  /\ Working(i)
  /\ TimedOut(i)
  /\ Goto(i, [m_fsms[i] EXCEPT !.state = "ERROR", !.wait = 0, !.age = 0])
  /\ Worked(<< >>)
  /\ UNCHANGED driver

\* A mutant: ERROR goes to WN without running its entry code.
PeriodicInErrorNoEntry(i) ==
  /\ Working(i)
  /\ m_fsms[i].state = "ERROR"
  /\ Goto(i, [m_fsms[i] EXCEPT !.state = WN])
  /\ Worked(<< FullReport(i, m_fsms[i], FALSE) >>)
  /\ UNCHANGED driver

\* ERROR reports what it has and goes to WN, whose entry code resets it.
PeriodicInError(i) ==
  /\ Working(i)
  /\ m_fsms[i].state = "ERROR"
  /\ Goto(i, ResetIn(WN))
  /\ Worked(<< FullReport(i, m_fsms[i], FALSE) >>)
  /\ UNCHANGED driver

PeriodicIdle(i) ==
  /\ Working(i)
  /\ m_fsms[i].state # "ERROR"
  /\ ~ TimedOut(i)
  /\ Worked(<< >>)
  /\ UNCHANGED <<m_fsms, driver>>

SwitchChannelPeriodic(i) == PeriodicCacTimeout(i) \/ PeriodicInError(i) \/ PeriodicIdle(i)

SwitchChannelEvent(i) ==
  \/ SwitchChannelRequestSent(i) \/ SwitchChannelRequestFailed(i)
  \/ SwitchChannelRequestNoRadio(i) \/ CsaInIdle(i)
  \/ CsaInWn(i) \/ CacStartedInWn(i) \/ RequestInProgress(i)
  \/ CacCompletedInWc(i) \/ CsaInWc(i) \/ EventDropped(i)

\* A second passes: the age of every machine that waits for the end of a CAC.
SwitchChannelTick ==
  m_fsms' = [i \in Ifaces |->
               IF m_fsms[i].state = WC /\ m_fsms[i].age < MaxAge
               THEN [m_fsms[i] EXCEPT !.age = @ + 1]
               ELSE m_fsms[i]]

=============================================================================
