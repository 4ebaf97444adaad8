--------------------------- MODULE CoordinatedCac ---------------------------
(***************************************************************************)
(* CoordinatedCacTask (agent/.../tasks/coordinated_cac_task.cpp): one       *)
(* CacFsm serves the controller's CAC requests.  It asks the switch-channel *)
(* task to move a radio to the requested channel, waits for the report,     *)
(* and, if asked to, moves the radio back to its original channel.          *)
(* CAC_STARTED and CAC_COMPLETED notifications also reach this task, but    *)
(* their handlers do nothing.                                               *)
(***************************************************************************)
EXTENDS TaskPool

CONSTANTS DefaultWait,       \* DEFAULT_WAIT_FOR_SWITCH_CHANNEL_REPORT
          TerminationWait    \* DEFAULT_MAX_WAIT_FOR_CAC_TERMINATION

ASSUME WaitsAssumption == DefaultWait \in Nat /\ TerminationWait \in Nat

VARIABLES m_fsm,         \* CoordinatedCacTask::m_fsm
          wifi_channel,  \* AgentDB: the current channel of each radio
          cancels,       \* external: cancel requests the driver has not answered
          crashed        \* a null shared_ptr has been dereferenced

cacVars == <<m_fsm, wifi_channel, cancels, crashed>>

WR == "WAIT_FOR_SWITCH_CHANNEL_REPORT"
WB == "WAIT_FOR_SWITCH_BACK_TO_ORIGINAL_CHANNEL_REPORT"
WT == "WAIT_FOR_CAC_TERMINATION"

NoRadio == "zero_mac"     \* radio_uid after reset()

CompletionActions == {"REMAIN_ON_CHANNEL", "RETURN_PREVIOUS_CHANNEL", "unknown"}

\* The members of CacFsm.  The radio is named by its interface; "age" is the
\* time since m_switch_channel_start_time_point in WR and WB and since
\* m_terminate_cac_start_time_point in WT.
CacFsm ==
  [state : {"IDLE", WR, WB, WT, "ERROR"}, ifname : Ifaces \cup {NoRadio},
   radio : Ifaces \cup {NoRadio}, channel : Channels \cup {NoChannel},
   action : CompletionActions, original : Channels \cup {NoChannel},
   wait : Nat, age : 0..MaxAge]

\* reset(), the entry code of IDLE; it leaves m_ifname alone.
ResetCac(ifname) ==
  [state |-> "IDLE", ifname |-> ifname, radio |-> NoRadio, channel |-> NoChannel,
   action |-> "REMAIN_ON_CHANNEL", original |-> NoChannel, wait |-> DefaultWait, age |-> 0]

CacInit ==
  /\ m_fsm = ResetCac(NoRadio)
  /\ wifi_channel \in [Ifaces -> Channels]
  /\ cancels = 0
  /\ crashed = FALSE

Waits == m_fsm.state \in {WR, WB}

-----------------------------------------------------------------------------
(* CAC_REQUEST_MESSAGE; states other than IDLE do not register the event. *)

\* Mutants: the interface or the original channel is not saved.
CacRequestKeepsIfname(i, c, action) ==
  /\ m_fsm.state = "IDLE"
  /\ m_fsm' = [state |-> WR, ifname |-> m_fsm.ifname, radio |-> i, channel |-> c,
               action |-> action, original |-> wifi_channel[i], wait |-> m_fsm.wait, age |-> 0]
  /\ SendFromCmdu(<< SwitchChannelRequest(i, c) >>)
  /\ UNCHANGED <<wifi_channel, cancels, crashed>>

CacRequestForgetsOriginal(i, c, action) ==
  /\ m_fsm.state = "IDLE"
  /\ m_fsm' = [state |-> WR, ifname |-> i, radio |-> i, channel |-> c, action |-> action,
               original |-> NoChannel, wait |-> m_fsm.wait, age |-> 0]
  /\ SendFromCmdu(<< SwitchChannelRequest(i, c) >>)
  /\ UNCHANGED <<wifi_channel, cancels, crashed>>

\* The request names one supported channel of a known radio.
CacRequestAccepted(i, c, action) ==
  /\ m_fsm.state = "IDLE"
  /\ m_fsm' = [state |-> WR, ifname |-> i, radio |-> i, channel |-> c, action |-> action,
               original |-> wifi_channel[i], wait |-> m_fsm.wait, age |-> 0]
  /\ SendFromCmdu(<< SwitchChannelRequest(i, c) >>)
  /\ UNCHANGED <<wifi_channel, cancels, crashed>>

\* Not exactly one radio: nothing of the request is stored.
CacRequestMalformed ==
  /\ m_fsm.state = "IDLE"
  /\ m_fsm' = [m_fsm EXCEPT !.state = "ERROR"]
  /\ SendFromCmdu(<< >>)
  /\ UNCHANGED <<wifi_channel, cancels, crashed>>

\* The request is stored, but its method is not continuous CAC or its radio is
\* not in the database (m_ifname is kept), or its channel is not supported
\* (m_ifname is already the radio's).
CacRequestRejected(i, c, action) ==
  /\ m_fsm.state = "IDLE"
  /\ \E ifname \in {i, m_fsm.ifname} :
       m_fsm' = [m_fsm EXCEPT !.state = "ERROR", !.radio = i, !.channel = c,
                              !.action = action, !.ifname = ifname]
  /\ SendFromCmdu(<< >>)
  /\ UNCHANGED <<wifi_channel, cancels, crashed>>

-----------------------------------------------------------------------------
(* CAC_TERMINATION_MESSAGE and the driver's answer to a cancel request. *)

\* The channel of the termination is compared with the active request, its
\* radio is not.
TerminationMatches(i, c) == m_fsm.state = WR /\ c = m_fsm.channel

\* In every other case nothing changes: other states have nothing to terminate,
\* another channel is ignored, and a missing socket or a failed send asks for
\* ERROR, which is not a destination of this event, so the machine stays in WR.
CacTermination(i, c) ==
  /\ TerminationMatches(i, c)
  /\ m_fsm' = [m_fsm EXCEPT !.state = WT, !.age = 0]
  /\ cancels' = cancels + 1
  /\ SendFromCmdu(<< >>)
  /\ UNCHANGED <<wifi_channel, crashed>>

CacTerminationResponse ==
  /\ cancels > 0
  /\ cancels' = cancels - 1
  /\ m_fsm' = IF m_fsm.state = WT THEN ResetCac(m_fsm.ifname) ELSE m_fsm
  /\ SendFromCmdu(<< >>)
  /\ UNCHANGED <<wifi_channel, crashed>>

-----------------------------------------------------------------------------
(* SWITCH_CHANNEL_REPORT: no state compares it with the active request. *)

\* A report without a notification is dereferenced all the same.
ReportInIdle ==
  LET report == Head(m_event_queue) IN
  /\ Delivered("SWITCH_CHANNEL_REPORT")
  /\ m_fsm.state = "IDLE"
  /\ IF report.switch_channel_notification
     THEN m_fsm' = [m_fsm EXCEPT !.ifname = report.ifname] /\ UNCHANGED crashed
     ELSE crashed' = TRUE /\ UNCHANGED m_fsm
  /\ Popped(<< >>)
  /\ UNCHANGED <<wifi_channel, cancels>>

ReportInWr ==
  /\ Delivered("SWITCH_CHANNEL_REPORT")
  /\ m_fsm.state = WR
  /\ \/ /\ m_fsm.action = "REMAIN_ON_CHANNEL"
        /\ m_fsm' = ResetCac(m_fsm.ifname)
        /\ Popped(<< >>)
     \/ /\ m_fsm.action = "RETURN_PREVIOUS_CHANNEL"
        /\ m_fsm' = [m_fsm EXCEPT !.state = WB, !.wait = DefaultWait, !.age = 0]
        /\ Popped(<< SwitchChannelRequest(m_fsm.ifname, m_fsm.original) >>)
     \/ /\ m_fsm.action = "unknown"
        /\ m_fsm' = [m_fsm EXCEPT !.state = "ERROR", !.age = 0]
        /\ Popped(<< >>)
  /\ UNCHANGED <<wifi_channel, cancels, crashed>>

ReportInWb ==
  /\ Delivered("SWITCH_CHANNEL_REPORT")
  /\ m_fsm.state = WB
  /\ m_fsm' = ResetCac(m_fsm.ifname)
  /\ Popped(<< >>)
  /\ UNCHANGED <<wifi_channel, cancels, crashed>>

ReportDropped ==
  /\ Delivered("SWITCH_CHANNEL_REPORT")
  /\ m_fsm.state \in {WT, "ERROR"}
  /\ Popped(<< >>)
  /\ UNCHANGED cacVars

\* SWITCH_CHANNEL_DURATION_TIME replaces the time to wait, counted from the request.
DurationTime ==
  /\ Delivered("SWITCH_CHANNEL_DURATION_TIME")
  /\ m_fsm' = IF Waits THEN [m_fsm EXCEPT !.wait = Head(m_event_queue).duration_sec]
                       ELSE m_fsm
  /\ Popped(<< >>)
  /\ UNCHANGED <<wifi_channel, cancels, crashed>>

CacEvent == ReportInIdle \/ ReportInWr \/ ReportInWb \/ ReportDropped \/ DurationTime

-----------------------------------------------------------------------------
(* PERIODIC *)

\* A mutant: the wait for the termination has no timeout.
TimedOutWaitingForReport == Waits /\ m_fsm.age > m_fsm.wait

TimedOutWaiting ==
  \/ Waits /\ m_fsm.age > m_fsm.wait
  \/ m_fsm.state = WT /\ m_fsm.age > TerminationWait

CacTimeout ==
  /\ Working(CacTask)
  /\ TimedOutWaiting
  /\ m_fsm' = [m_fsm EXCEPT !.state = "ERROR", !.age = 0]
  /\ Worked(<< >>)
  /\ UNCHANGED <<wifi_channel, cancels, crashed>>

CacErrorToIdle ==
  /\ Working(CacTask)
  /\ m_fsm.state = "ERROR"
  /\ m_fsm' = ResetCac(m_fsm.ifname)
  /\ Worked(<< >>)
  /\ UNCHANGED <<wifi_channel, cancels, crashed>>

CacStays ==
  /\ Working(CacTask)
  /\ m_fsm.state # "ERROR"
  /\ ~ TimedOutWaiting
  /\ Worked(<< >>)
  /\ UNCHANGED cacVars

CacPeriodic == CacTimeout \/ CacErrorToIdle \/ CacStays

\* A second passes.
CacTick ==
  m_fsm' = IF m_fsm.state \in {WR, WB, WT} /\ m_fsm.age < MaxAge
           THEN [m_fsm EXCEPT !.age = @ + 1]
           ELSE m_fsm

=============================================================================
