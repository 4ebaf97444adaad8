-------------------------- MODULE ChannelSwitching --------------------------
(***************************************************************************)
(* The coordinated-CAC task and the switch-channel task in one task pool,   *)
(* between a controller that sends CAC requests and terminations and the    *)
(* drivers of the radios.  The controller and the drivers are external: a   *)
(* driver may answer a switch with a CSA (success or error) or a CAC, may   *)
(* never answer, and may switch or start a CAC on its own account.          *)
(***************************************************************************)
EXTENDS SwitchChannel, CoordinatedCac

CONSTANTS MaxCmdus,        \* bound on the CAC CMDUs of the controller
          MaxUnsolicited   \* bound on the driver's unsolicited actions

ASSUME BoundsAssumption == MaxCmdus \in Nat /\ MaxUnsolicited \in Nat

VARIABLES cmdus, unsolicited

envVars == <<cmdus, unsolicited>>
vars == <<poolVars, m_fsms, driver, cacVars, envVars>>

Init ==
  /\ PoolInit /\ SwitchChannelInit /\ CacInit
  /\ cmdus = 0
  /\ unsolicited = 0

-----------------------------------------------------------------------------
(* The controller *)

CacRequestMessage ==
  /\ cmdus < MaxCmdus
  /\ cmdus' = cmdus + 1
  /\ \E i \in Ifaces, c \in Channels, action \in CompletionActions :
       \/ CacRequestAccepted(i, c, action)
       \/ CacRequestRejected(i, c, action)
       \/ CacRequestMalformed
  /\ UNCHANGED <<m_fsms, driver, unsolicited>>

CacTerminationMessage ==
  /\ cmdus < MaxCmdus
  /\ cmdus' = cmdus + 1
  /\ \E i \in Ifaces, c \in Channels : CacTermination(i, c)
  /\ UNCHANGED <<m_fsms, driver, unsolicited>>

-----------------------------------------------------------------------------
(* The drivers: the notification handlers of ChannelSelectionTask post one   *)
(* event each; a CSA also updates the channel in the database.               *)

DriverCsa(i) ==
  /\ driver[i].mode \in {"switching", "cac"}
  /\ driver' = [driver EXCEPT ![i] = DriverIdle]
  /\ wifi_channel' \in {wifi_channel, [wifi_channel EXCEPT ![i] = driver[i].target]}
  /\ SendFromCmdu(<< SwitchChannelNotification(i) >>)
  /\ UNCHANGED <<m_fsms, m_fsm, cancels, crashed, envVars>>

DriverCacStarted(i, d) ==
  /\ driver[i].mode = "switching"
  /\ driver' = [driver EXCEPT ![i].mode = "cac"]
  /\ SendFromCmdu(<< CacStartedNotification(i, d) >>)
  /\ UNCHANGED <<m_fsms, cacVars, envVars>>

DriverCacCompleted(i) ==
  /\ driver[i].mode = "cac"
  /\ driver' = [driver EXCEPT ![i] = DriverIdle]
  /\ wifi_channel' = [wifi_channel EXCEPT ![i] = driver[i].target]
  /\ SendFromCmdu(<< CacCompletedNotification(i) >>)
  /\ UNCHANGED <<m_fsms, m_fsm, cancels, crashed, envVars>>

\* A switch that nobody asked for: a CSA at once, or a CAC first.
DriverUnsolicited(i, c) ==
  /\ driver[i].mode = "idle"
  /\ unsolicited < MaxUnsolicited
  /\ unsolicited' = unsolicited + 1
  /\ \/ /\ UNCHANGED driver
        /\ wifi_channel' = [wifi_channel EXCEPT ![i] = c]
        /\ SendFromCmdu(<< SwitchChannelNotification(i) >>)
     \/ /\ driver' = [driver EXCEPT ![i] = [mode |-> "cac", target |-> c]]
        /\ \E d \in Durations : SendFromCmdu(<< CacStartedNotification(i, d) >>)
        /\ UNCHANGED wifi_channel
  /\ UNCHANGED <<m_fsms, m_fsm, cancels, crashed, cmdus>>

DriverCancelResponse ==
  /\ CacTerminationResponse
  /\ UNCHANGED <<m_fsms, driver, envVars>>

\* What a driver does to finish a switch it was asked for.
DriverAnswers(i) ==
  \/ DriverCsa(i)
  \/ \E d \in Durations : DriverCacStarted(i, d)
  \/ DriverCacCompleted(i)

-----------------------------------------------------------------------------
(* The agent *)

\* Time passes between two calls of run_tasks().
Tick ==
  /\ phase = "idle"
  /\ SwitchChannelTick
  /\ CacTick
  /\ UNCHANGED <<poolVars, driver, wifi_channel, cancels, crashed, envVars>>

TaskEvent ==
  \/ (\E i \in Ifaces : SwitchChannelEvent(i)) /\ UNCHANGED <<cacVars, envVars>>
  \/ CacEvent /\ UNCHANGED <<m_fsms, driver, envVars>>

SwitchChannelWork(i) == SwitchChannelPeriodic(i) /\ UNCHANGED <<cacVars, envVars>>

CacWork == CacPeriodic /\ UNCHANGED <<m_fsms, driver, envVars>>

RunsTasks == PoolControl /\ UNCHANGED <<m_fsms, driver, cacVars, envVars>>

Agent == TaskEvent \/ (\E i \in Ifaces : SwitchChannelWork(i)) \/ CacWork \/ RunsTasks

Environment ==
  \/ CacRequestMessage \/ CacTerminationMessage \/ DriverCancelResponse
  \/ \E i \in Ifaces : DriverAnswers(i)
  \/ \E i \in Ifaces, c \in Channels : DriverUnsolicited(i, c)

\* After a crash the process is gone.
Next ==
  /\ ~ crashed
  /\ Agent \/ Tick \/ Environment

\* The event loop keeps calling run_tasks() and time passes.  A deadline can cut
\* any one pass short, but not every pass before the same task: the budget of a
\* pass exceeds what the tasks need unless the device is overloaded.
Fairness ==
  /\ WF_vars(~ crashed /\ Agent)
  /\ SF_vars(~ crashed /\ Tick)
  /\ SF_vars(~ crashed /\ CacWork)
  /\ \A i \in Ifaces : SF_vars(~ crashed /\ SwitchChannelWork(i))

Spec == Init /\ [][Next]_vars /\ Fairness

-----------------------------------------------------------------------------
(* Safety *)

Queued(type) == {n \in 1..Len(m_event_queue) : m_event_queue[n].type = type}

\* Every member of the two tasks, of the pool and of the environment keeps its type.
TypeOK ==
  /\ m_event_queue \in Seq(Event)
  /\ phase \in Phases
  /\ next \in 1..Len(WorkOrder) + 1
  /\ m_fsms \in [Ifaces -> SwitchChannelFsm]
  /\ driver \in [Ifaces -> Driver]
  /\ m_fsm \in CacFsm
  /\ wifi_channel \in [Ifaces -> Channels]
  /\ cancels \in Nat
  /\ crashed \in BOOLEAN
  /\ cmdus \in 0..MaxCmdus
  /\ unsolicited \in 0..MaxUnsolicited

HoldsOnlyItsOwnData(fsm) ==
  /\ fsm.state = WN => fsm = ResetIn(WN)
  /\ fsm.state = WC => fsm.started /\ ~ fsm.request
  /\ fsm.state = "IDLE" => ~ fsm.started
  /\ ~ fsm.notification /\ ~ fsm.completed

\* A switch-channel machine never carries the data of an earlier switch into a
\* later one: whatever sequence of answers, timeouts and errors led there, a
\* machine that waits for a notification is empty, one that waits for the end of
\* a CAC knows exactly that the CAC started, and no machine keeps a notification
\* or a completion (the resets in switch_channel_task.cpp).
NoDataOfAnEarlierSwitch == \A i \in Ifaces : HoldsOnlyItsOwnData(m_fsms[i])

Consistent(r) ==
  /\ r.cac_happened = r.cac_completed_notification
  /\ r.cac_completed_notification =>
       r.cac_started_notification /\ ~ r.switch_channel_notification
  /\ r.status = "ANOTHER_SWITCH_IN_PROGRESS" =>
       /\ r.original_request
       /\ ~ r.switch_channel_notification /\ ~ r.cac_started_notification

\* A queued report tells one story (sSwitchChannelReport): it says that a CAC
\* happened exactly when it holds the CAC's completion, a completion comes with
\* its start and without a CSA notification, and a refused request brings nothing
\* but the request.
ReportsAreConsistent ==
  \A n \in Queued("SWITCH_CHANNEL_REPORT") : Consistent(m_event_queue[n])

ActsOnItsRadio(fsm) ==
  fsm.state \in {WR, WB, WT} =>
    fsm.ifname = fsm.radio /\ fsm.radio \in Ifaces /\ fsm.original \in Channels

\* While a CAC is in progress the machine acts on one radio: m_ifname, to which it
\* addresses the switch back and the cancel request, is the interface of the radio
\* of the request, and there is an original channel to go back to.  m_ifname is
\* not reset, and a report received in IDLE overwrites it with the interface of
\* whatever radio switched (coordinated_cac_task.cpp, l. 192).
CacActsOnItsRadio == ActsOnItsRadio(m_fsm)

\* The coordinated-CAC machine gives up waiting only when every duration that the
\* switch-channel task has announced has been taken into account: run_tasks()
\* empties the event queue before it calls work().
TimeoutKnowsDuration ==
  [][CacTimeout => Queued("SWITCH_CHANNEL_DURATION_TIME") = {}]_vars

-----------------------------------------------------------------------------
(* Liveness *)

\* Whatever the driver does or fails to do, the coordinated-CAC machine ends up in
\* IDLE again, ready for the next CAC request: each of its waits has a timeout.
CacComesBackToIdle == (m_fsm.state # "IDLE") ~> (m_fsm.state = "IDLE" \/ crashed)

\* A switch-channel machine does not wait forever for the end of a CAC.
CacWaitEnds == \A i \in Ifaces : (m_fsms[i].state = WC) ~> (m_fsms[i].state # WC \/ crashed)

\* If the drivers finish the switches they were asked for, a machine that waits
\* for its driver moves on.
ResponsiveDriver == \A i \in Ifaces : SF_vars(~ crashed /\ DriverAnswers(i))

AnsweredSwitchMovesOn ==
  ResponsiveDriver =>
    \A i \in Ifaces : (m_fsms[i].state = WN /\ driver[i].mode = "switching")
                        ~> (m_fsms[i].state # WN \/ crashed)

-----------------------------------------------------------------------------
(* What comments say and the code does not do. *)

\* A report received in IDLE leads to a preference report
\* (coordinated_cac_task.cpp, l. 186: "send preference report when
\* SWITCH_CHANNEL_REPORT event is received in IDLE state"), not to a crash.
NoNullDereference == ~ crashed

=============================================================================
