----------------------- MODULE ChannelSwitching_proof -----------------------
(***************************************************************************)
(* Proofs about ChannelSwitching for any set of radios, channels and CAC   *)
(* durations, any order of work() calls and any bounds.  The inductive      *)
(* invariant states the properties elementwise: every queued event, every   *)
(* switch-channel machine and the coordinated-CAC machine is a good one,    *)
(* and while run_tasks() calls work() only reports are queued.              *)
(***************************************************************************)
EXTENDS ChannelSwitching, TLAPS

GoodEvent == {e \in Event : e.type = "SWITCH_CHANNEL_REPORT" => Consistent(e)}

GoodFsm == {f \in SwitchChannelFsm : HoldsOnlyItsOwnData(f)}

GoodCac == {f \in CacFsm : ActsOnItsRadio(f)}

PoolInv ==
  /\ m_event_queue \in Seq(GoodEvent)
  /\ phase \in Phases
  /\ next \in 1..Len(WorkOrder) + 1
  /\ phase = "work" => m_event_queue \in Seq(Report)

SwitchInv == m_fsms \in [Ifaces -> GoodFsm] /\ driver \in [Ifaces -> Driver]

CacInv ==
  /\ m_fsm \in GoodCac
  /\ wifi_channel \in [Ifaces -> Channels]
  /\ cancels \in Nat
  /\ crashed \in BOOLEAN

EnvInv == cmdus \in 0..MaxCmdus /\ unsolicited \in 0..MaxUnsolicited

IInv == PoolInv /\ SwitchInv /\ CacInv /\ EnvInv

-----------------------------------------------------------------------------
(* Queues *)

\* Handling the front event keeps a queue over any set of events.
LEMMA QueueStep ==
  ASSUME NEW S, NEW q \in Seq(S), NEW ev \in Seq(S), q # << >>
  PROVE  Head(q) \in S /\ Tail(q \o ev) \in Seq(S)
  OBVIOUS

\* The front event is good.
LEMMA HeadIsGood ==
  ASSUME PoolInv, m_event_queue # << >>
  PROVE  Head(m_event_queue) \in GoodEvent
  BY QueueStep DEF PoolInv

\* The payload that an event of each type carries.
LEMMA Payload ==
  ASSUME NEW e \in GoodEvent
  PROVE  /\ e.ifname \in Ifaces
         /\ e.type = "SWITCH_CHANNEL_REQUEST" => e.channel \in Channels
         /\ e.type = "CAC_STARTED_NOTIFICATION" => e.cac_duration_sec \in Durations
         /\ e.type = "SWITCH_CHANNEL_DURATION_TIME" => e.duration_sec \in Nat
         /\ e.type = "SWITCH_CHANNEL_REPORT" => e \in Report
<1>1. CASE e \in [type : {"SWITCH_CHANNEL_REQUEST"}, ifname : Ifaces, channel : Channels]
  BY <1>1
<1>2. CASE e \in [type : {"SWITCH_CHANNEL_NOTIFICATION_EVENT", "CAC_COMPLETED_NOTIFICATION"},
                  ifname : Ifaces]
  BY <1>2
<1>3. CASE e \in [type : {"CAC_STARTED_NOTIFICATION"}, ifname : Ifaces,
                  cac_duration_sec : Durations]
  BY <1>3
<1>4. CASE e \in [type : {"SWITCH_CHANNEL_DURATION_TIME"}, ifname : Ifaces,
                  duration_sec : Nat]
  BY <1>4
<1>5. CASE e \in Report
  BY <1>5 DEF Report
<1> QED
  BY <1>1, <1>2, <1>3, <1>4, <1>5 DEF GoodEvent, Event

\* The events that tasks post are good.
LEMMA PostedEvents ==
  ASSUME NEW i \in Ifaces
  PROVE  /\ \A c \in Channels : SwitchChannelRequest(i, c) \in GoodEvent
         /\ SwitchChannelNotification(i) \in GoodEvent
         /\ \A d \in Durations : CacStartedNotification(i, d) \in GoodEvent
         /\ CacCompletedNotification(i) \in GoodEvent
         /\ \A d \in Nat : SwitchChannelDurationTime(i, d) \in GoodEvent
  BY DEF GoodEvent, Event, SwitchChannelRequest, SwitchChannelNotification,
         CacStartedNotification, CacCompletedNotification, SwitchChannelDurationTime

\* The wait computed for a CAC is a number of seconds.
LEMMA WaitFits ==
  ASSUME NEW d \in Durations
  PROVE  WaitFor(d) \in Nat
  BY DurationsAssumption DEF WaitFor

-----------------------------------------------------------------------------
(* The ways in which an action treats the pool. *)

\* Handling the front event and posting good events.
LEMMA PoppedKeepsPool ==
  ASSUME PoolInv, phase = "events", m_event_queue # << >>,
         NEW ev \in Seq(GoodEvent), Popped(ev)
  PROVE  PoolInv'
  BY QueueStep DEF PoolInv, Popped

\* A CMDU handler that posts good events.
LEMMA SendKeepsPool ==
  ASSUME PoolInv, NEW ev \in Seq(GoodEvent), SendFromCmdu(ev)
  PROVE  PoolInv'
  BY DEF PoolInv, SendFromCmdu

\* A call to work() that posts consistent reports.
LEMMA WorkedKeepsPool ==
  ASSUME PoolInv, phase = "work", next <= Len(WorkOrder),
         NEW ev \in Seq(GoodEvent), ev \in Seq(Report), Worked(ev)
  PROVE  PoolInv'
  BY WorkOrderAssumption DEF PoolInv, Worked

\* The control of run_tasks() starts work() with an empty queue.
LEMMA ControlKeepsPool ==
  ASSUME PoolInv, PoolControl
  PROVE  PoolInv'
  BY WorkOrderAssumption
     DEF PoolInv, Phases, PoolControl, RunTasks, StartWork, DeadlineReached, WorkDone

-----------------------------------------------------------------------------
(* The switch-channel task *)

\* reset() leads to a good machine, in IDLE and in WN.
LEMMA ResetIsGood ==
  /\ ResetIn("IDLE") \in GoodFsm
  /\ ResetIn(WN) \in GoodFsm
  BY MaxAgeAssumption
     DEF GoodFsm, SwitchChannelFsm, HoldsOnlyItsOwnData, ResetIn, FsmStates, WN, WC

\* A report that a good machine fills in from its members is consistent.
LEMMA FullReportIsGood ==
  ASSUME NEW i \in Ifaces, NEW f \in GoodFsm
  PROVE  /\ FullReport(i, f, FALSE) \in Report \cap GoodEvent
         /\ f.state = WN => FullReport(i, [f EXCEPT !.notification = TRUE], FALSE) \in GoodEvent
         /\ f.state = WC => FullReport(i, [f EXCEPT !.completed = TRUE], TRUE) \in GoodEvent
  BY DEF GoodFsm, GoodEvent, Event, Report, ReportStatus, Consistent, FullReport,
         SwitchChannelReport, SwitchChannelFsm, HoldsOnlyItsOwnData, WN, WC, ResetIn

\* Every handler of a switch-channel machine keeps the pool and the machines good.
LEMMA SwitchEventKeeps ==
  ASSUME PoolInv, SwitchInv, NEW i \in Ifaces, SwitchChannelEvent(i)
  PROVE  PoolInv' /\ SwitchInv'
<1> DEFINE e == Head(m_event_queue)
<1>1. /\ phase = "events"
      /\ m_event_queue # << >>
  BY DEF SwitchChannelEvent, SwitchChannelRequestSent, SwitchChannelRequestFailed,
         SwitchChannelRequestNoRadio, CsaInIdle, CsaInWn, CacStartedInWn, RequestInProgress,
         CacCompletedInWc, CsaInWc, EventDropped, Handles, Delivered
<1>2. e \in GoodEvent
  BY <1>1, HeadIsGood
<1>3. m_fsms[i] \in GoodFsm
  BY DEF SwitchInv
<1>4. << >> \in Seq(GoodEvent) /\ \A x \in GoodEvent : << x >> \in Seq(GoodEvent)
  OBVIOUS
<1>5. CASE SwitchChannelRequestSent(i)
  <2>1. e.channel \in Channels
    BY <1>2, <1>5, Payload DEF SwitchChannelRequestSent, Handles, Delivered
  <2> QED
    BY <1>1, <1>4, <1>5, <2>1, ResetIsGood, PoppedKeepsPool
       DEF SwitchChannelRequestSent, SwitchInv, Goto, Driver
<1>6. CASE SwitchChannelRequestFailed(i)
  <2>1. [m_fsms[i] EXCEPT !.state = "ERROR", !.request = TRUE] \in GoodFsm
    BY <1>3, <1>6 DEF SwitchChannelRequestFailed, Handles, GoodFsm, SwitchChannelFsm, FsmStates,
                      HoldsOnlyItsOwnData, WN, WC
  <2> QED
    BY <1>1, <1>4, <1>6, <2>1, PoppedKeepsPool DEF SwitchChannelRequestFailed, SwitchInv, Goto
<1>7. CASE SwitchChannelRequestNoRadio(i)
  <2>1. [m_fsms[i] EXCEPT !.request = TRUE] \in GoodFsm
    BY <1>3, <1>7 DEF SwitchChannelRequestNoRadio, Handles, GoodFsm, SwitchChannelFsm, FsmStates,
                      HoldsOnlyItsOwnData, WN, WC
  <2> QED
    BY <1>1, <1>4, <1>7, <2>1, PoppedKeepsPool DEF SwitchChannelRequestNoRadio, SwitchInv, Goto
<1>8. CASE CsaInIdle(i)
  <2>1. SwitchChannelReport(i, FALSE, FALSE, TRUE, FALSE, FALSE, "NOT_COMPUTED") \in GoodEvent
    BY DEF SwitchChannelReport, GoodEvent, Event, Report, ReportStatus, Consistent
  <2> QED
    BY <1>1, <1>4, <1>8, <2>1, PoppedKeepsPool DEF CsaInIdle, SwitchInv
<1>9. CASE CsaInWn(i)
  <2>1. FullReport(i, [m_fsms[i] EXCEPT !.notification = TRUE], FALSE) \in GoodEvent
    BY <1>3, <1>9, FullReportIsGood DEF CsaInWn, Handles
  <2> QED
    BY <1>1, <1>4, <1>9, <2>1, ResetIsGood, PoppedKeepsPool DEF CsaInWn, SwitchInv, Goto
<1>10. CASE CacStartedInWn(i)
  <2> DEFINE wait == WaitFor(e.cac_duration_sec)
  <2>1. wait \in Nat
    BY <1>2, <1>10, Payload, WaitFits DEF CacStartedInWn, Handles, Delivered
  <2>2. [m_fsms[i] EXCEPT !.state = WC, !.started = TRUE, !.wait = wait] \in GoodFsm
    <3>1. m_fsms[i].state = WN
      BY <1>10 DEF CacStartedInWn, Handles
    <3>2. m_fsms[i] \in SwitchChannelFsm /\ HoldsOnlyItsOwnData(m_fsms[i])
      BY <1>3 DEF GoodFsm
    <3>3. ~ m_fsms[i].request
      BY <3>1, <3>2 DEF HoldsOnlyItsOwnData, ResetIn
    <3> DEFINE f == [m_fsms[i] EXCEPT !.state = WC, !.started = TRUE, !.wait = wait]
    <3>4. f \in SwitchChannelFsm
      BY <3>2, <2>1 DEF SwitchChannelFsm, FsmStates
    <3>5. HoldsOnlyItsOwnData(f)
      BY <3>2, <3>3 DEF HoldsOnlyItsOwnData, SwitchChannelFsm, WN, WC
    <3> QED
      BY <3>4, <3>5 DEF GoodFsm
  <2>3. SwitchChannelDurationTime(i, wait) \in GoodEvent
    BY <2>1, PostedEvents
  <2> QED
    BY <1>1, <1>4, <1>10, <2>2, <2>3, PoppedKeepsPool DEF CacStartedInWn, SwitchInv, Goto
<1>11. CASE RequestInProgress(i)
  <2>1. SwitchChannelReport(i, FALSE, TRUE, FALSE, FALSE, FALSE, "ANOTHER_SWITCH_IN_PROGRESS")
          \in GoodEvent
    BY DEF SwitchChannelReport, GoodEvent, Event, Report, ReportStatus, Consistent
  <2> QED
    BY <1>1, <1>4, <1>11, <2>1, PoppedKeepsPool DEF RequestInProgress, SwitchInv
<1>12. CASE CacCompletedInWc(i)
  <2>1. FullReport(i, [m_fsms[i] EXCEPT !.completed = TRUE], TRUE) \in GoodEvent
    BY <1>3, <1>12, FullReportIsGood DEF CacCompletedInWc, Handles
  <2> QED
    BY <1>1, <1>4, <1>12, <2>1, ResetIsGood, PoppedKeepsPool DEF CacCompletedInWc, SwitchInv, Goto
<1>13. CASE CsaInWc(i)
  <2>1. SwitchChannelReport(i, FALSE, m_fsms[i].request, TRUE, FALSE, FALSE, "NOT_COMPUTED")
          \in GoodEvent
    BY <1>3 DEF SwitchChannelReport, GoodEvent, Event, Report, ReportStatus, Consistent,
                GoodFsm, SwitchChannelFsm
  <2> QED
    BY <1>1, <1>4, <1>13, <2>1, ResetIsGood, PoppedKeepsPool DEF CsaInWc, SwitchInv, Goto
<1>14. CASE EventDropped(i)
  BY <1>1, <1>4, <1>14, PoppedKeepsPool DEF EventDropped, SwitchInv
<1> QED
  BY <1>5, <1>6, <1>7, <1>8, <1>9, <1>10, <1>11, <1>12, <1>13, <1>14 DEF SwitchChannelEvent

\* The work() of the switch-channel task does as well.
LEMMA SwitchWorkKeeps ==
  ASSUME PoolInv, SwitchInv, NEW i \in Ifaces, SwitchChannelPeriodic(i)
  PROVE  PoolInv' /\ SwitchInv'
<1>1. phase = "work" /\ next <= Len(WorkOrder)
  BY DEF SwitchChannelPeriodic, PeriodicCacTimeout, PeriodicInError, PeriodicIdle, Working
<1>2. m_fsms[i] \in GoodFsm
  BY DEF SwitchInv
<1>3. << >> \in Seq(GoodEvent) /\ << >> \in Seq(Report)
  OBVIOUS
<1>4. CASE PeriodicCacTimeout(i)
  <2>1. [m_fsms[i] EXCEPT !.state = "ERROR", !.wait = 0, !.age = 0] \in GoodFsm
    <3> DEFINE f == [m_fsms[i] EXCEPT !.state = "ERROR", !.wait = 0, !.age = 0]
    <3>1. m_fsms[i] \in SwitchChannelFsm /\ HoldsOnlyItsOwnData(m_fsms[i])
      BY <1>2 DEF GoodFsm
    <3>2. f \in SwitchChannelFsm
      <4>1. 0 \in Nat /\ 0 \in 0..MaxAge
        BY MaxAgeAssumption
      <4> QED
        BY <3>1, <4>1, Zenon DEF SwitchChannelFsm, FsmStates
    <3>3. HoldsOnlyItsOwnData(f)
      BY <3>1 DEF HoldsOnlyItsOwnData, SwitchChannelFsm, WN, WC
    <3> QED
      BY <3>2, <3>3 DEF GoodFsm
  <2> QED
    BY <1>1, <1>3, <1>4, <2>1, WorkedKeepsPool DEF PeriodicCacTimeout, SwitchInv, Goto
<1>5. CASE PeriodicInError(i)
  <2> DEFINE r == FullReport(i, m_fsms[i], FALSE)
  <2>1. r \in Report \cap GoodEvent
    BY <1>2, FullReportIsGood
  <2>2. << r >> \in Seq(GoodEvent) /\ << r >> \in Seq(Report)
    <3> HIDE DEF r
    <3> QED  BY <2>1
  <2> QED
    BY <1>1, <1>5, <2>2, ResetIsGood, WorkedKeepsPool DEF PeriodicInError, SwitchInv, Goto
<1>6. CASE PeriodicIdle(i)
  BY <1>1, <1>3, <1>6, WorkedKeepsPool DEF PeriodicIdle, SwitchInv
<1> QED
  BY <1>4, <1>5, <1>6 DEF SwitchChannelPeriodic

\* The passing of time only ages machines that wait for the end of a CAC.
LEMMA SwitchTickKeeps ==
  ASSUME SwitchInv, SwitchChannelTick, UNCHANGED driver
  PROVE  SwitchInv'
<1>1. \A f \in GoodFsm : f.state = WC /\ f.age < MaxAge => [f EXCEPT !.age = @ + 1] \in GoodFsm
  BY MaxAgeAssumption DEF GoodFsm, SwitchChannelFsm, HoldsOnlyItsOwnData, WN, WC
<1> QED
  BY <1>1 DEF SwitchInv, SwitchChannelTick

-----------------------------------------------------------------------------
(* The coordinated-CAC task *)

\* reset() leads to a good machine whatever m_ifname it keeps.
LEMMA ResetCacIsGood ==
  ASSUME NEW ifname \in Ifaces \cup {NoRadio}
  PROVE  ResetCac(ifname) \in GoodCac
  BY WaitsAssumption, MaxAgeAssumption
     DEF GoodCac, CacFsm, ActsOnItsRadio, ResetCac, CompletionActions, WR, WB, WT

\* In ERROR nothing is asked of the machine.
LEMMA ErrorIsGood ==
  ASSUME NEW f \in CacFsm, f.state = "ERROR"
  PROVE  f \in GoodCac
  BY DEF GoodCac, ActsOnItsRadio, WR, WB, WT

\* Zero is an age.
LEMMA ZeroAge == 0 \in 0..MaxAge
  BY MaxAgeAssumption

\* The handlers of the controller's CMDUs keep the pool and the machine good.
LEMMA CacRequestKeeps ==
  ASSUME PoolInv, CacInv, NEW i \in Ifaces, NEW c \in Channels, NEW action \in CompletionActions,
         \/ CacRequestAccepted(i, c, action)
         \/ CacRequestRejected(i, c, action)
         \/ CacRequestMalformed
  PROVE  PoolInv' /\ CacInv'
<1>1. << >> \in Seq(GoodEvent) /\ << SwitchChannelRequest(i, c) >> \in Seq(GoodEvent)
  BY PostedEvents
<1>2. m_fsm \in CacFsm
  BY DEF CacInv, GoodCac
<1>3. CASE CacRequestAccepted(i, c, action)
  <2>1. m_fsm' \in CacFsm
    BY <1>2, <1>3, ZeroAge, Zenon DEF CacRequestAccepted, CacInv, CacFsm
  <2>2. ActsOnItsRadio(m_fsm')
    BY <1>3 DEF CacRequestAccepted, CacInv, ActsOnItsRadio
  <2> QED
    BY <1>1, <1>3, <2>1, <2>2, SendKeepsPool DEF CacRequestAccepted, CacInv, GoodCac
<1>4. CASE CacRequestRejected(i, c, action)
  <2>1. m_fsm' \in CacFsm /\ m_fsm'.state = "ERROR"
    <3>1. PICK ifname \in {i, m_fsm.ifname} :
            m_fsm' = [m_fsm EXCEPT !.state = "ERROR", !.radio = i, !.channel = c,
                                   !.action = action, !.ifname = ifname]
      BY <1>4 DEF CacRequestRejected
    <3> QED
      BY <1>2, <3>1, Zenon DEF CacFsm
  <2> QED
    BY <1>1, <1>4, <2>1, ErrorIsGood, SendKeepsPool DEF CacRequestRejected, CacInv
<1>5. CASE CacRequestMalformed
  <2>1. m_fsm' \in CacFsm /\ m_fsm'.state = "ERROR"
    BY <1>2, <1>5 DEF CacRequestMalformed, CacFsm
  <2> QED
    BY <1>1, <1>5, <2>1, ErrorIsGood, SendKeepsPool DEF CacRequestMalformed, CacInv
<1> QED
  BY <1>3, <1>4, <1>5

\* So does the handler of a termination.
LEMMA CacTerminationKeeps ==
  ASSUME PoolInv, CacInv, NEW i \in Ifaces, NEW c \in Channels, CacTermination(i, c)
  PROVE  PoolInv' /\ CacInv'
<1>1. m_fsm \in CacFsm /\ ActsOnItsRadio(m_fsm)
  BY DEF CacInv, GoodCac
<1>2. m_fsm' \in CacFsm
  BY <1>1, ZeroAge, Zenon DEF CacTermination, CacFsm
<1>3. ActsOnItsRadio(m_fsm')
  BY <1>1 DEF CacTermination, TerminationMatches, CacFsm, ActsOnItsRadio
<1>4. cancels' \in Nat
  BY DEF CacTermination, CacInv
<1>5. PoolInv'
  <2>1. << >> \in Seq(GoodEvent)
    OBVIOUS
  <2> QED
    BY <2>1, SendKeepsPool DEF CacTermination
<1> QED
  BY <1>2, <1>3, <1>4, <1>5 DEF CacTermination, CacInv, GoodCac

\* So does the handler of the driver's answer to a cancel request.
LEMMA CacTerminationResponseKeeps ==
  ASSUME PoolInv, CacInv, CacTerminationResponse
  PROVE  PoolInv' /\ CacInv'
<1>1. ResetCac(m_fsm.ifname) \in GoodCac
  BY ResetCacIsGood DEF CacInv, GoodCac, CacFsm
<1>2. cancels' \in Nat
  BY DEF CacTerminationResponse, CacInv
<1>3. PoolInv'
  <2>1. << >> \in Seq(GoodEvent)
    OBVIOUS
  <2> QED
    BY <2>1, SendKeepsPool DEF CacTerminationResponse
<1> QED
  BY <1>1, <1>2, <1>3 DEF CacTerminationResponse, CacInv

\* The handlers of reports and durations do as well.
LEMMA CacEventKeeps ==
  ASSUME PoolInv, CacInv, CacEvent
  PROVE  PoolInv' /\ CacInv'
<1> DEFINE e == Head(m_event_queue)
<1>1. phase = "events" /\ m_event_queue # << >>
  BY DEF CacEvent, ReportInIdle, ReportInWr, ReportInWb, ReportDropped, DurationTime, Delivered
<1>2. e \in GoodEvent
  BY <1>1, HeadIsGood
<1>3. << >> \in Seq(GoodEvent)
  OBVIOUS
<1>4. m_fsm \in CacFsm /\ ActsOnItsRadio(m_fsm)
  BY DEF CacInv, GoodCac
<1>5. ResetCac(m_fsm.ifname) \in GoodCac
  BY <1>4, ResetCacIsGood DEF CacFsm
<1>6. CASE ReportInIdle
  <2>1. e.ifname \in Ifaces
    BY <1>2, Payload
  <2>2. [m_fsm EXCEPT !.ifname = e.ifname] \in GoodCac
    BY <1>4, <1>6, <2>1 DEF ReportInIdle, GoodCac, CacFsm, ActsOnItsRadio, WR, WB, WT
  <2> QED
    BY <1>1, <1>3, <1>6, <2>2, PoppedKeepsPool DEF ReportInIdle, CacInv
<1>7. CASE ReportInWr
  <2>1. CASE m_fsm' = ResetCac(m_fsm.ifname) /\ Popped(<< >>)
    BY <1>1, <1>3, <1>5, <1>7, <2>1, PoppedKeepsPool DEF ReportInWr, CacInv
  <2>2. CASE /\ m_fsm' = [m_fsm EXCEPT !.state = WB, !.wait = DefaultWait, !.age = 0]
             /\ Popped(<< SwitchChannelRequest(m_fsm.ifname, m_fsm.original) >>)
    <3>1. m_fsm.ifname = m_fsm.radio /\ m_fsm.radio \in Ifaces /\ m_fsm.original \in Channels
      BY <1>4, <1>7 DEF ReportInWr, ActsOnItsRadio
    <3>2. << SwitchChannelRequest(m_fsm.ifname, m_fsm.original) >> \in Seq(GoodEvent)
      BY <3>1, PostedEvents
    <3>3. m_fsm' \in CacFsm
      BY <1>4, <2>2, ZeroAge, WaitsAssumption, Zenon DEF CacFsm
    <3>4. ActsOnItsRadio(m_fsm')
      BY <1>4, <2>2, <3>1 DEF ActsOnItsRadio, CacFsm
    <3> QED
      BY <1>1, <1>7, <2>2, <3>2, <3>3, <3>4, PoppedKeepsPool DEF ReportInWr, CacInv, GoodCac
  <2>3. CASE m_fsm' = [m_fsm EXCEPT !.state = "ERROR", !.age = 0] /\ Popped(<< >>)
    <3>1. m_fsm' \in CacFsm /\ m_fsm'.state = "ERROR"
      BY <1>4, <2>3, ZeroAge, Zenon DEF CacFsm
    <3> QED
      BY <1>1, <1>3, <1>7, <2>3, <3>1, ErrorIsGood, PoppedKeepsPool DEF ReportInWr, CacInv
  <2> QED
    BY <1>7, <2>1, <2>2, <2>3 DEF ReportInWr
<1>8. CASE ReportInWb
  BY <1>1, <1>3, <1>5, <1>8, PoppedKeepsPool DEF ReportInWb, CacInv
<1>9. CASE ReportDropped
  BY <1>1, <1>3, <1>9, PoppedKeepsPool DEF ReportDropped, CacInv, cacVars
<1>10. CASE DurationTime
  <2>1. e.duration_sec \in Nat
    BY <1>2, <1>10, Payload DEF DurationTime, Delivered
  <2>2. [m_fsm EXCEPT !.wait = e.duration_sec] \in GoodCac
    BY <1>4, <2>1 DEF GoodCac, CacFsm, ActsOnItsRadio
  <2> QED
    BY <1>1, <1>3, <1>10, <2>2, PoppedKeepsPool DEF DurationTime, CacInv
<1> QED
  BY <1>6, <1>7, <1>8, <1>9, <1>10 DEF CacEvent

\* So does work(), and it gives up only when no announced duration is queued.
LEMMA CacWorkKeeps ==
  ASSUME PoolInv, CacInv, CacPeriodic
  PROVE  PoolInv' /\ CacInv'
<1>1. phase = "work" /\ next <= Len(WorkOrder)
  BY DEF CacPeriodic, CacTimeout, CacErrorToIdle, CacStays, Working
<1>2. << >> \in Seq(GoodEvent) /\ << >> \in Seq(Report)
  OBVIOUS
<1>3. m_fsm \in CacFsm
  BY DEF CacInv, GoodCac
<1>4. CASE CacTimeout
  <2>1. m_fsm' \in CacFsm /\ m_fsm'.state = "ERROR"
    BY <1>3, <1>4, ZeroAge, Zenon DEF CacTimeout, CacFsm
  <2> QED
    BY <1>1, <1>2, <1>4, <2>1, ErrorIsGood, WorkedKeepsPool DEF CacTimeout, CacInv
<1>5. CASE CacErrorToIdle
  <2>1. ResetCac(m_fsm.ifname) \in GoodCac
    BY <1>3, ResetCacIsGood DEF CacFsm
  <2> QED
    BY <1>1, <1>2, <1>5, <2>1, WorkedKeepsPool DEF CacErrorToIdle, CacInv
<1>6. CASE CacStays
  BY <1>1, <1>2, <1>6, WorkedKeepsPool DEF CacStays, CacInv, cacVars
<1> QED
  BY <1>4, <1>5, <1>6 DEF CacPeriodic

\* The passing of time only ages a waiting machine.
LEMMA CacTickKeeps ==
  ASSUME CacInv, CacTick, UNCHANGED <<wifi_channel, cancels, crashed>>
  PROVE  CacInv'
<1>1. m_fsm \in CacFsm /\ ActsOnItsRadio(m_fsm)
  BY DEF CacInv, GoodCac
<1>2. CASE m_fsm' = m_fsm
  BY <1>2 DEF CacInv
<1>3. CASE m_fsm.age < MaxAge /\ m_fsm' = [m_fsm EXCEPT !.age = @ + 1]
  <2>1. m_fsm.age + 1 \in 0..MaxAge
    BY <1>1, <1>3, MaxAgeAssumption DEF CacFsm
  <2>2. m_fsm' \in CacFsm
    BY <1>1, <1>3, <2>1, Zenon DEF CacFsm
  <2>3. ActsOnItsRadio(m_fsm')
    BY <1>1, <1>3 DEF ActsOnItsRadio, CacFsm
  <2> QED
    BY <2>2, <2>3 DEF CacInv, GoodCac
<1> QED
  BY <1>2, <1>3 DEF CacTick

-----------------------------------------------------------------------------
(* The composition *)

\* What a driver posts or changes keeps the invariant.
LEMMA DriverKeeps ==
  ASSUME IInv, NEW i \in Ifaces,
         DriverAnswers(i) \/ \E c \in Channels : DriverUnsolicited(i, c)
  PROVE  IInv'
<1>1. /\ << SwitchChannelNotification(i) >> \in Seq(GoodEvent)
      /\ << CacCompletedNotification(i) >> \in Seq(GoodEvent)
      /\ \A d \in Durations : << CacStartedNotification(i, d) >> \in Seq(GoodEvent)
  BY PostedEvents
<1>2. CASE DriverCsa(i)
  <2>1. wifi_channel' \in [Ifaces -> Channels]
    BY <1>2 DEF DriverCsa, IInv, CacInv, SwitchInv, Driver, DriverIdle
  <2> QED
    BY <1>1, <1>2, <2>1, SendKeepsPool
       DEF DriverCsa, IInv, CacInv, SwitchInv, EnvInv, envVars, Driver
<1>3. ASSUME NEW d \in Durations, DriverCacStarted(i, d)
      PROVE  IInv'
  <2>1. [driver[i] EXCEPT !.mode = "cac"] \in Driver
    BY <1>3 DEF DriverCacStarted, IInv, SwitchInv, Driver, DriverIdle
  <2>2. PoolInv'
    BY <1>1, <1>3, SendKeepsPool DEF DriverCacStarted, IInv
  <2> QED
    BY <1>3, <2>1, <2>2
       DEF DriverCacStarted, IInv, CacInv, SwitchInv, EnvInv, envVars, cacVars
<1>4. CASE DriverCacCompleted(i)
  <2>1. wifi_channel' \in [Ifaces -> Channels]
    BY <1>4 DEF DriverCacCompleted, IInv, CacInv, SwitchInv, Driver, DriverIdle
  <2> QED
    BY <1>1, <1>4, <2>1, SendKeepsPool
       DEF DriverCacCompleted, IInv, CacInv, SwitchInv, EnvInv, envVars, Driver
<1>5. ASSUME NEW c \in Channels, DriverUnsolicited(i, c)
      PROVE  IInv'
  <2>1. PoolInv'
    BY <1>1, <1>5, SendKeepsPool DEF DriverUnsolicited, IInv
  <2>2. driver' \in [Ifaces -> Driver] /\ wifi_channel' \in [Ifaces -> Channels]
    BY <1>5 DEF DriverUnsolicited, IInv, SwitchInv, CacInv, Driver
  <2>3. unsolicited' \in 0..MaxUnsolicited
    BY <1>5, BoundsAssumption DEF DriverUnsolicited, IInv, EnvInv
  <2> QED
    BY <1>5, <2>1, <2>2, <2>3 DEF DriverUnsolicited, IInv, SwitchInv, CacInv, EnvInv
<1> QED
  BY <1>2, <1>3, <1>4, <1>5 DEF DriverAnswers

\* The invariant is inductive.
LEMMA Inductive ==
  ASSUME IInv, [Next]_vars
  PROVE  IInv'
<1>1. CASE UNCHANGED vars
  BY <1>1 DEF vars, poolVars, cacVars, envVars, IInv, PoolInv, SwitchInv, CacInv, EnvInv
<1>2. ASSUME NEW i \in Ifaces, SwitchChannelEvent(i), UNCHANGED <<cacVars, envVars>>
      PROVE  IInv'
  BY <1>2, SwitchEventKeeps DEF IInv, CacInv, EnvInv, cacVars, envVars
<1>3. CASE CacEvent /\ UNCHANGED <<m_fsms, driver, envVars>>
  BY <1>3, CacEventKeeps DEF IInv, SwitchInv, EnvInv, envVars
<1>4. ASSUME NEW i \in Ifaces, SwitchChannelWork(i)
      PROVE  IInv'
  BY <1>4, SwitchWorkKeeps DEF SwitchChannelWork, IInv, CacInv, EnvInv, cacVars, envVars
<1>5. CASE CacWork
  BY <1>5, CacWorkKeeps DEF CacWork, IInv, SwitchInv, EnvInv, envVars
<1>6. CASE RunsTasks
  BY <1>6, ControlKeepsPool DEF RunsTasks, IInv, SwitchInv, CacInv, EnvInv, cacVars, envVars
<1>7. CASE Tick
  <2>1. PoolInv'
    BY <1>7 DEF Tick, IInv, PoolInv, poolVars
  <2> QED
    BY <1>7, <2>1, SwitchTickKeeps, CacTickKeeps DEF Tick, IInv, EnvInv, envVars
<1>8. CASE CacRequestMessage
  <2>1. PoolInv' /\ CacInv'
    BY <1>8, CacRequestKeeps DEF CacRequestMessage, IInv
  <2>2. cmdus' \in 0..MaxCmdus
    BY <1>8, BoundsAssumption DEF CacRequestMessage, IInv, EnvInv
  <2> QED
    BY <1>8, <2>1, <2>2 DEF CacRequestMessage, IInv, SwitchInv, EnvInv
<1>9. CASE CacTerminationMessage
  <2>1. PoolInv' /\ CacInv'
    BY <1>9, CacTerminationKeeps DEF CacTerminationMessage, IInv
  <2>2. cmdus' \in 0..MaxCmdus
    BY <1>9, BoundsAssumption DEF CacTerminationMessage, IInv, EnvInv
  <2> QED
    BY <1>9, <2>1, <2>2 DEF CacTerminationMessage, IInv, SwitchInv, EnvInv
<1>10. CASE DriverCancelResponse
  BY <1>10, CacTerminationResponseKeeps DEF DriverCancelResponse, IInv, SwitchInv, EnvInv, envVars
<1>11. ASSUME NEW i \in Ifaces, DriverAnswers(i)
       PROVE  IInv'
  BY <1>11, DriverKeeps
<1>12. ASSUME NEW i \in Ifaces, NEW c \in Channels, DriverUnsolicited(i, c)
       PROVE  IInv'
  BY <1>12, DriverKeeps
<1> QED
  BY <1>1, <1>2, <1>3, <1>4, <1>5, <1>6, <1>7, <1>8, <1>9, <1>10, <1>11, <1>12
     DEF Next, Agent, TaskEvent, Environment

\* Every behaviour of the two tasks satisfies the inductive invariant.
THEOREM Invariance == Spec => []IInv
<1>1. Init => IInv
  <2> SUFFICES ASSUME Init PROVE IInv
    OBVIOUS
  <2>1. PoolInv
    BY WorkOrderAssumption DEF Init, PoolInit, PoolInv, Phases
  <2>2. SwitchInv
    BY ResetIsGood DEF Init, SwitchChannelInit, SwitchInv, Driver
  <2>3. CacInv
    BY ResetCacIsGood DEF Init, CacInit, CacInv
  <2>4. EnvInv
    BY BoundsAssumption DEF Init, EnvInv
  <2> QED
    BY <2>1, <2>2, <2>3, <2>4 DEF IInv
<1>2. IInv /\ [Next]_vars => IInv'
  BY Inductive
<1> QED
  BY <1>1, <1>2, PTL DEF Spec

\* The type invariant of the pool, of both tasks and of their environment.
THEOREM TypeCorrect == Spec => []TypeOK
<1>1. IInv => TypeOK
  <2> SUFFICES ASSUME IInv PROVE TypeOK
    OBVIOUS
  <2>1. GoodEvent \subseteq Event /\ GoodFsm \subseteq SwitchChannelFsm /\ GoodCac \subseteq CacFsm
    BY DEF GoodEvent, GoodFsm, GoodCac
  <2>2. m_event_queue \in Seq(Event)
    BY <2>1 DEF IInv, PoolInv
  <2>3. m_fsms \in [Ifaces -> SwitchChannelFsm]
    BY <2>1 DEF IInv, SwitchInv
  <2>4. m_fsm \in CacFsm
    BY <2>1 DEF IInv, CacInv
  <2> QED
    BY <2>2, <2>3, <2>4 DEF IInv, PoolInv, SwitchInv, CacInv, EnvInv, TypeOK
<1> QED
  BY <1>1, Invariance, PTL

\* No switch-channel machine carries the data of an earlier switch (the resets of
\* switch_channel_task.cpp), for any number of radios and any driver.
THEOREM NoDataOfAnEarlierSwitchHolds == Spec => []NoDataOfAnEarlierSwitch
<1>1. IInv => NoDataOfAnEarlierSwitch
  BY DEF IInv, SwitchInv, GoodFsm, NoDataOfAnEarlierSwitch
<1> QED
  BY <1>1, Invariance, PTL

\* Every switch-channel report in the event queue is consistent.
THEOREM ReportsAreConsistentHolds == Spec => []ReportsAreConsistent
<1>1. IInv => ReportsAreConsistent
  BY DEF IInv, PoolInv, GoodEvent, ReportsAreConsistent, Queued
<1> QED
  BY <1>1, Invariance, PTL

\* The coordinated-CAC machine acts on the radio of its request, although m_ifname
\* survives reset() and is overwritten by reports.
THEOREM CacActsOnItsRadioHolds == Spec => []CacActsOnItsRadio
<1>1. IInv => CacActsOnItsRadio
  BY DEF IInv, CacInv, GoodCac, CacActsOnItsRadio
<1> QED
  BY <1>1, Invariance, PTL

\* The coordinated-CAC machine gives up only when every announced duration has
\* been delivered: run_tasks() empties the queue before work().
THEOREM TimeoutKnowsDurationHolds == Spec => TimeoutKnowsDuration
<1>1. IInv /\ CacTimeout => Queued("SWITCH_CHANNEL_DURATION_TIME") = {}
  <2> SUFFICES ASSUME IInv, CacTimeout
               PROVE  Queued("SWITCH_CHANNEL_DURATION_TIME") = {}
    OBVIOUS
  <2>1. m_event_queue \in Seq(Report)
    BY DEF IInv, PoolInv, CacTimeout, Working
  <2> QED
    <3>1. \A n \in 1..Len(m_event_queue) : m_event_queue[n] \in Report
      BY <2>1
    <3>2. \A r \in Report : r.type # "SWITCH_CHANNEL_DURATION_TIME"
      BY DEF Report
    <3> QED
      BY <3>1, <3>2, Zenon DEF Queued
<1>2. IInv /\ [Next]_vars => [CacTimeout => Queued("SWITCH_CHANNEL_DURATION_TIME") = {}]_vars
  BY <1>1
<1> QED
  BY <1>2, Invariance, PTL DEF Spec, TimeoutKnowsDuration

=============================================================================
