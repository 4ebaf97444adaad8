----------------------------- MODULE ChannelScan -----------------------------
(***************************************************************************)
(* The channel-scan task and the monitor of one radio, with a controller    *)
(* that asks for scans and a clock.                                         *)
(***************************************************************************)
EXTENDS ChannelScanTask, ScanMonitor, Functions

VARIABLE hasty   \* the scans that began before an earlier one was known to have begun

vars == <<messageVars, taskVars, monitorVars, hasty>>

Init == MessagesInit /\ TaskInit /\ MonitorInit /\ hasty = {}

-----------------------------------------------------------------------------
(* The clock.  The intervals (2 s, 20 s, 210 s, 300 s) are long against the  *)
(* delay of a local message and against the 90 ms between two passes of      *)
(* work(): they end only when no message is on its way and the next pass has *)
(* nothing to do but to wait.  The aborts of an expired request never stop,  *)
(* and do not stop the clock.                                                *)

Quiet ==
  /\ events = << >>
  /\ \/ toMonitor \o toTask = << >>
     \/ /\ running /\ scan # NoRequest /\ scan.expired
        /\ \A m \in Range(toMonitor) \cup Range(toTask) : m.op \in {"ABORT", "ABORT_RESPONSE"}
  /\ IF running THEN /\ scan # NoRequest
                     /\ scan.state \in Ended => m_on_boot_scan_enabled
                     /\ ~scan.late
     ELSE pending = NoRequest

\* MINIMUM_SCAN_INTERVAL_SEC has passed since the last request.
ElapseInterval ==
  /\ last_scan = "recent"
  /\ last_scan' = "old"
  /\ UNCHANGED scan

\* The intervals of the running scan are longer than that of its request.
Waiting == running /\ scan # NoRequest /\ (last_scan # "recent" \/ pending # NoRequest)

\* The timeout of the state of the running scan has passed.
ElapseState ==
  /\ Waiting
  /\ scan.state \in WaitStates
  /\ scan' = [scan EXCEPT !.late = TRUE]
  /\ UNCHANGED last_scan

\* SCAN_REQUEST_TIMEOUT_SEC has passed since the request of the running scan.
ElapseRequest ==
  /\ Waiting
  /\ ~scan.expired
  /\ scan' = [scan EXCEPT !.expired = TRUE]
  /\ UNCHANGED last_scan

Clock ==
  /\ ~crashed
  /\ Quiet
  /\ ElapseInterval \/ ElapseState \/ ElapseRequest
  /\ UNCHANGED <<m_on_boot_scan_enabled, running, pending, issued, fate,
                 crashed, channel_scan_results, messageVars, monitorVars, hasty>>

-----------------------------------------------------------------------------

\* A request or a pass of work() finds few messages unread.
Room == Len(toMonitor) + Len(toTask) < MaxInFlight

ControllerStep ==
  /\ ~crashed
  /\ Room
  /\ \/ \E cs \in (SUBSET AllChannels) \ {{}}, sent \in BOOLEAN :
          HandleFreshRequest("some", cs, sent)
     \/ \E sent \in BOOLEAN : HandleFreshRequest("zero", Supported, sent)
     \/ HandleOnBootScan
     \/ HandleOnBootFetch
     \/ HandleBackhaulEnable
  /\ UNCHANGED <<monitorVars, hasty>>

\* Some scan has begun, and not all of the messages at its beginning have been read.
BeginningUnread ==
  \E m \in Range(toMonitor) \cup Range(toTask) \cup Range(events) :
    m.op \in {"TRIGGER", "DUMP", "TRIGGER_RESPONSE", "DUMP_RESPONSE", "TRIGGERED"}

WorkStep ==
  /\ ~crashed
  /\ Room
  /\ Work
  /\ hasty' = IF pending' # pending /\ BeginningUnread THEN hasty \cup {pending.id} ELSE hasty
  /\ UNCHANGED monitorVars

AnswerStep == ~crashed /\ HandleAnswer /\ UNCHANGED <<monitorVars, hasty>>

CommandStep == ~crashed /\ HandleCommand /\ UNCHANGED <<taskVars, hasty>>

EventStep == ~crashed /\ ProcessIntEvents /\ UNCHANGED <<taskVars, hasty>>

DriverReports == ~crashed /\ DriverStep /\ UNCHANGED <<taskVars, hasty>>

Next ==
  \/ ControllerStep
  \/ WorkStep
  \/ AnswerStep
  \/ CommandStep
  \/ EventStep
  \/ DriverReports
  \/ Clock

\* The loops of the two processes go on, and time passes.  The controller and
\* the driver owe nothing.
Spec ==
  /\ Init /\ [][Next]_vars
  /\ WF_vars(WorkStep) /\ WF_vars(AnswerStep) /\ WF_vars(CommandStep) /\ WF_vars(EventStep)
  /\ SF_vars(Clock)

-----------------------------------------------------------------------------

TypeOK ==
  /\ toMonitor \in Seq(Commands)
  /\ toTask \in Seq(Answers)
  /\ channel_scan_in_progress \in BOOLEAN
  /\ m_on_boot_scan_enabled \in BOOLEAN
  /\ running \in BOOLEAN
  /\ scan \in Requests \cup {NoRequest}
  /\ pending \in Requests \cup {NoRequest}
  /\ last_scan \in {"never", "recent", "old"}
  /\ \A c \in DOMAIN channel_scan_results :
       c \in AllChannels /\ channel_scan_results[c] \in Stored
  /\ issued \in 0..MaxRequests
  /\ fate \in [Ids -> Fates]
  /\ crashed \in BOOLEAN
  /\ m_scan_active \in Ids \cup {NoScan}
  /\ m_scan_results \in Ids \cup {NoScan}
  /\ m_spectrum_results \in Ids \cup {NoScan}
  /\ events \in Seq(Answers)
  /\ slack \in 0..2
  /\ finished \subseteq Ids
  /\ unread \subseteq Ids
  /\ refused \in BOOLEAN
  /\ hasty \subseteq Ids

\* work() sends the report on a fresh scan, and what it sends.
ReportsOn(id) == fate[id] # "reported" /\ fate'[id] = "reported" /\ scan.dwell = "some"
SentReport == ReportOf(Reported(scan), channel_scan_results')

\* The report that work() sends on a fresh scan says SUCCESS only when the monitor
\* has finished that very scan, and holds no results of another one, although no
\* message between the task and the monitor says which scan it belongs to, and
\* scans that timed out, were ignored or could not be aborted go on in the driver.
\* The exceptions are the spectrum of the scan before, which the wireless layer dumps
\* again when it cannot read the results of this one, and a scan that began before the
\* task had read how an earlier one began: the answers to that one are taken for its own.
ReportsAreOwn ==
  [][\A id \in Ids \ hasty : ReportsOn(id) =>
       \A c \in DOMAIN SentReport :
         /\ SentReport[c].status = "SUCCESS" => id \in finished
         /\ \A r \in SentReport[c].from :
              r.scan = id \/ (r.op = "SPECTRUM" /\ id \in unread)]_vars

\* A request is answered at most once: what work() and the handlers of requests
\* made of it is never changed again, late answers and aborts of its scan notwithstanding.
AnsweredOnce ==
  [][\A id \in Ids : fate[id] \notin {"none", "open"} => fate'[id] = fate[id]]_vars

\* A running scan ends, whatever messages the monitor does not send: the timeouts
\* of work() see to that, except in PENDING_TRIGGER, where the slave leaves it
\* when it refuses a scan.  On-boot scans that fail are never ended.
ScanEnds ==
  running /\ ~m_on_boot_scan_enabled ~> ~running \/ refused \/ crashed

\* A request in m_pending_requests is taken up: the scan before it does not hold
\* it up for ever, unless a scan was refused.
RequestsAreServed ==
  pending # NoRequest /\ ~m_on_boot_scan_enabled ~> pending = NoRequest \/ refused \/ crashed

=============================================================================
