----------------------------- MODULE ScanMonitor -----------------------------
(***************************************************************************)
(* The monitor of a radio and its pWHM wireless layer                       *)
(* (mon_wlan_hal_whm.cpp): commands are served at once, what the driver     *)
(* reports goes through the event queue of the layer.  The relaying and the *)
(* refusal of the son_slave thread are part of the handling of a command.   *)
(***************************************************************************)
EXTENDS ScanMessages

CONSTANTS ZwdfsRadio,        \* a 5 GHz radio during a zero-wait-DFS CAC
          OtherScans         \* other programs scan with this radio

ASSUME MonitorAssumption == ZwdfsRadio \in BOOLEAN /\ OtherScans \in BOOLEAN

VARIABLES m_scan_active,       \* the scan that is active, NoScan if none
          m_scan_results,      \* the scan whose neighbours are kept, NoScan if none
          m_spectrum_results,  \* the scan whose spectrum is kept, NoScan if none
          events,              \* m_queue_events, the event queue of the wireless layer
          slack,               \* the commands that may be handled before the queue is read
          finished,            \* the scans that were finished
          unread,              \* those whose results could not be read, with older ones kept
          refused              \* a scan was refused

monitorVars == <<m_scan_active, m_scan_results, m_spectrum_results, events, slack, finished,
                 unread, refused>>

MonitorInit ==
  /\ m_scan_active = NoScan
  /\ m_scan_results = NoScan
  /\ m_spectrum_results = NoScan
  /\ events = << >>
  /\ slack = 0
  /\ finished = {}
  /\ unread = {}
  /\ refused = FALSE

-----------------------------------------------------------------------------
(* The commands *)

\* The event loop reads the event queue one round after it was filled, and a
\* command may come first in that round.
Command(op, new) ==
  /\ toMonitor # << >>
  /\ Head(toMonitor).op = op
  /\ toMonitor' = Tail(toMonitor)
  /\ events = << >> \/ slack > 0
  /\ events' = events \o new
  /\ slack' = IF events # << >> THEN slack - 1 ELSE IF new # << >> THEN 1 ELSE 0

\* "Refuse DCS scan": the slave tells the controller, and not the task.
RefuseTrigger ==
  /\ ZwdfsRadio
  /\ Command("TRIGGER", << >>)
  /\ refused' = TRUE
  /\ UNCHANGED <<toTask, channel_scan_in_progress, m_scan_active, m_scan_results,
                 m_spectrum_results, finished, unread>>

\* An active scan is stopped without an event for it.
HandleTrigger(ok) ==
  LET s == Head(toMonitor).scan IN
  /\ Command("TRIGGER", IF ok THEN << Notification("TRIGGERED", s) >> ELSE << >>)
  /\ channel_scan_in_progress' = TRUE
  /\ m_scan_active' = IF ok THEN s ELSE NoScan
  /\ toTask' = Append(toTask, Answer("TRIGGER_RESPONSE", ok, s))
  /\ UNCHANGED <<m_scan_results, m_spectrum_results, finished, unread, refused>>

\* channel_scan_dump_cached_results(): one message stands for those of a kind.
Dump(neighbours, spectrum) ==
  (IF neighbours = NoScan THEN << >> ELSE << Notification("NEIGHBOURS", neighbours) >>)
    \o (IF spectrum = NoScan THEN << >> ELSE << Notification("SPECTRUM", spectrum) >>)

\* The answer is followed by a notification that the results are ready; the
\* layer queues the results it keeps, and no FINISHED event.
HandleDump ==
  LET s == Head(toMonitor).scan IN
  /\ Command("DUMP", Dump(m_scan_results, m_spectrum_results))
  /\ toTask' = toTask \o << Answer("DUMP_RESPONSE", TRUE, s), Notification("RESULTS_READY", s) >>
  /\ UNCHANGED <<channel_scan_in_progress, m_scan_active, m_scan_results, m_spectrum_results,
                 finished, unread, refused>>

\* Without an active scan the answer is success, and there is no event.
HandleAbort(ok) ==
  LET s == Head(toMonitor).scan IN
  /\ Command("ABORT", IF ok /\ m_scan_active # NoScan
                      THEN << Notification("ABORTED", m_scan_active) >> ELSE << >>)
  /\ m_scan_active' = IF ok THEN NoScan ELSE m_scan_active
  /\ toTask' = Append(toTask, Answer("ABORT_RESPONSE", ok \/ m_scan_active = NoScan, s))
  /\ UNCHANGED <<channel_scan_in_progress, m_scan_results, m_spectrum_results, finished,
                 unread, refused>>

-----------------------------------------------------------------------------
(* What the driver reports *)

\* process_int_events() and hal_event_handler(): all events, one message each.
ProcessIntEvents ==
  /\ events # << >>
  /\ toTask' = toTask \o events
  /\ events' = << >>
  /\ slack' = 0
  /\ UNCHANGED <<toMonitor, channel_scan_in_progress, m_scan_active, m_scan_results,
                 m_spectrum_results, finished, unread, refused>>

\* An event of the driver may be followed by a command in its own round too.
DriverEvents(new) ==
  /\ events' = events \o new
  /\ slack' = IF events = << >> THEN 2 ELSE slack

\* ScanComplete "done".  The results are read from the driver: nothing (the call
\* fails, and only the neighbours were cleared before it), no neighbours, in
\* which case the spectrum is not read, or all.
ScanDone(read) ==
  LET s == m_scan_active IN
  /\ s # NoScan
  /\ m_scan_active' = NoScan
  /\ m_scan_results' = IF read = "all" THEN s ELSE NoScan
  /\ m_spectrum_results' = CASE read = "all" -> s
                             [] read = "none" -> NoScan
                             [] read = "failed" -> m_spectrum_results
  /\ DriverEvents(<< Notification("RESULTS_READY", s) >>
                    \o Dump(m_scan_results', m_spectrum_results')
                    \o << Notification("FINISHED", s) >>)
  /\ finished' = finished \cup {s}
  /\ unread' = IF read = "failed" /\ m_spectrum_results # NoScan THEN unread \cup {s} ELSE unread
  /\ UNCHANGED <<toMonitor, toTask, channel_scan_in_progress, refused>>

\* ScanComplete "error" of the active scan, or of one that was stopped or is
\* another program's (the model waits until the last messages are read).
ScanError ==
  /\ m_scan_active # NoScan \/ (OtherScans /\ events \o toTask = << >>)
  /\ m_scan_active' = NoScan
  /\ DriverEvents(<< Notification("ABORTED", m_scan_active) >>)
  /\ UNCHANGED <<toMonitor, toTask, channel_scan_in_progress, m_scan_results, m_spectrum_results,
                 finished, unread, refused>>

HandleCommand ==
  \/ RefuseTrigger
  \/ \E ok \in BOOLEAN : HandleTrigger(ok) \/ HandleAbort(ok)
  \/ HandleDump

DriverStep ==
  \/ \E read \in {"all", "none", "failed"} : ScanDone(read)
  \/ ScanError

=============================================================================
