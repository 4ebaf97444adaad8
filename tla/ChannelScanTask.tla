--------------------------- MODULE ChannelScanTask ---------------------------
(***************************************************************************)
(* ChannelScanTask (agent/.../tasks/channel_scan_task.cpp) for one radio:   *)
(* the task keeps its state per interface, and nothing else links the       *)
(* radios.  A request of the controller waits in m_pending_requests until   *)
(* no scan runs; the running scan is driven by the answers of the monitor   *)
(* and by the clock, and ends with a report.  The clock is reduced to the   *)
(* comparisons the code makes with it.                                      *)
(***************************************************************************)
EXTENDS ScanMessages

CONSTANTS Supported,    \* the channels of the radio
          Unsupported,  \* channels a request may name and the radio does not have
          NoRequest     \* nullptr

ASSUME ChannelsAssumption == Supported # {} /\ Supported \cap Unsupported = {}

VARIABLES m_on_boot_scan_enabled,
          running,               \* m_current_scan_info: is_scan_currently_running
          scan,                  \* m_current_scan_info: scan_request and radio_scan
          pending,               \* m_pending_requests
          last_scan,             \* m_prev_scan_timestamps: "never", "recent" or "old"
          channel_scan_results,  \* AgentDB: the stored results of the channels
          issued,                \* the requests so far; they are numbered in order
          fate,                  \* what became of each request
          crashed                \* a null shared_ptr has been dereferenced

taskVars == <<m_on_boot_scan_enabled, running, scan, pending, last_scan, channel_scan_results,
              issued, fate, crashed>>

AllChannels == Supported \cup Unsupported

WaitStates == {"WAIT_FOR_SCAN_TRIGGERED", "WAIT_FOR_RESULTS_READY", "WAIT_FOR_RESULTS_DUMP"}
Ended == {"SCAN_DONE", "SCAN_FAILED", "SCAN_ABORTED", "SCAN_IGNORED"}
eState == {"PENDING_TRIGGER"} \cup WaitStates \cup Ended

eScanStatus == {"SUCCESS", "NOT_SUPPORTED", "TOO_SOON", "NOT_COMPLETED", "ABORTED"}

\* What may be dumped.
Results == [op : Dumps, scan : Ids]

\* sScanRequest and its sRadioScan.  "status" has an entry for each requested
\* channel, "cached" holds the results that were dumped, "late" and
\* "expired" say that the timeout of the state and of the request have passed.
Requests ==
  UNION {[id : Ids, dwell : {"zero", "some"}, status : [cs -> eScanStatus], state : eState,
          cached : SUBSET Results, late : BOOLEAN, expired : BOOLEAN] : cs \in SUBSET AllChannels}

ASSUME NoRequestAssumption == NoRequest \notin Requests

\* A channel the radio does not have has its status from the beginning.
NewRequest(id, dwell, cs) ==
  [id |-> id, dwell |-> dwell,
   status |-> [c \in cs |-> IF c \in Supported THEN "SUCCESS" ELSE "NOT_SUPPORTED"],
   state |-> "PENDING_TRIGGER", cached |-> {}, late |-> FALSE, expired |-> FALSE]

\* The entry of a channel in the database: the request it was stored for and
\* the results.  A channel without an entry is not in the domain.
Stored == [at : Ids \cup {NoScan}, from : SUBSET Results]
BlankResults == [at |-> NoScan, from |-> {}]

\* "open" until the request is reported, is overwritten while it waits
\* ("replaced"), is given up for a socket error ("dropped") or is followed by
\* another scan without a report ("silent").
Fates == {"none", "open", "replaced", "dropped", "silent", "reported"}

TaskInit ==
  /\ m_on_boot_scan_enabled \in BOOLEAN
  /\ running = FALSE
  /\ scan = NoRequest
  /\ pending = NoRequest
  /\ last_scan = "never"
  /\ channel_scan_results = << >>
  /\ issued = 0
  /\ fate = [id \in Ids |-> "none"]
  /\ crashed = FALSE

\* Mutant: the state is stored for the status.
WithStateForStatus(r, status) == [r EXCEPT !.status = [c \in DOMAIN r.status |-> r.state]]

\* set_radio_scan_status(): every channel, those that are not supported included.
WithStatus(r, status) == [r EXCEPT !.status = [c \in DOMAIN r.status |-> status]]

\* FSM_MOVE_STATE and FSM_MOVE_TIMEOUT_STATE
MoveState(r, state) == [r EXCEPT !.state = state, !.late = FALSE]

Failed(r) == MoveState(WithStatus(r, "NOT_COMPLETED"), "SCAN_FAILED")

\* A running scan without a request: the code reads the members of nullptr.
Dereferences == running /\ scan = NoRequest

-----------------------------------------------------------------------------
(* Reports: get_scan_results_for_request() and what is sent of its result.   *)
(* The controller reads them; nothing in the agent does.                     *)

\* A report on a fresh scan leaves out the results of another one.
Included(r, results) ==
  {c \in DOMAIN r.status :
     r.status[c] = "SUCCESS" /\ c \in DOMAIN results => results[c].at = r.id}

\* The status of each channel and the results sent with it.
ReportOf(r, results) ==
  [c \in Included(r, results) |->
     [status |-> r.status[c],
      from |-> IF r.status[c] = "SUCCESS" /\ c \in DOMAIN results THEN results[c].from
               ELSE {}]]

-----------------------------------------------------------------------------
(* Requests *)

\* The request that waits, if any, is overwritten.
Enqueue(r) ==
  /\ pending' = r
  /\ issued' = r.id
  /\ fate' = [id \in Ids |-> IF id = r.id THEN "open"
                             ELSE IF pending # NoRequest /\ id = pending.id THEN "replaced"
                             ELSE fate[id]]

AbortCommand == [op |-> "ABORT", scan |-> scan.id]

\* handle_channel_scan_request() for a fresh scan of the channels cs.  When the
\* last request is older than the minimum interval, a scan that runs is aborted
\* first; if that fails, the request is acknowledged and forgotten.
HandleFreshRequest(dwell, cs, sent) ==
  LET new == NewRequest(issued + 1, dwell, cs)
      aborts == running /\ last_scan = "old"
  IN
  /\ ~m_on_boot_scan_enabled
  /\ issued < MaxRequests
  /\ IF aborts /\ (scan = NoRequest \/ ~sent)
     THEN /\ crashed' = (scan = NoRequest)
          /\ issued' = new.id
          /\ fate' = [fate EXCEPT ![new.id] = "dropped"]
          /\ UNCHANGED <<pending, last_scan, toMonitor>>
     ELSE /\ toMonitor' = IF aborts THEN Append(toMonitor, AbortCommand) ELSE toMonitor
          /\ Enqueue(IF last_scan = "recent" THEN MoveState(new, "SCAN_IGNORED") ELSE new)
          /\ last_scan' = "recent"
          /\ UNCHANGED crashed
  /\ UNCHANGED <<m_on_boot_scan_enabled, running, scan, channel_scan_results, toTask,
                 channel_scan_in_progress>>

\* handle_on_boot_scan_request() for the slave: a scan of all channels.
HandleOnBootScan ==
  /\ m_on_boot_scan_enabled
  /\ issued < MaxRequests
  /\ Enqueue(NewRequest(issued + 1, "some", Supported))
  /\ UNCHANGED <<m_on_boot_scan_enabled, running, scan, last_scan, crashed, channel_scan_results,
                 messageVars>>

\* handle_on_boot_scan_request() for the controller: a report on what is stored.
\* The current request is removed, running or not.
HandleOnBootFetch ==
  /\ m_on_boot_scan_enabled
  /\ scan' = NoRequest
  /\ UNCHANGED <<m_on_boot_scan_enabled, running, pending, fate, crashed, last_scan, issued,
                 channel_scan_results, messageVars>>

\* handle_backhaul_enable_event()
HandleBackhaulEnable ==
  /\ channel_scan_results' =
       [c \in DOMAIN channel_scan_results \cup Supported |->
          IF c \in Supported THEN BlankResults ELSE channel_scan_results[c]]
  /\ UNCHANGED <<m_on_boot_scan_enabled, running, scan, pending, fate, crashed, last_scan,
                 issued, messageVars>>

-----------------------------------------------------------------------------
(* Answers and notifications of the monitor: handle_vendor_specific() *)

\* The messages are matched by the state of the running scan alone.
InState(state) == running /\ scan # NoRequest /\ scan.state = state

\* The next message, and what no handler changes.
Received(op) ==
  /\ toTask # << >>
  /\ Head(toTask).op = op
  /\ toTask' = Tail(toTask)
  /\ UNCHANGED <<m_on_boot_scan_enabled, pending, fate, last_scan, issued, channel_scan_results,
                 toMonitor>>

\* Mutant: a scan that could not be triggered goes on waiting.
HandleTriggerResponseFailureLost ==
  /\ Received("TRIGGER_RESPONSE")
  /\ scan' = IF InState("PENDING_TRIGGER") /\ Head(toTask).success
             THEN MoveState(scan, "WAIT_FOR_SCAN_TRIGGERED") ELSE scan
  /\ crashed' = Dereferences
  /\ UNCHANGED <<running, channel_scan_in_progress>>

HandleTriggerResponse ==
  LET ok == Head(toTask).success IN
  /\ Received("TRIGGER_RESPONSE")
  /\ IF InState("PENDING_TRIGGER")
     THEN /\ running' = ok
          /\ scan' = IF ok THEN MoveState(scan, "WAIT_FOR_SCAN_TRIGGERED") ELSE Failed(scan)
     ELSE UNCHANGED <<running, scan>>
  /\ crashed' = Dereferences
  /\ UNCHANGED channel_scan_in_progress

\* The layer always answers with success.
HandleDumpResponse ==
  /\ Received("DUMP_RESPONSE")
  /\ scan' = IF ~InState("PENDING_TRIGGER") THEN scan
             ELSE IF Head(toTask).success THEN MoveState(scan, "WAIT_FOR_RESULTS_READY")
             ELSE Failed(scan)
  /\ crashed' = Dereferences
  /\ UNCHANGED <<running, channel_scan_in_progress>>

HandleTriggered ==
  /\ Received("TRIGGERED")
  /\ scan' = IF InState("WAIT_FOR_SCAN_TRIGGERED")
             THEN MoveState(scan, "WAIT_FOR_RESULTS_READY") ELSE scan
  /\ crashed' = Dereferences
  /\ UNCHANGED <<running, channel_scan_in_progress>>

HandleResultsReady ==
  /\ Received("RESULTS_READY")
  /\ scan' = IF InState("WAIT_FOR_RESULTS_READY")
             THEN WithStatus(MoveState(scan, "WAIT_FOR_RESULTS_DUMP"), "SUCCESS") ELSE scan
  /\ crashed' = Dereferences
  /\ UNCHANGED <<running, channel_scan_in_progress>>

\* store_radio_scan_result(): a result that is there already is kept once.
StoreRadioScanResult(r, result) ==
  [WithStatus(MoveState(r, "WAIT_FOR_RESULTS_DUMP"), "SUCCESS") EXCEPT !.cached = @ \cup {result}]

\* Mutant: a result is stored in whatever state the scan is.
HandleResultInAnyState ==
  /\ \E op \in Dumps : Received(op)
  /\ scan' = IF running /\ scan # NoRequest
             THEN [scan EXCEPT !.cached = @ \cup {Head(toTask)}] ELSE scan
  /\ crashed' = Dereferences
  /\ UNCHANGED <<running, channel_scan_in_progress>>

HandleResult ==
  /\ \E op \in Dumps : Received(op)
  /\ scan' = IF InState("WAIT_FOR_RESULTS_DUMP")
             THEN StoreRadioScanResult(scan, Head(toTask)) ELSE scan
  /\ crashed' = Dereferences
  /\ UNCHANGED <<running, channel_scan_in_progress>>

HandleFinished ==
  /\ Received("FINISHED")
  /\ channel_scan_in_progress' = FALSE
  /\ scan' = IF InState("WAIT_FOR_RESULTS_DUMP") THEN MoveState(scan, "SCAN_DONE") ELSE scan
  /\ crashed' = Dereferences
  /\ UNCHANGED running

\* Whatever the state of the scan; nothing more is done for the request.
HandleAborted ==
  /\ Received("ABORTED")
  /\ channel_scan_in_progress' = FALSE
  /\ running' = Dereferences
  /\ scan' = IF running /\ scan # NoRequest
             THEN MoveState(WithStatus(scan, "ABORTED"), "SCAN_ABORTED") ELSE scan
  /\ crashed' = Dereferences

\* The answer says whether the abort succeeded, and is taken for whether a scan
\* is running.
HandleAbortResponse ==
  /\ Received("ABORT_RESPONSE")
  /\ running' = Head(toTask).success
  /\ UNCHANGED <<scan, crashed, channel_scan_in_progress>>

HandleAnswer ==
  \/ HandleTriggerResponse
  \/ HandleDumpResponse
  \/ HandleTriggered
  \/ HandleResultsReady
  \/ HandleResult
  \/ HandleFinished
  \/ HandleAborted
  \/ HandleAbortResponse

-----------------------------------------------------------------------------
(* work() *)

\* A request that has expired is aborted in every pass, whatever its state.
AbortExpired(sent) ==
  toMonitor' = IF scan.expired /\ sent THEN Append(toMonitor, AbortCommand) ELSE toMonitor

\* Mutant: the wait for the results has no timeout.
WorkOnScanPatiently(sent) ==
  /\ running
  /\ scan # NoRequest
  /\ scan.state \notin Ended
  /\ AbortExpired(sent)
  /\ scan' = IF scan.state = "WAIT_FOR_SCAN_TRIGGERED" /\ scan.late THEN Failed(scan) ELSE scan
  /\ UNCHANGED <<m_on_boot_scan_enabled, running, pending, fate, crashed, last_scan, issued,
                 channel_scan_results, toTask, channel_scan_in_progress>>

\* Only the three waits have a timeout.
WorkOnScan(sent) ==
  /\ running
  /\ scan # NoRequest
  /\ scan.state \notin Ended
  /\ AbortExpired(sent)
  /\ scan' = IF scan.state \in WaitStates /\ scan.late THEN Failed(scan) ELSE scan
  /\ UNCHANGED <<m_on_boot_scan_enabled, running, pending, fate, crashed, last_scan, issued,
                 channel_scan_results, toTask, channel_scan_in_progress>>

\* "sync cached results to DB": every requested channel counts as a success.
Synced(r) ==
  [c \in DOMAIN channel_scan_results \cup DOMAIN r.status |->
     IF c \in DOMAIN r.status
     THEN [at |-> r.id, from |-> IF c \in Supported THEN r.cached ELSE {}]
     ELSE channel_scan_results[c]]

\* An ignored request is reported as one that came too soon.
Reported(r) == IF r.state = "SCAN_IGNORED" THEN WithStatus(r, "TOO_SOON") ELSE r

\* Mutant: the request that was reported is kept.
WorkOnEndedScanKept(sent) ==
  /\ running
  /\ scan # NoRequest
  /\ scan.state \in Ended
  /\ AbortExpired(sent)
  /\ running' = FALSE
  /\ fate' = IF m_on_boot_scan_enabled THEN fate ELSE [fate EXCEPT ![scan.id] = "reported"]
  /\ UNCHANGED <<m_on_boot_scan_enabled, scan, pending, crashed, last_scan, issued,
                 channel_scan_results, toTask, channel_scan_in_progress>>

\* Without on-boot scans the scan is cleared and its report is sent.  With them
\* a scan that is done is not reported, and one that failed goes on running.
WorkOnEndedScan(sent) ==
  /\ running
  /\ scan # NoRequest
  /\ scan.state \in Ended
  /\ AbortExpired(sent)
  /\ channel_scan_results' =
       IF scan.state = "SCAN_DONE" THEN Synced(scan) ELSE channel_scan_results
  /\ IF m_on_boot_scan_enabled
     THEN /\ running' = (scan.state # "SCAN_DONE")
          /\ UNCHANGED <<scan, fate>>
     ELSE /\ running' = FALSE
          /\ scan' = NoRequest
          /\ fate' = [fate EXCEPT ![scan.id] = "reported"]
  /\ UNCHANGED <<m_on_boot_scan_enabled, pending, last_scan, issued, crashed, toTask,
                 channel_scan_in_progress>>

WorkOnNull ==
  /\ Dereferences
  /\ crashed' = TRUE
  /\ UNCHANGED <<m_on_boot_scan_enabled, running, scan, pending, fate, last_scan, issued,
                 channel_scan_results, messageVars>>

\* trigger_next_radio_scan() and trigger_radio_scan(): a request without a
\* channel to scan is done at once; one that is to be ignored is scanned like
\* the others.  When the socket fails, the request is forgotten.
TriggerNextRadioScan(sent) ==
  LET nothing == /\ pending.dwell = "some"
                 /\ \A c \in DOMAIN pending.status : pending.status[c] = "NOT_SUPPORTED"
      op == IF pending.dwell = "zero" THEN "DUMP" ELSE "TRIGGER"
  IN
  /\ ~running
  /\ pending # NoRequest
  /\ pending' = NoRequest
  /\ IF sent
     THEN /\ running' = TRUE
          /\ scan' = IF nothing THEN MoveState(pending, "SCAN_DONE") ELSE pending
          /\ toMonitor' = IF nothing THEN toMonitor
                          ELSE Append(toMonitor, [op |-> op, scan |-> pending.id])
          /\ fate' = IF scan = NoRequest THEN fate ELSE [fate EXCEPT ![scan.id] = "silent"]
     ELSE /\ fate' = [fate EXCEPT ![pending.id] = "dropped"]
          /\ UNCHANGED <<running, scan, toMonitor>>
  /\ UNCHANGED <<m_on_boot_scan_enabled, crashed, last_scan, issued, channel_scan_results, toTask,
                 channel_scan_in_progress>>

Work ==
  \/ \E sent \in BOOLEAN :
       WorkOnScan(sent) \/ WorkOnEndedScan(sent) \/ TriggerNextRadioScan(sent)
  \/ WorkOnNull

=============================================================================
