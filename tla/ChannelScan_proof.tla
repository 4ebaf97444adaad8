-------------------------- MODULE ChannelScan_proof --------------------------
(***************************************************************************)
(* Proofs about the channel scan, for any channels, any traffic and any     *)
(* bounds: a scan request is answered at most once (AnsweredOnce), the      *)
(* variables keep their types (TypeOK), and the report on a scan is about   *)
(* that scan (ReportsAreOwn).                                               *)
(***************************************************************************)
EXTENDS ChannelScan, TLAPS

\* A request that was issued and is still open.
IsOpen(r) == "id" \in DOMAIN r /\ r.id \in 1..issued /\ fate[r.id] = "open"

\* The inductive invariant: requests are numbered in order, those that have not
\* been issued have no fate, and the two requests the task holds are open and
\* different.  The monitor and the messages do not matter.
FateInv ==
  /\ issued \in 0..MaxRequests
  /\ fate \in [Ids -> Fates]
  /\ \A id \in Ids : id > issued => fate[id] = "none"
  /\ pending = NoRequest \/ IsOpen(pending)
  /\ scan = NoRequest \/ IsOpen(scan)
  /\ scan = NoRequest \/ pending = NoRequest \/ scan.id # pending.id

\* What a step may do to the fates: those that are decided stay.
FatesKept == \A id \in Ids : fate[id] \notin {"none", "open"} => fate'[id] = fate[id]

\* Another record of the same request.
SameRequest(r, s) == s # NoRequest /\ "id" \in DOMAIN r /\ r.id = s.id

\* What the answers, the clock and a pass of work() that does not end the scan do:
\* the running scan is kept, changed without its number, or removed.
ScanKept ==
  /\ UNCHANGED <<fate, issued, pending>>
  /\ scan' = scan \/ scan' = NoRequest \/ SameRequest(scan', scan)

-----------------------------------------------------------------------------
(* The changes of a request *)

\* A request that changes its state or its status keeps its number: MoveState,
\* WithStatus and Failed assign other members.
LEMMA NumberKept ==
  ASSUME NEW r, "id" \in DOMAIN r, r # NoRequest, NEW v
  PROVE  /\ SameRequest(MoveState(r, v), r)
         /\ SameRequest(WithStatus(r, v), r)
         /\ SameRequest(Failed(r), r)
         /\ SameRequest(WithStatus(MoveState(r, "WAIT_FOR_RESULTS_DUMP"), "SUCCESS"), r)
         /\ SameRequest(MoveState(WithStatus(r, "ABORTED"), "SCAN_ABORTED"), r)
         /\ SameRequest(StoreRadioScanResult(r, v), r)
         /\ SameRequest([r EXCEPT !.late = TRUE], r)
         /\ SameRequest([r EXCEPT !.expired = TRUE], r)
<1>1. ASSUME NEW s, "id" \in DOMAIN s, s.id = r.id, NEW w
      PROVE  "id" \in DOMAIN MoveState(s, w) /\ MoveState(s, w).id = r.id
  BY <1>1, Zenon DEF MoveState
<1>2. ASSUME NEW s, "id" \in DOMAIN s, s.id = r.id, NEW w
      PROVE  "id" \in DOMAIN WithStatus(s, w) /\ WithStatus(s, w).id = r.id
  BY <1>2, Zenon DEF WithStatus
<1>3. ASSUME NEW s, "id" \in DOMAIN s, s.id = r.id
      PROVE  /\ "id" \in DOMAIN [s EXCEPT !.cached = @ \cup {v}]
             /\ [s EXCEPT !.cached = @ \cup {v}].id = r.id
  BY <1>3, Zenon
<1>4. SameRequest(MoveState(r, v), r) /\ SameRequest(WithStatus(r, v), r)
  BY <1>1, <1>2, Zenon DEF SameRequest
<1>5. SameRequest(Failed(r), r)
  BY <1>1, <1>2, Zenon DEF SameRequest, Failed
<1>6. SameRequest(WithStatus(MoveState(r, "WAIT_FOR_RESULTS_DUMP"), "SUCCESS"), r)
  BY <1>1, <1>2, Zenon DEF SameRequest
<1>7. SameRequest(MoveState(WithStatus(r, "ABORTED"), "SCAN_ABORTED"), r)
  BY <1>1, <1>2, Zenon DEF SameRequest
<1>8. SameRequest(StoreRadioScanResult(r, v), r)
  BY <1>1, <1>2, <1>3, Zenon DEF SameRequest, StoreRadioScanResult
<1>9. SameRequest([r EXCEPT !.late = TRUE], r) /\ SameRequest([r EXCEPT !.expired = TRUE], r)
  BY Zenon DEF SameRequest
<1> QED
  BY <1>4, <1>5, <1>6, <1>7, <1>8, <1>9, Zenon

\* Such a step keeps the invariant and every fate.
LEMMA ScanKeptIsSafe ==
  ASSUME FateInv, ScanKept
  PROVE  FateInv' /\ FatesKept
BY Zenon DEF FateInv, ScanKept, SameRequest, IsOpen, FatesKept

-----------------------------------------------------------------------------
(* The steps *)

\* A new request gets the next number, whatever became of the one that waited:
\* Enqueue, as the handlers of the two kinds of requests use it.
LEMMA EnqueueIsSafe ==
  ASSUME FateInv, NEW r, "id" \in DOMAIN r, r.id = issued + 1, issued < MaxRequests,
         Enqueue(r), UNCHANGED scan
  PROVE  FateInv' /\ FatesKept
<1>1. issued \in Nat /\ MaxRequests \in Nat /\ r.id \in Ids /\ issued' = r.id
  BY ScanBoundsAssumption DEF FateInv, Ids, Enqueue
<1>2. fate' \in [Ids -> Fates] /\ FatesKept
  BY <1>1 DEF FateInv, IsOpen, Enqueue, FatesKept, Fates, Ids
<1>3. \A id \in Ids : id > issued' => fate'[id] = "none"
  BY <1>1 DEF FateInv, IsOpen, Enqueue, Ids
<1>4. IsOpen(pending)'
  BY <1>1 DEF IsOpen, Enqueue, Ids
<1>5. scan = NoRequest \/ (IsOpen(scan)' /\ scan.id # r.id)
  BY <1>1 DEF FateInv, IsOpen, Enqueue, Ids
<1> QED
  BY <1>1, <1>2, <1>3, <1>4, <1>5 DEF FateInv, Enqueue

\* The number of a new request, which SCAN_IGNORED does not change.
LEMMA NewNumber ==
  ASSUME NEW n, NEW dwell, NEW cs
  PROVE  LET r == NewRequest(n, dwell, cs) IN
         /\ "id" \in DOMAIN r /\ r.id = n
         /\ "id" \in DOMAIN MoveState(r, "SCAN_IGNORED")
         /\ MoveState(r, "SCAN_IGNORED").id = n
BY Zenon DEF NewRequest, MoveState

\* The handlers of requests: handle_channel_scan_request(), which may also forget
\* the request at once, and handle_on_boot_scan_request().
LEMMA ControllerIsSafe ==
  ASSUME FateInv, ControllerStep
  PROVE  FateInv' /\ FatesKept
<1>1. ASSUME NEW dwell, NEW cs, NEW sent, HandleFreshRequest(dwell, cs, sent)
      PROVE  FateInv' /\ FatesKept
  <2> DEFINE new == NewRequest(issued + 1, dwell, cs)
             given == IF last_scan = "recent" THEN MoveState(new, "SCAN_IGNORED") ELSE new
  <2>1. "id" \in DOMAIN new /\ new.id = issued + 1 /\ "id" \in DOMAIN given /\ given.id = issued + 1
    BY NewNumber, Zenon
  <2>2. UNCHANGED scan /\ issued < MaxRequests
    BY <1>1, Zenon DEF HandleFreshRequest
  <2>3. \/ Enqueue(given)
        \/ issued' = new.id /\ fate' = [fate EXCEPT ![new.id] = "dropped"] /\ UNCHANGED pending
    BY <1>1, Zenon DEF HandleFreshRequest
  <2> HIDE DEF new, given
  <2>4. CASE Enqueue(given)
    BY <2>1, <2>2, <2>4, EnqueueIsSafe, Zenon
  <2>5. CASE issued' = new.id /\ fate' = [fate EXCEPT ![new.id] = "dropped"] /\ UNCHANGED pending
    BY <2>1, <2>2, <2>5, ScanBoundsAssumption DEF FateInv, IsOpen, FatesKept, Fates, Ids
  <2> QED
    BY <2>3, <2>4, <2>5, Zenon
<1>2. ASSUME HandleOnBootScan
      PROVE  FateInv' /\ FatesKept
  BY <1>2, NewNumber, EnqueueIsSafe, Zenon DEF HandleOnBootScan
<1>3. ASSUME HandleOnBootFetch \/ HandleBackhaulEnable
      PROVE  FateInv' /\ FatesKept
  BY <1>3, ScanKeptIsSafe, Zenon DEF HandleOnBootFetch, HandleBackhaulEnable, ScanKept
<1> QED
  BY <1>1, <1>2, <1>3, Zenon DEF ControllerStep

\* The answers of the monitor, in any order: none of them decides a request.
LEMMA AnswerIsSafe ==
  ASSUME FateInv, HandleAnswer
  PROVE  FateInv' /\ FatesKept
<1>1. scan = NoRequest \/ "id" \in DOMAIN scan
  BY Zenon DEF FateInv, IsOpen
<1>2. UNCHANGED <<fate, issued, pending>>
  BY Zenon DEF HandleAnswer, HandleTriggerResponse, HandleDumpResponse, HandleTriggered,
         HandleResultsReady, HandleResult, HandleFinished, HandleAborted,
         HandleAbortResponse, Received
<1>3. scan' = scan \/ SameRequest(scan', scan)
  <2>1. CASE HandleTriggerResponse
    BY <1>1, <2>1, NumberKept, Zenon DEF HandleTriggerResponse, InState
  <2>2. CASE HandleDumpResponse
    BY <1>1, <2>2, NumberKept, Zenon DEF HandleDumpResponse, InState
  <2>3. CASE HandleTriggered
    BY <1>1, <2>3, NumberKept, Zenon DEF HandleTriggered, InState
  <2>4. CASE HandleResultsReady
    BY <1>1, <2>4, NumberKept, Zenon DEF HandleResultsReady, InState
  <2>5. CASE HandleResult
    BY <1>1, <2>5, NumberKept, Zenon DEF HandleResult, InState
  <2>6. CASE HandleFinished
    BY <1>1, <2>6, NumberKept, Zenon DEF HandleFinished, InState
  <2>7. CASE HandleAborted
    BY <1>1, <2>7, NumberKept, Zenon DEF HandleAborted
  <2>8. CASE HandleAbortResponse
    BY <2>8, Zenon DEF HandleAbortResponse
  <2> QED
    BY <2>1, <2>2, <2>3, <2>4, <2>5, <2>6, <2>7, <2>8, Zenon DEF HandleAnswer
<1> QED
  BY <1>2, <1>3, ScanKeptIsSafe, Zenon DEF ScanKept

\* work(): a scan that has ended is reported and forgotten, the next request is
\* taken from those that wait.
LEMMA WorkIsSafe ==
  ASSUME FateInv, Work
  PROVE  FateInv' /\ FatesKept
<1>1. scan = NoRequest \/ "id" \in DOMAIN scan
  BY Zenon DEF FateInv, IsOpen
<1>2. pending = NoRequest \/ "id" \in DOMAIN pending
  BY Zenon DEF FateInv, IsOpen
<1>3. ASSUME NEW sent, WorkOnScan(sent)
      PROVE  FateInv' /\ FatesKept
  BY <1>1, <1>3, NumberKept, ScanKeptIsSafe, Zenon DEF WorkOnScan, ScanKept
<1>4. ASSUME NEW sent, WorkOnEndedScan(sent)
      PROVE  FateInv' /\ FatesKept
  <2>1. CASE m_on_boot_scan_enabled
    BY <1>4, <2>1, ScanKeptIsSafe, Zenon DEF WorkOnEndedScan, ScanKept
  <2>2. CASE ~m_on_boot_scan_enabled
    <3>1. /\ scan # NoRequest /\ scan' = NoRequest
          /\ fate' = [fate EXCEPT ![scan.id] = "reported"]
          /\ UNCHANGED <<pending, issued>>
      BY <1>4, <2>2, Zenon DEF WorkOnEndedScan
    <3> QED
      BY <3>1, ScanBoundsAssumption DEF FateInv, IsOpen, FatesKept, Fates, Ids
  <2> QED
    BY <2>1, <2>2, Zenon
<1>5. ASSUME NEW sent, TriggerNextRadioScan(sent)
      PROVE  FateInv' /\ FatesKept
  <2>1. pending # NoRequest /\ pending' = NoRequest /\ UNCHANGED issued
    BY <1>5, Zenon DEF TriggerNextRadioScan
  <2>2. CASE ~sent
    <3>1. UNCHANGED scan /\ fate' = [fate EXCEPT ![pending.id] = "dropped"]
      BY <1>5, <2>2, Zenon DEF TriggerNextRadioScan
    <3> QED
      BY <2>1, <3>1, ScanBoundsAssumption DEF FateInv, IsOpen, FatesKept, Fates, Ids
  <2>3. CASE sent
    <3>1. /\ scan' = pending \/ SameRequest(scan', pending)
          /\ fate' = IF scan = NoRequest THEN fate ELSE [fate EXCEPT ![scan.id] = "silent"]
      BY <1>2, <1>5, <2>1, <2>3, NumberKept, Zenon DEF TriggerNextRadioScan
    <3>2. "id" \in DOMAIN scan' /\ scan'.id = pending.id
      BY <1>2, <2>1, <3>1, Zenon DEF SameRequest
    <3> QED
      BY <2>1, <3>1, <3>2, ScanBoundsAssumption DEF FateInv, IsOpen, FatesKept, Fates, Ids
  <2> QED
    BY <2>2, <2>3, Zenon
<1>6. ASSUME WorkOnNull
      PROVE  FateInv' /\ FatesKept
  BY <1>6, ScanKeptIsSafe, Zenon DEF WorkOnNull, ScanKept
<1> QED
  BY <1>3, <1>4, <1>5, <1>6, Zenon DEF Work

\* Time, and the steps of the monitor.
LEMMA OthersAreSafe ==
  ASSUME FateInv, Clock \/ CommandStep \/ EventStep \/ DriverReports \/ UNCHANGED vars
  PROVE  FateInv' /\ FatesKept
<1>1. scan = NoRequest \/ "id" \in DOMAIN scan
  BY Zenon DEF FateInv, IsOpen
<1>2. CASE Clock
  <2>1. scan' = scan \/ SameRequest(scan', scan)
    BY <1>1, <1>2, NumberKept, Zenon
       DEF Clock, ElapseInterval, ElapseState, ElapseRequest, Waiting
  <2> QED
    BY <1>2, <2>1, ScanKeptIsSafe, Zenon DEF Clock, ScanKept
<1>3. CASE CommandStep \/ EventStep \/ DriverReports \/ UNCHANGED vars
  BY <1>3, ScanKeptIsSafe, Zenon DEF CommandStep, EventStep, DriverReports, vars, taskVars, ScanKept
<1> QED
  BY <1>2, <1>3, Zenon

-----------------------------------------------------------------------------

\* Every step keeps the invariant and every fate that is decided.
LEMMA StepIsSafe ==
  ASSUME FateInv, [Next]_vars
  PROVE  FateInv' /\ FatesKept
BY ControllerIsSafe, AnswerIsSafe, WorkIsSafe, OthersAreSafe, Zenon DEF Next, AnswerStep, WorkStep

\* The requests the task holds are open and different in every reachable state.
THEOREM FateInvariance == Spec => []FateInv
<1>1. Init => FateInv
  BY ScanBoundsAssumption DEF Init, TaskInit, FateInv, Fates, Ids
<1>2. FateInv /\ [Next]_vars => FateInv'
  BY StepIsSafe, Zenon
<1> QED
  BY <1>1, <1>2, PTL DEF Spec

\* A request is answered at most once, for any number of requests and channels
\* and whatever the monitor sends: AnsweredOnce.
THEOREM AnsweredOnceHolds == Spec => AnsweredOnce
<1>1. FateInv /\ [Next]_vars => [FatesKept]_vars
  BY StepIsSafe, Zenon
<1>2. [FatesKept]_vars
      => [\A id \in Ids : fate[id] \notin {"none", "open"} => fate'[id] = fate[id]]_vars
  BY Zenon DEF FatesKept
<1> QED
  BY <1>1, <1>2, FateInvariance, PTL DEF Spec, AnsweredOnce

-----------------------------------------------------------------------------
(* Types *)

\* A request by its members.
LEMMA RequestMembers ==
  ASSUME NEW r
  PROVE  r \in Requests <=>
           \E cs \in SUBSET AllChannels :
             r \in [id : Ids, dwell : {"zero", "some"}, status : [cs -> eScanStatus],
                    state : eState, cached : SUBSET Results, late : BOOLEAN,
                    expired : BOOLEAN]
BY Zenon DEF Requests

\* The id of a request is an id.
LEMMA RequestId ==
  ASSUME NEW r \in Requests
  PROVE  r.id \in Ids
<1>1. PICK cs \in SUBSET AllChannels :
        r \in [id : Ids, dwell : {"zero", "some"}, status : [cs -> eScanStatus],
              state : eState, cached : SUBSET Results, late : BOOLEAN, expired : BOOLEAN]
  BY RequestMembers, Zenon
<1> QED BY <1>1, Zenon

\* What the task makes of a request is a request: MoveState, WithStatus and the rest.
LEMMA RequestsStay ==
  ASSUME NEW r \in Requests
  PROVE  /\ \A state \in eState : MoveState(r, state) \in Requests
         /\ \A status \in eScanStatus : WithStatus(r, status) \in Requests
         /\ \A result \in Results : [r EXCEPT !.cached = @ \cup {result}] \in Requests
         /\ [r EXCEPT !.late = TRUE] \in Requests
         /\ [r EXCEPT !.expired = TRUE] \in Requests
<1>1. PICK cs \in SUBSET AllChannels :
        r \in [id : Ids, dwell : {"zero", "some"}, status : [cs -> eScanStatus],
               state : eState, cached : SUBSET Results, late : BOOLEAN, expired : BOOLEAN]
  BY RequestMembers, Zenon
<1>2. ASSUME NEW state \in eState
      PROVE  MoveState(r, state) \in Requests
  BY <1>1, RequestMembers, Zenon DEF MoveState
<1>3. ASSUME NEW status \in eScanStatus
      PROVE  WithStatus(r, status) \in Requests
  <2>1. [c \in DOMAIN r.status |-> status] \in [cs -> eScanStatus]
    BY <1>1, Zenon
  <2> QED
    BY <1>1, <2>1, RequestMembers, Zenon DEF WithStatus
<1>4. ASSUME NEW result \in Results
      PROVE  [r EXCEPT !.cached = @ \cup {result}] \in Requests
  BY <1>1, RequestMembers, Zenon
<1>5. [r EXCEPT !.late = TRUE] \in Requests /\ [r EXCEPT !.expired = TRUE] \in Requests
  BY <1>1, RequestMembers, Zenon
<1> QED
  BY <1>2, <1>3, <1>4, <1>5, Zenon

\* The states and statuses that the handlers use.
LEMMA KnownValues ==
  /\ {"PENDING_TRIGGER", "WAIT_FOR_SCAN_TRIGGERED", "WAIT_FOR_RESULTS_READY",
      "WAIT_FOR_RESULTS_DUMP", "SCAN_DONE", "SCAN_FAILED", "SCAN_ABORTED",
      "SCAN_IGNORED"} \subseteq eState
  /\ {"SUCCESS", "NOT_SUPPORTED", "TOO_SOON", "NOT_COMPLETED", "ABORTED"} \subseteq eScanStatus
BY Zenon DEF eState, WaitStates, Ended, eScanStatus

\* So is what they make of it in several assignments.
LEMMA HandledRequests ==
  ASSUME NEW r \in Requests
  PROVE  /\ Failed(r) \in Requests
         /\ WithStatus(MoveState(r, "WAIT_FOR_RESULTS_DUMP"), "SUCCESS") \in Requests
         /\ MoveState(WithStatus(r, "ABORTED"), "SCAN_ABORTED") \in Requests
         /\ \A result \in Results : StoreRadioScanResult(r, result) \in Requests
<1>1. /\ WithStatus(r, "NOT_COMPLETED") \in Requests
      /\ WithStatus(r, "ABORTED") \in Requests
      /\ MoveState(r, "WAIT_FOR_RESULTS_DUMP") \in Requests
  BY RequestsStay, KnownValues, Zenon
<1>2. /\ Failed(r) \in Requests
      /\ MoveState(WithStatus(r, "ABORTED"), "SCAN_ABORTED") \in Requests
  BY <1>1, RequestsStay, KnownValues, Zenon DEF Failed
<1>3. WithStatus(MoveState(r, "WAIT_FOR_RESULTS_DUMP"), "SUCCESS") \in Requests
  BY <1>1, RequestsStay, KnownValues, Zenon
<1> QED
  BY <1>2, <1>3, RequestsStay, Zenon DEF StoreRadioScanResult

\* A new request.
LEMMA NewIsRequest ==
  ASSUME NEW id \in Ids, NEW dwell \in {"zero", "some"}, NEW cs \in SUBSET AllChannels
  PROVE  NewRequest(id, dwell, cs) \in Requests
<1>1. [c \in cs |-> IF c \in Supported THEN "SUCCESS" ELSE "NOT_SUPPORTED"]
        \in [cs -> eScanStatus]
  BY KnownValues, Zenon
<1>2. "PENDING_TRIGGER" \in eState
  BY KnownValues, Zenon
<1> QED
  BY <1>1, <1>2, RequestMembers, Zenon DEF NewRequest

\* What the messages and the handlers of requests, which no reader changes, are.
LEMMA EnqueueTypes ==
  ASSUME TypeOK, NEW r \in Requests, Enqueue(r)
  PROVE  /\ pending' \in Requests \cup {NoRequest}
         /\ issued' \in 0..MaxRequests
         /\ fate' \in [Ids -> Fates]
<1>1. r.id \in Ids
  BY RequestMembers
<1> QED
  BY <1>1, ScanBoundsAssumption DEF TypeOK, Enqueue, Fates, Ids

\* The handlers of requests.
LEMMA ControllerTypes ==
  ASSUME TypeOK, ControllerStep
  PROVE  TypeOK'
<1>1. ASSUME NEW dwell \in {"zero", "some"}, NEW cs \in SUBSET AllChannels, NEW sent \in BOOLEAN,
             HandleFreshRequest(dwell, cs, sent), UNCHANGED <<monitorVars, hasty>>
      PROVE  TypeOK'
  <2> DEFINE new == NewRequest(issued + 1, dwell, cs)
             given == IF last_scan = "recent" THEN MoveState(new, "SCAN_IGNORED") ELSE new
             aborts == running /\ last_scan = "old"
  <2>1. issued + 1 \in Ids /\ issued + 1 \in 0..MaxRequests
    BY <1>1, ScanBoundsAssumption DEF HandleFreshRequest, TypeOK, Ids
  <2>2. new \in Requests /\ new.id = issued + 1
    BY <2>1, NewIsRequest, NewNumber, Zenon
  <2>3. given \in Requests
    BY <2>2, RequestsStay, KnownValues, Zenon
  <2>4. /\ UNCHANGED <<m_on_boot_scan_enabled, running, scan, channel_scan_results, toTask,
                       channel_scan_in_progress, monitorVars, hasty>>
        /\ \/ /\ crashed' = (scan = NoRequest) /\ issued' = new.id
              /\ fate' = [fate EXCEPT ![new.id] = "dropped"]
              /\ UNCHANGED <<pending, last_scan, toMonitor>>
           \/ /\ toMonitor' = toMonitor \/ (scan # NoRequest /\ toMonitor' = Append(toMonitor, AbortCommand))
              /\ Enqueue(given)
              /\ last_scan' = "recent"
              /\ UNCHANGED crashed
    BY <1>1, Zenon DEF HandleFreshRequest
  <2> HIDE DEF new, given
  <2>5. CASE /\ crashed' = (scan = NoRequest) /\ issued' = new.id
             /\ fate' = [fate EXCEPT ![new.id] = "dropped"]
             /\ UNCHANGED <<pending, last_scan, toMonitor>>
    <3>1. crashed' \in BOOLEAN
      BY <2>5, Zenon
    <3> QED
      BY <2>1, <2>2, <2>4, <2>5, <3>1 DEF TypeOK, Fates, monitorVars
  <2>6. CASE /\ toMonitor' = toMonitor \/ (scan # NoRequest /\ toMonitor' = Append(toMonitor, AbortCommand))
             /\ Enqueue(given)
             /\ last_scan' = "recent"
             /\ UNCHANGED crashed
    <3>1. toMonitor' \in Seq(Commands)
      <4>1. scan # NoRequest => AbortCommand \in Commands
        BY RequestMembers DEF TypeOK, AbortCommand, Commands
      <4> QED
        BY <4>1, <2>6, SMTT(30) DEF TypeOK
    <3> QED
      BY <2>3, <2>4, <2>6, <3>1, EnqueueTypes DEF TypeOK, monitorVars
  <2> QED
    BY <2>4, <2>5, <2>6, Zenon
<1>2. ASSUME HandleOnBootScan, UNCHANGED <<monitorVars, hasty>>
      PROVE  TypeOK'
  <2> DEFINE new == NewRequest(issued + 1, "some", Supported)
  <2>1. issued + 1 \in Ids
    BY <1>2, ScanBoundsAssumption DEF HandleOnBootScan, TypeOK, Ids
  <2>2. new \in Requests
    BY <2>1, NewIsRequest, Zenon DEF AllChannels
  <2>3. Enqueue(new)
    BY <1>2, Zenon DEF HandleOnBootScan
  <2> HIDE DEF new
  <2> QED
    BY <1>2, <2>2, <2>3, EnqueueTypes DEF HandleOnBootScan, TypeOK, monitorVars, messageVars
<1>3. ASSUME HandleOnBootFetch, UNCHANGED <<monitorVars, hasty>>
      PROVE  TypeOK'
  BY <1>3, Zenon DEF HandleOnBootFetch, TypeOK, monitorVars, messageVars
<1>4. ASSUME HandleBackhaulEnable, UNCHANGED <<monitorVars, hasty>>
      PROVE  TypeOK'
  <2>1. \A c \in DOMAIN channel_scan_results' :
          c \in AllChannels /\ channel_scan_results'[c] \in Stored
    BY <1>4, Zenon DEF HandleBackhaulEnable, TypeOK, Stored, BlankResults, AllChannels
  <2>2. UNCHANGED <<m_on_boot_scan_enabled, running, scan, pending, fate, crashed, last_scan,
                    issued, messageVars, monitorVars, hasty>>
    BY <1>4, Zenon DEF HandleBackhaulEnable
  <2> QED
    BY <2>1, <2>2 DEF TypeOK, monitorVars, messageVars
<1>5. Supported \in SUBSET AllChannels
  BY Zenon DEF AllChannels
<1> QED
  BY <1>1, <1>2, <1>3, <1>4, <1>5, Zenon DEF ControllerStep

\* The message at the head of a stream, and the rest of it.
LEMMA HeadTypes ==
  ASSUME TypeOK
  PROVE  /\ toTask # << >> => Head(toTask) \in Answers /\ Tail(toTask) \in Seq(Answers)
         /\ toMonitor # << >> => Head(toMonitor) \in Commands /\ Tail(toMonitor) \in Seq(Commands)
BY DEF TypeOK

\* The answers of the monitor.
LEMMA AnswerTypes ==
  ASSUME TypeOK, AnswerStep
  PROVE  TypeOK'
<1>1. ASSUME NEW op, Received(op)
      PROVE  /\ toTask # << >> /\ toTask' \in Seq(Answers) /\ Head(toTask) \in Answers
             /\ Head(toTask).op = op
             /\ UNCHANGED <<m_on_boot_scan_enabled, pending, fate, last_scan, issued,
                            channel_scan_results, toMonitor>>
  BY <1>1, HeadTypes, Zenon DEF Received
<1>2. SUFFICES /\ toTask' \in Seq(Answers)
               /\ scan' \in Requests \cup {NoRequest}
               /\ running' \in BOOLEAN /\ crashed' \in BOOLEAN
               /\ channel_scan_in_progress' \in BOOLEAN
               /\ UNCHANGED <<m_on_boot_scan_enabled, pending, fate, last_scan, issued,
                              channel_scan_results, toMonitor>>
  BY Zenon DEF AnswerStep, TypeOK, monitorVars
<1>3. running \in BOOLEAN /\ crashed \in BOOLEAN /\ channel_scan_in_progress \in BOOLEAN
      /\ scan \in Requests \cup {NoRequest}
  BY Zenon DEF TypeOK
<1>4. Dereferences \in BOOLEAN
  BY Zenon DEF Dereferences
<1>5. scan # NoRequest =>
        /\ \A state \in eState : MoveState(scan, state) \in Requests
        /\ Failed(scan) \in Requests
        /\ WithStatus(MoveState(scan, "WAIT_FOR_RESULTS_DUMP"), "SUCCESS") \in Requests
        /\ MoveState(WithStatus(scan, "ABORTED"), "SCAN_ABORTED") \in Requests
        /\ \A result \in Results : StoreRadioScanResult(scan, result) \in Requests
  BY <1>3, RequestsStay, HandledRequests, Zenon
<1>6. CASE HandleTriggerResponse
  <2>1. Received("TRIGGER_RESPONSE")
    BY <1>6, Zenon DEF HandleTriggerResponse
  <2>2. Head(toTask).success \in BOOLEAN
    BY <2>1, <1>1 DEF Answers, Dumps
  <2>3. scan' \in Requests \cup {NoRequest} /\ running' \in BOOLEAN
    BY <1>3, <1>5, <1>6, <2>2, KnownValues, Zenon DEF HandleTriggerResponse, InState
  <2> QED
    BY <1>1, <1>3, <1>4, <1>6, <2>1, <2>3, Zenon DEF HandleTriggerResponse
<1>7. CASE HandleDumpResponse
  <2>1. Received("DUMP_RESPONSE")
    BY <1>7, Zenon DEF HandleDumpResponse
  <2>2. scan' \in Requests \cup {NoRequest}
    BY <1>3, <1>5, <1>7, KnownValues, Zenon DEF HandleDumpResponse, InState
  <2> QED
    BY <1>1, <1>3, <1>4, <1>7, <2>1, <2>2, Zenon DEF HandleDumpResponse
<1>8. CASE HandleTriggered
  BY <1>1, <1>3, <1>4, <1>5, <1>8, KnownValues, Zenon DEF HandleTriggered, InState
<1>9. CASE HandleResultsReady
  BY <1>1, <1>3, <1>4, <1>5, <1>9, KnownValues, Zenon DEF HandleResultsReady, InState
<1>10. CASE HandleResult
  <2>1. PICK op \in Dumps : Received(op)
    BY <1>10, Zenon DEF HandleResult
  <2>2. Head(toTask) \in Results
    BY <2>1, <1>1, Zenon DEF Answers, Dumps, Results
  <2>3. scan' \in Requests \cup {NoRequest}
    BY <1>3, <1>5, <1>10, <2>2, Zenon DEF HandleResult, InState
  <2> QED
    BY <1>1, <1>3, <1>4, <1>10, <2>1, <2>3, Zenon DEF HandleResult
<1>11. CASE HandleFinished
  BY <1>1, <1>3, <1>4, <1>5, <1>11, KnownValues, Zenon DEF HandleFinished, InState
<1>12. CASE HandleAborted
  BY <1>1, <1>3, <1>4, <1>5, <1>12, Zenon DEF HandleAborted
<1>13. CASE HandleAbortResponse
  <2>1. Received("ABORT_RESPONSE")
    BY <1>13, Zenon DEF HandleAbortResponse
  <2>2. Head(toTask).success \in BOOLEAN
    BY <2>1, <1>1 DEF Answers, Dumps
  <2> QED
    BY <1>1, <1>3, <1>13, <2>1, <2>2, Zenon DEF HandleAbortResponse
<1> QED
  BY <1>6, <1>7, <1>8, <1>9, <1>10, <1>11, <1>12, <1>13, Zenon DEF AnswerStep, HandleAnswer

\* work()
LEMMA WorkTypes ==
  ASSUME TypeOK, WorkStep
  PROVE  TypeOK'
<1>1. /\ running \in BOOLEAN /\ scan \in Requests \cup {NoRequest}
      /\ pending \in Requests \cup {NoRequest} /\ fate \in [Ids -> Fates]
      /\ toMonitor \in Seq(Commands)
  BY Zenon DEF TypeOK
<1>2. /\ scan # NoRequest => scan.id \in Ids /\ scan.cached \in SUBSET Results
                             /\ DOMAIN scan.status \subseteq AllChannels
      /\ pending # NoRequest => pending.id \in Ids /\ pending.dwell \in {"zero", "some"}
  BY <1>1, RequestMembers
<1>3. UNCHANGED monitorVars /\ hasty' \subseteq Ids
  <2>1. hasty \subseteq Ids
    BY Zenon DEF TypeOK
  <2>2. pending' # pending => pending # NoRequest
    BY Zenon DEF WorkStep, Work, WorkOnScan, WorkOnEndedScan, WorkOnNull, TriggerNextRadioScan
  <2>3. hasty' = hasty \/ (pending' # pending /\ hasty' = hasty \cup {pending.id})
    BY Zenon DEF WorkStep
  <2> QED
    BY <1>2, <2>1, <2>2, <2>3, Zenon DEF WorkStep
<1>4. scan # NoRequest => AbortCommand \in Commands
  BY <1>2, Zenon DEF AbortCommand, Commands
<1>5. \A sent \in BOOLEAN : AbortExpired(sent) /\ scan # NoRequest => toMonitor' \in Seq(Commands)
  BY <1>1, <1>4 DEF AbortExpired
<1>6. ASSUME NEW sent \in BOOLEAN, WorkOnScan(sent)
      PROVE  TypeOK'
  <2>1. scan' \in Requests
    BY <1>1, <1>6, HandledRequests, Zenon DEF WorkOnScan
  <2>2. toMonitor' \in Seq(Commands)
    BY <1>5, <1>6, Zenon DEF WorkOnScan
  <2>3. UNCHANGED <<m_on_boot_scan_enabled, running, pending, fate, crashed, last_scan, issued,
                    channel_scan_results, toTask, channel_scan_in_progress>>
    BY <1>6, Zenon DEF WorkOnScan
  <2> QED
    BY <1>3, <2>1, <2>2, <2>3 DEF TypeOK, monitorVars
<1>7. ASSUME NEW sent \in BOOLEAN, WorkOnEndedScan(sent)
      PROVE  TypeOK'
  <2>1. scan # NoRequest /\ toMonitor' \in Seq(Commands)
    BY <1>5, <1>7, Zenon DEF WorkOnEndedScan
  <2>2. running' \in BOOLEAN /\ scan' \in Requests \cup {NoRequest} /\ fate' \in [Ids -> Fates]
    BY <1>1, <1>2, <1>7, Zenon DEF WorkOnEndedScan, Fates
  <2>3. \A c \in DOMAIN channel_scan_results' :
          c \in AllChannels /\ channel_scan_results'[c] \in Stored
    <3>1. \A c \in DOMAIN channel_scan_results :
            c \in AllChannels /\ channel_scan_results[c] \in Stored
      BY Zenon DEF TypeOK
    <3>2. \A c \in DOMAIN Synced(scan) : c \in AllChannels /\ Synced(scan)[c] \in Stored
      BY <1>2, <2>1, <3>1, Zenon DEF Synced, Stored
    <3>3. channel_scan_results' = channel_scan_results \/ channel_scan_results' = Synced(scan)
      BY <1>7, Zenon DEF WorkOnEndedScan
    <3> QED
      BY <3>1, <3>2, <3>3, Zenon
  <2>4. UNCHANGED <<m_on_boot_scan_enabled, pending, last_scan, issued, crashed, toTask,
                    channel_scan_in_progress>>
    BY <1>7, Zenon DEF WorkOnEndedScan
  <2> QED
    BY <1>3, <2>1, <2>2, <2>3, <2>4, Zenon DEF TypeOK, monitorVars
<1>8. ASSUME NEW sent \in BOOLEAN, TriggerNextRadioScan(sent)
      PROVE  TypeOK'
  <2>1. pending # NoRequest /\ pending' = NoRequest
    BY <1>8, Zenon DEF TriggerNextRadioScan
  <2>2. /\ running' \in BOOLEAN /\ fate' \in [Ids -> Fates]
    BY <1>1, <1>2, <1>8, Zenon DEF TriggerNextRadioScan, Fates
  <2>3. scan' \in Requests \cup {NoRequest}
    BY <1>1, <1>8, RequestsStay, KnownValues, Zenon DEF TriggerNextRadioScan
  <2>4. toMonitor' \in Seq(Commands)
    <3>1. \A op \in {"DUMP", "TRIGGER"} : [op |-> op, scan |-> pending.id] \in Commands
      BY <1>2, <2>1, Zenon DEF Commands
    <3> QED
      BY <1>1, <1>8, <3>1 DEF TriggerNextRadioScan
  <2>5. UNCHANGED <<m_on_boot_scan_enabled, crashed, last_scan, issued, channel_scan_results,
                    toTask, channel_scan_in_progress>>
    BY <1>8, Zenon DEF TriggerNextRadioScan
  <2> QED
    BY <1>3, <2>1, <2>2, <2>3, <2>4, <2>5, Zenon DEF TypeOK, monitorVars
<1>9. ASSUME WorkOnNull
      PROVE  TypeOK'
  BY <1>3, <1>9 DEF WorkOnNull, TypeOK, monitorVars, messageVars
<1> QED
  BY <1>6, <1>7, <1>8, <1>9, Zenon DEF WorkStep, Work

\* The messages of the monitor.
LEMMA MessageTypes ==
  /\ \A s \in Ids : \A ok \in BOOLEAN :
       /\ Answer("TRIGGER_RESPONSE", ok, s) \in Answers
       /\ Answer("DUMP_RESPONSE", ok, s) \in Answers
       /\ Answer("ABORT_RESPONSE", ok, s) \in Answers
  /\ \A s \in Ids : \A op \in {"TRIGGERED", "RESULTS_READY", "FINISHED"} \cup Dumps :
       Notification(op, s) \in Answers
  /\ \A s \in Ids \cup {NoScan} : Notification("ABORTED", s) \in Answers
BY Zenon DEF Answers, Answer, Notification

\* The results that are dumped.
LEMMA DumpTypes ==
  ASSUME NEW s \in Ids \cup {NoScan}, NEW t \in Ids \cup {NoScan}
  PROVE  Dump(s, t) \in Seq(Answers)
<1>1. /\ s # NoScan => Notification("NEIGHBOURS", s) \in Answers
      /\ t # NoScan => Notification("SPECTRUM", t) \in Answers
  BY MessageTypes, Zenon DEF Dumps
<1> QED
  BY <1>1 DEF Dump

\* A command of the task, and the events it leads to.
LEMMA CommandTypes ==
  ASSUME TypeOK, NEW op, NEW new \in Seq(Answers), Command(op, new)
  PROVE  /\ toMonitor' \in Seq(Commands) /\ events' \in Seq(Answers) /\ slack' \in 0..2
         /\ Head(toMonitor).scan \in Ids
<1>1. toMonitor # << >> /\ toMonitor' = Tail(toMonitor)
  BY Zenon DEF Command
<1>2. Head(toMonitor) \in Commands /\ toMonitor' \in Seq(Commands)
  BY <1>1, HeadTypes, Zenon
<1>3. events' \in Seq(Answers)
  BY DEF Command, TypeOK
<1>4. slack' \in 0..2
  BY DEF Command, TypeOK
<1> QED
  BY <1>2, <1>3, <1>4, Zenon DEF Commands

\* The monitor and the driver.
LEMMA MonitorTypes ==
  ASSUME TypeOK, CommandStep \/ EventStep \/ DriverReports
  PROVE  TypeOK'
<1> DEFINE Typed(monitor, task, queue, rest, progress, active, results, spectrum, done, old, no) ==
             /\ monitor \in Seq(Commands) /\ task \in Seq(Answers)
             /\ queue \in Seq(Answers) /\ rest \in 0..2
             /\ progress \in BOOLEAN
             /\ active \in Ids \cup {NoScan}
             /\ results \in Ids \cup {NoScan}
             /\ spectrum \in Ids \cup {NoScan}
             /\ done \subseteq Ids /\ old \subseteq Ids /\ no \in BOOLEAN
           Goal == Typed(toMonitor', toTask', events', slack', channel_scan_in_progress',
                         m_scan_active', m_scan_results', m_spectrum_results', finished',
                         unread', refused')
<1> SUFFICES Goal
  BY Zenon DEF CommandStep, EventStep, DriverReports, TypeOK, taskVars
<1>1. Typed(toMonitor, toTask, events, slack, channel_scan_in_progress, m_scan_active,
            m_scan_results, m_spectrum_results, finished, unread, refused)
  BY Zenon DEF TypeOK
<1>2. << >> \in Seq(Answers)
  OBVIOUS
<1>3. CASE RefuseTrigger
  BY <1>1, <1>2, <1>3, CommandTypes, Zenon DEF RefuseTrigger
<1>4. ASSUME NEW ok \in BOOLEAN, HandleTrigger(ok)
      PROVE  Goal
  <2> DEFINE s == Head(toMonitor).scan
             new == IF ok THEN << Notification("TRIGGERED", s) >> ELSE << >>
  <2>1. s \in Ids
    BY <1>4, HeadTypes, Zenon DEF HandleTrigger, Command, Commands
  <2>2. new \in Seq(Answers) /\ Answer("TRIGGER_RESPONSE", ok, s) \in Answers
    BY <2>1, MessageTypes
  <2>3. Command("TRIGGER", new)
    BY <1>4, Zenon DEF HandleTrigger
  <2>4. /\ channel_scan_in_progress' = TRUE
        /\ m_scan_active' = IF ok THEN s ELSE NoScan
        /\ toTask' = Append(toTask, Answer("TRIGGER_RESPONSE", ok, s))
        /\ UNCHANGED <<m_scan_results, m_spectrum_results, finished, unread, refused>>
    BY <1>4, Zenon DEF HandleTrigger
  <2> HIDE DEF s, new
  <2>5. toMonitor' \in Seq(Commands) /\ events' \in Seq(Answers) /\ slack' \in 0..2
    BY <2>2, <2>3, CommandTypes, Zenon
  <2> QED
    BY <1>1, <2>1, <2>2, <2>4, <2>5
<1>5. CASE HandleDump
  <2> DEFINE s == Head(toMonitor).scan
             new == Dump(m_scan_results, m_spectrum_results)
             more == << Answer("DUMP_RESPONSE", TRUE, s), Notification("RESULTS_READY", s) >>
  <2>1. s \in Ids
    BY <1>5, HeadTypes, Zenon DEF HandleDump, Command, Commands
  <2>2. new \in Seq(Answers) /\ more \in Seq(Answers)
    <3>1. new \in Seq(Answers)
      BY <1>1, DumpTypes, Zenon
    <3>2. Answer("DUMP_RESPONSE", TRUE, s) \in Answers /\ Notification("RESULTS_READY", s) \in Answers
      BY <2>1, MessageTypes, Zenon
    <3>3. \A x, y : x \in Answers /\ y \in Answers => <<x, y>> \in Seq(Answers)
      OBVIOUS
    <3> QED
      BY <3>1, <3>2, <3>3, Zenon
  <2>3. Command("DUMP", new)
    BY <1>5, Zenon DEF HandleDump
  <2>4. /\ toTask' = toTask \o more
        /\ UNCHANGED <<channel_scan_in_progress, m_scan_active, m_scan_results,
                       m_spectrum_results, finished, unread, refused>>
    BY <1>5, Zenon DEF HandleDump
  <2> HIDE DEF s, new, more
  <2>5. toMonitor' \in Seq(Commands) /\ events' \in Seq(Answers) /\ slack' \in 0..2
    BY <2>2, <2>3, CommandTypes, Zenon
  <2> QED
    BY <1>1, <2>2, <2>4, <2>5
<1>6. ASSUME NEW ok \in BOOLEAN, HandleAbort(ok)
      PROVE  Goal
  <2> DEFINE s == Head(toMonitor).scan
             new == IF ok /\ m_scan_active # NoScan
                    THEN << Notification("ABORTED", m_scan_active) >> ELSE << >>
             answer == Answer("ABORT_RESPONSE", ok \/ m_scan_active = NoScan, s)
  <2>1. s \in Ids
    BY <1>6, HeadTypes, Zenon DEF HandleAbort, Command, Commands
  <2>2. new \in Seq(Answers) /\ answer \in Answers
    <3>1. (ok \/ m_scan_active = NoScan) \in BOOLEAN
      BY Zenon
    <3>2. answer \in Answers
      BY <2>1, <3>1, MessageTypes, Zenon
    <3>3. Notification("ABORTED", m_scan_active) \in Answers
      BY <1>1, MessageTypes, Zenon
    <3> QED
      BY <3>2, <3>3
  <2>3. Command("ABORT", new)
    BY <1>6, Zenon DEF HandleAbort
  <2>4. /\ m_scan_active' = IF ok THEN NoScan ELSE m_scan_active
        /\ toTask' = Append(toTask, answer)
        /\ UNCHANGED <<channel_scan_in_progress, m_scan_results, m_spectrum_results, finished,
                       unread, refused>>
    BY <1>6, Zenon DEF HandleAbort
  <2> HIDE DEF s, new, answer
  <2>5. toMonitor' \in Seq(Commands) /\ events' \in Seq(Answers) /\ slack' \in 0..2
    BY <2>2, <2>3, CommandTypes, Zenon
  <2> QED
    BY <1>1, <2>2, <2>4, <2>5
<1>7. CASE ProcessIntEvents
  BY <1>1, <1>7 DEF ProcessIntEvents
<1>8. ASSUME NEW read \in {"all", "none", "failed"}, ScanDone(read)
      PROVE  Goal
  <2> DEFINE s == m_scan_active
             new == << Notification("RESULTS_READY", s) >>
                      \o Dump(m_scan_results', m_spectrum_results')
                      \o << Notification("FINISHED", s) >>
  <2>1. s \in Ids /\ m_scan_active' = NoScan
    BY <1>1, <1>8, Zenon DEF ScanDone
  <2>2. m_scan_results' \in Ids \cup {NoScan} /\ m_spectrum_results' \in Ids \cup {NoScan}
    BY <1>1, <1>8, <2>1, Zenon DEF ScanDone
  <2>3. new \in Seq(Answers)
    <3>1. Dump(m_scan_results', m_spectrum_results') \in Seq(Answers)
      BY <2>2, DumpTypes, Zenon
    <3> QED
      BY <2>1, <3>1, MessageTypes
  <2>4. DriverEvents(new)
    BY <1>8, Zenon DEF ScanDone
  <2>5. /\ finished' = finished \cup {s}
        /\ unread' = unread \cup {s} \/ unread' = unread
        /\ UNCHANGED <<toMonitor, toTask, channel_scan_in_progress, refused>>
    BY <1>8, Zenon DEF ScanDone
  <2> HIDE DEF s, new
  <2>6. events' \in Seq(Answers) /\ slack' \in 0..2
    BY <1>1, <2>3, <2>4 DEF DriverEvents
  <2> QED
    BY <1>1, <2>1, <2>2, <2>5, <2>6, Zenon
<1>9. CASE ScanError
  <2>1. << Notification("ABORTED", m_scan_active) >> \in Seq(Answers)
    BY <1>1, MessageTypes
  <2>2. events' \in Seq(Answers) /\ slack' \in 0..2
    BY <1>1, <1>9, <2>1 DEF ScanError, DriverEvents
  <2> QED
    BY <1>1, <1>9, <2>2, Zenon DEF ScanError
<1> QED
  BY <1>3, <1>4, <1>5, <1>6, <1>7, <1>8, <1>9, Zenon
     DEF CommandStep, HandleCommand, EventStep, DriverReports, DriverStep

\* The clock.
LEMMA ClockTypes ==
  ASSUME TypeOK, Clock
  PROVE  TypeOK'
<1>1. scan' \in Requests \cup {NoRequest} /\ last_scan' \in {"never", "recent", "old"}
  <2>1. scan \in Requests \cup {NoRequest} /\ last_scan \in {"never", "recent", "old"}
    BY Zenon DEF TypeOK
  <2>2. scan # NoRequest =>
          [scan EXCEPT !.late = TRUE] \in Requests /\ [scan EXCEPT !.expired = TRUE] \in Requests
    BY <2>1, RequestsStay, Zenon
  <2> QED
    BY <2>1, <2>2, Zenon DEF Clock, ElapseInterval, ElapseState, ElapseRequest, Waiting
<1> QED
  BY <1>1, Zenon DEF Clock, TypeOK, messageVars, monitorVars

\* Every step keeps the types.
LEMMA StepTypes ==
  ASSUME TypeOK, [Next]_vars
  PROVE  TypeOK'
<1>1. CASE UNCHANGED vars
  BY <1>1 DEF vars, TypeOK, messageVars, taskVars, monitorVars
<1> QED
  BY <1>1, ControllerTypes, WorkTypes, AnswerTypes, MonitorTypes, ClockTypes, Zenon DEF Next

\* Type correctness: in particular only results of numbered scans are stored, and the
\* monitor reads its event queue before a third command.
THEOREM ScanTypeCorrect == Spec => []TypeOK
<1>1. ASSUME Init
      PROVE  TypeOK
  <2>1. DOMAIN channel_scan_results = {} /\ fate \in [Ids -> Fates] /\ issued \in 0..MaxRequests
    BY <1>1, ScanBoundsAssumption DEF Init, TaskInit, Fates
  <2>2. toMonitor \in Seq(Commands) /\ toTask \in Seq(Answers) /\ events \in Seq(Answers)
    BY <1>1 DEF Init, MessagesInit, MonitorInit
  <2>3. /\ channel_scan_in_progress \in BOOLEAN /\ m_on_boot_scan_enabled \in BOOLEAN
        /\ running \in BOOLEAN /\ scan = NoRequest /\ pending = NoRequest
        /\ last_scan = "never" /\ crashed \in BOOLEAN /\ refused \in BOOLEAN
    BY <1>1, Zenon DEF Init, MessagesInit, TaskInit, MonitorInit
  <2>4. /\ m_scan_active = NoScan /\ m_scan_results = NoScan /\ m_spectrum_results = NoScan
        /\ slack = 0 /\ finished = {} /\ unread = {} /\ hasty = {}
    BY <1>1, Zenon DEF Init, MonitorInit
  <2> QED
    BY <2>1, <2>2, <2>3, <2>4 DEF TypeOK
<1>2. TypeOK /\ [Next]_vars => TypeOK'
  BY StepTypes, Zenon
<1> QED
  BY <1>1, <1>2, PTL DEF Spec

-----------------------------------------------------------------------------
(* Reports *)

\* A result or the end of the scan id, or what the layer may dump in its place.
OwnMessage(m, id, old) ==
  m.op \in Dumps \cup {"FINISHED"} => m.scan = id \/ (m.op = "SPECTRUM" /\ id \in old)

AllOwn(seq, id, old) == \A i \in 1..Len(seq) : OwnMessage(seq[i], id, old)

\* What follows the notification that a scan was triggered belongs to the scan id.
OwnAfter(seq, id, old) ==
  \A i \in 1..Len(seq) : \A j \in 1..Len(seq) :
    i < j /\ seq[i].op = "TRIGGERED" => OwnMessage(seq[j], id, old)

\* None of the messages is one of these.
Without(seq, ops) == \A i \in 1..Len(seq) : seq[i].op \notin ops

\* The trigger of the scan id has not been handled, or was refused: nothing that the task
\* may take for an answer to it is on its way.
Unserved(id) ==
  /\ \A i \in 1..Len(toMonitor) :
       toMonitor[i].op \in {"TRIGGER", "DUMP"} =>
         /\ toMonitor[i].op = "TRIGGER" /\ toMonitor[i].scan = id
         /\ \A j \in 1..Len(toMonitor) : toMonitor[j].op \in {"TRIGGER", "DUMP"} => i = j
  /\ Without(toTask, {"TRIGGER_RESPONSE", "DUMP_RESPONSE", "TRIGGERED"})
  /\ Without(events, {"TRIGGER_RESPONSE", "DUMP_RESPONSE", "TRIGGERED"})

\* The trigger of the scan id has been handled: no other scan is active, and what the
\* task reads after the notification is of this scan.
Served(id) ==
  /\ Without(toMonitor, {"TRIGGER", "DUMP"})
  /\ Without(toTask, {"DUMP_RESPONSE"}) /\ Without(events, {"DUMP_RESPONSE"})
  /\ m_scan_active \in {id, NoScan}
  /\ OwnAfter(toTask, id, unread) /\ OwnAfter(events, id, unread)
  /\ Without(toTask, {"TRIGGERED"}) \/ AllOwn(events, id, unread)

\* The same without a notification before it.
OwnStreams(id) == AllOwn(toTask, id, unread) /\ AllOwn(events, id, unread)

ReadingStates == {"WAIT_FOR_RESULTS_READY", "WAIT_FOR_RESULTS_DUMP"}

\* No channel of the request is a success.
Fruitless(r) == \A c \in DOMAIN r.status : r.status[c] # "SUCCESS"

\* What was stored for the request is its own.
OwnResults(r) ==
  /\ \A x \in r.cached : x.scan = r.id \/ (x.op = "SPECTRUM" /\ r.id \in unread)
  /\ r.state = "SCAN_DONE" => r.id \in finished \/ Fruitless(r)
  /\ r.state \in {"SCAN_FAILED", "SCAN_ABORTED"} => Fruitless(r)

\* The end of a scan is only reported of a scan that was finished.
EndsAreReal(seq, done) == \A i \in 1..Len(seq) : seq[i].op = "FINISHED" => seq[i].scan \in done

\* The messages on their way fit the state of the scan id.
StreamsFit(state, id) ==
  \/ state \in Ended
  \/ state = "PENDING_TRIGGER" /\ Unserved(id)
  \/ Served(id) /\ (state \in ReadingStates => OwnStreams(id))

\* The part of the inductive invariant about the scan that is current.
CurrentInv ==
  scan # NoRequest /\ scan.dwell = "some" /\ scan.id \notin hasty =>
    OwnResults(scan) /\ StreamsFit(scan.state, scan.id)

ReportInv ==
  /\ TypeOK
  /\ EndsAreReal(toTask, finished) /\ EndsAreReal(events, finished)
  /\ pending # NoRequest => /\ pending.state \in {"PENDING_TRIGGER", "SCAN_IGNORED"}
                            /\ pending.cached = {}
  /\ CurrentInv

\* What is known of the messages of a stream is known of those that are left when the
\* first of them has been read.
LEMMA ReadStream ==
  ASSUME NEW seq \in Seq(Answers), seq # << >>, NEW id, NEW old, NEW done
  PROVE  /\ \A ops : Without(seq, ops) => Without(Tail(seq), ops) /\ Head(seq).op \notin ops
         /\ AllOwn(seq, id, old) => /\ AllOwn(Tail(seq), id, old)
                                    /\ OwnMessage(Head(seq), id, old)
         /\ OwnAfter(seq, id, old) => OwnAfter(Tail(seq), id, old)
         /\ OwnAfter(seq, id, old) /\ Head(seq).op = "TRIGGERED" => AllOwn(Tail(seq), id, old)
         /\ EndsAreReal(seq, done) =>
              /\ EndsAreReal(Tail(seq), done)
              /\ Head(seq).op = "FINISHED" => Head(seq).scan \in done
<1>1. /\ Head(seq) = seq[1] /\ 1 \in 1..Len(seq)
      /\ Len(Tail(seq)) = Len(seq) - 1 /\ Len(seq) \in Nat
      /\ \A i \in 1..Len(Tail(seq)) : Tail(seq)[i] = seq[i + 1] /\ i + 1 \in 1..Len(seq)
  OBVIOUS
<1>2. \A ops : Without(seq, ops) => Without(Tail(seq), ops) /\ Head(seq).op \notin ops
  BY <1>1, Zenon DEF Without
<1>3. AllOwn(seq, id, old) => AllOwn(Tail(seq), id, old) /\ OwnMessage(Head(seq), id, old)
  BY <1>1, Zenon DEF AllOwn
<1>4. OwnAfter(seq, id, old) => OwnAfter(Tail(seq), id, old)
  <2> SUFFICES ASSUME OwnAfter(seq, id, old), NEW i \in 1..Len(Tail(seq)),
                      NEW j \in 1..Len(Tail(seq)), i < j, Tail(seq)[i].op = "TRIGGERED"
               PROVE  OwnMessage(Tail(seq)[j], id, old)
    BY Zenon DEF OwnAfter
  <2>1. /\ i + 1 \in 1..Len(seq) /\ j + 1 \in 1..Len(seq) /\ i + 1 < j + 1
        /\ seq[i + 1].op = "TRIGGERED" /\ Tail(seq)[j] = seq[j + 1]
    BY <1>1
  <2> QED
    BY <2>1, Zenon DEF OwnAfter
<1>5. OwnAfter(seq, id, old) /\ Head(seq).op = "TRIGGERED" => AllOwn(Tail(seq), id, old)
  <2> SUFFICES ASSUME OwnAfter(seq, id, old), Head(seq).op = "TRIGGERED",
                      NEW i \in 1..Len(Tail(seq))
               PROVE  OwnMessage(Tail(seq)[i], id, old)
    BY Zenon DEF AllOwn
  <2>1. 1 \in 1..Len(seq) /\ i + 1 \in 1..Len(seq) /\ 1 < i + 1 /\ Tail(seq)[i] = seq[i + 1]
    BY <1>1
  <2> QED
    BY <1>1, <2>1, Zenon DEF OwnAfter
<1>6. EndsAreReal(seq, done) => /\ EndsAreReal(Tail(seq), done)
                                /\ Head(seq).op = "FINISHED" => Head(seq).scan \in done
  BY <1>1, Zenon DEF EndsAreReal
<1> QED
  BY <1>2, <1>3, <1>4, <1>5, <1>6, Zenon

\* What is known of two streams is known of the one that holds the first and then the second.
LEMMA JoinedStreams ==
  ASSUME NEW s \in Seq(Answers), NEW t \in Seq(Answers), NEW id, NEW old, NEW done
  PROVE  /\ s \o t \in Seq(Answers)
         /\ \A ops : Without(s, ops) /\ Without(t, ops) => Without(s \o t, ops)
         /\ AllOwn(s, id, old) /\ AllOwn(t, id, old) => AllOwn(s \o t, id, old)
         /\ OwnAfter(s, id, old) /\ OwnAfter(t, id, old)
              /\ (Without(s, {"TRIGGERED"}) \/ AllOwn(t, id, old)) => OwnAfter(s \o t, id, old)
         /\ EndsAreReal(s, done) /\ EndsAreReal(t, done) => EndsAreReal(s \o t, done)
<1>1. /\ Len(s \o t) = Len(s) + Len(t) /\ Len(s) \in Nat /\ Len(t) \in Nat
      /\ \A i \in 1..Len(s \o t) : \/ i \in 1..Len(s) /\ (s \o t)[i] = s[i]
                                   \/ /\ i > Len(s) /\ i - Len(s) \in 1..Len(t)
                                      /\ (s \o t)[i] = t[i - Len(s)]
  OBVIOUS
<1>2. \A ops : Without(s, ops) /\ Without(t, ops) => Without(s \o t, ops)
  BY <1>1, Zenon DEF Without
<1>3. AllOwn(s, id, old) /\ AllOwn(t, id, old) => AllOwn(s \o t, id, old)
  BY <1>1, Zenon DEF AllOwn
<1>4. ASSUME OwnAfter(s, id, old), OwnAfter(t, id, old),
             Without(s, {"TRIGGERED"}) \/ AllOwn(t, id, old)
      PROVE  OwnAfter(s \o t, id, old)
  <2> SUFFICES ASSUME NEW i \in 1..Len(s \o t), NEW j \in 1..Len(s \o t), i < j,
                      (s \o t)[i].op = "TRIGGERED"
               PROVE  OwnMessage((s \o t)[j], id, old)
    BY Zenon DEF OwnAfter
  <2>1. CASE j \in 1..Len(s)
    <3>1. i \in 1..Len(s) /\ (s \o t)[i] = s[i] /\ (s \o t)[j] = s[j]
      BY <1>1, <2>1
    <3> QED
      BY <1>4, <2>1, <3>1, Zenon DEF OwnAfter
  <2>2. CASE j > Len(s) /\ i \in 1..Len(s)
    <3>1. (s \o t)[i] = s[i] /\ j - Len(s) \in 1..Len(t) /\ (s \o t)[j] = t[j - Len(s)]
      BY <1>1, <2>2
    <3> QED
      BY <1>4, <2>2, <3>1, Zenon DEF Without, AllOwn
  <2>3. CASE j > Len(s) /\ i > Len(s)
    <3>1. /\ i - Len(s) \in 1..Len(t) /\ (s \o t)[i] = t[i - Len(s)]
          /\ j - Len(s) \in 1..Len(t) /\ (s \o t)[j] = t[j - Len(s)]
          /\ i - Len(s) < j - Len(s)
      BY <1>1, <2>3
    <3> QED
      BY <1>4, <3>1, Zenon DEF OwnAfter
  <2> QED
    BY <1>1, <2>1, <2>2, <2>3, Zenon
<1>5. EndsAreReal(s, done) /\ EndsAreReal(t, done) => EndsAreReal(s \o t, done)
  BY <1>1, Zenon DEF EndsAreReal
<1>6. s \o t \in Seq(Answers)
  OBVIOUS
<1> QED
  BY <1>2, <1>3, <1>4, <1>5, <1>6, Zenon

\* More unread results and finished scans excuse more.
LEMMA MoreExcused ==
  ASSUME NEW seq, NEW id, NEW old, NEW old2, old \subseteq old2, NEW done, NEW done2,
         done \subseteq done2
  PROVE  /\ AllOwn(seq, id, old) => AllOwn(seq, id, old2)
         /\ OwnAfter(seq, id, old) => OwnAfter(seq, id, old2)
         /\ EndsAreReal(seq, done) => EndsAreReal(seq, done2)
BY Zenon DEF AllOwn, OwnAfter, OwnMessage, EndsAreReal

\* A message of the monitor is read.
LEMMA AnswerRead ==
  ASSUME TypeOK, toTask # << >>, toTask' = Tail(toTask), UNCHANGED <<toMonitor, monitorVars>>,
         NEW id
  PROVE  /\ Unserved(id) => Unserved(id)'
         /\ Served(id) => Served(id)'
         /\ OwnStreams(id) => OwnStreams(id)'
<1>1. toTask \in Seq(Answers)
  BY Zenon DEF TypeOK
<1> QED
  BY <1>1, ReadStream, Zenon DEF Unserved, Served, OwnStreams, monitorVars

\* The streams with one more or other messages.
LEMMA OneMessage ==
  ASSUME NEW m \in Answers, NEW id, NEW old, NEW done
  PROVE  /\ << m >> \in Seq(Answers)
         /\ \A ops : m.op \notin ops => Without(<< m >>, ops)
         /\ OwnMessage(m, id, old) => AllOwn(<< m >>, id, old)
         /\ OwnAfter(<< m >>, id, old)
         /\ m.op # "FINISHED" \/ m.scan \in done => EndsAreReal(<< m >>, done)
         /\ \A s \in Seq(Answers) : Append(s, m) = s \o << m >>
BY DEF Without, AllOwn, OwnAfter, EndsAreReal

LEMMA NoMessage ==
  ASSUME NEW id, NEW old, NEW done
  PROVE  /\ << >> \in Seq(Answers)
         /\ \A ops : Without(<< >>, ops)
         /\ AllOwn(<< >>, id, old)
         /\ OwnAfter(<< >>, id, old)
         /\ EndsAreReal(<< >>, done)
         /\ \A s \in Seq(Answers) : s \o << >> = s
BY DEF Without, AllOwn, OwnAfter, EndsAreReal

\* The task aborts a scan.
LEMMA AbortAdded ==
  ASSUME TypeOK, NEW id, UNCHANGED <<toTask, monitorVars>>,
         \/ toMonitor' = toMonitor
         \/ \E m \in Commands : m.op = "ABORT" /\ toMonitor' = Append(toMonitor, m)
  PROVE  /\ Unserved(id) => Unserved(id)'
         /\ Served(id) => Served(id)'
         /\ OwnStreams(id) => OwnStreams(id)'
<1>1. CASE toMonitor' = toMonitor
  BY <1>1, Zenon DEF Unserved, Served, OwnStreams, monitorVars
<1>2. CASE \E m \in Commands : m.op = "ABORT" /\ toMonitor' = Append(toMonitor, m)
  <2>1. PICK m \in Commands : m.op = "ABORT" /\ toMonitor' = Append(toMonitor, m)
    BY <1>2, Zenon
  <2>2. /\ Len(toMonitor') = Len(toMonitor) + 1 /\ Len(toMonitor) \in Nat
        /\ \A i \in 1..Len(toMonitor') : \/ i \in 1..Len(toMonitor) /\ toMonitor'[i] = toMonitor[i]
                                         \/ toMonitor'[i].op = "ABORT"
    BY <2>1 DEF TypeOK
  <2>3. Without(toMonitor, {"TRIGGER", "DUMP"}) => Without(toMonitor', {"TRIGGER", "DUMP"})
    BY <2>2, Zenon DEF Without
  <2>4. Unserved(id) => Unserved(id)'
    BY <2>2, Zenon DEF Unserved, monitorVars
  <2> QED
    BY <2>3, <2>4, Zenon DEF Served, OwnStreams, monitorVars
<1> QED
  BY <1>1, <1>2, Zenon

\* What a step of the monitor or the driver does to the streams.
MonitorKeeps(id) ==
  /\ finished \subseteq finished' /\ unread \subseteq unread'
  /\ EndsAreReal(toTask', finished') /\ EndsAreReal(events', finished')
  /\ Unserved(id) => Unserved(id)' \/ Served(id)'
  /\ Served(id) => Served(id)'
  /\ Served(id) /\ OwnStreams(id) => OwnStreams(id)'

\* The commands that are left when the first of them has been read.
LEMMA CommandRead ==
  ASSUME TypeOK, NEW op, NEW new, Command(op, new), NEW id
  PROVE  /\ Without(toMonitor, {"TRIGGER", "DUMP"}) =>
              op \notin {"TRIGGER", "DUMP"} /\ Without(toMonitor', {"TRIGGER", "DUMP"})
         /\ Unserved(id) => /\ op # "DUMP"
                            /\ op = "TRIGGER" => /\ Head(toMonitor).scan = id
                                                 /\ Without(toMonitor', {"TRIGGER", "DUMP"})
         /\ Unserved(id) =>
              \A i \in 1..Len(toMonitor') :
                toMonitor'[i].op \in {"TRIGGER", "DUMP"} =>
                  /\ toMonitor'[i].op = "TRIGGER" /\ toMonitor'[i].scan = id
                  /\ \A j \in 1..Len(toMonitor') :
                       toMonitor'[j].op \in {"TRIGGER", "DUMP"} => i = j
<1>1. /\ toMonitor \in Seq(Commands) /\ toMonitor # << >> /\ toMonitor' = Tail(toMonitor)
      /\ Head(toMonitor).op = op
  BY Zenon DEF TypeOK, Command
<1>2. /\ Head(toMonitor) = toMonitor[1] /\ 1 \in 1..Len(toMonitor)
      /\ \A i \in 1..Len(toMonitor') : /\ toMonitor'[i] = toMonitor[i + 1]
                                       /\ i + 1 \in 1..Len(toMonitor) /\ i + 1 # 1
  BY <1>1
<1>3. Without(toMonitor, {"TRIGGER", "DUMP"}) =>
        op \notin {"TRIGGER", "DUMP"} /\ Without(toMonitor', {"TRIGGER", "DUMP"})
  BY <1>1, <1>2, Zenon DEF Without
<1>4. ASSUME Unserved(id)
      PROVE  /\ op # "DUMP"
             /\ op = "TRIGGER" => /\ Head(toMonitor).scan = id
                                  /\ Without(toMonitor', {"TRIGGER", "DUMP"})
  BY <1>1, <1>2, <1>4, Zenon DEF Unserved, Without
<1>5. ASSUME Unserved(id), NEW i \in 1..Len(toMonitor'),
             toMonitor'[i].op \in {"TRIGGER", "DUMP"}
      PROVE  /\ toMonitor'[i].op = "TRIGGER" /\ toMonitor'[i].scan = id
             /\ \A j \in 1..Len(toMonitor') : toMonitor'[j].op \in {"TRIGGER", "DUMP"} => i = j
  <2>1. toMonitor[i + 1].op = "TRIGGER" /\ toMonitor[i + 1].scan = id
    BY <1>2, <1>5, Zenon DEF Unserved
  <2>2. ASSUME NEW j \in 1..Len(toMonitor'), toMonitor'[j].op \in {"TRIGGER", "DUMP"}
        PROVE  i = j
    <3>1. i + 1 = j + 1
      BY <1>2, <1>5, <2>2, Zenon DEF Unserved
    <3> QED
      BY <3>1
  <2> QED
    BY <1>2, <2>1, <2>2, Zenon
<1> QED
  BY <1>3, <1>4, <1>5, Zenon

\* A command whose events and answers are neither the beginning nor the end of a scan.
LEMMA HarmlessCommand ==
  ASSUME TypeOK, EndsAreReal(toTask, finished), EndsAreReal(events, finished), NEW id,
         NEW op \in {"TRIGGER", "ABORT"}, NEW new \in Seq(Answers), NEW more \in Seq(Answers),
         Command(op, new), toTask' = toTask \o more,
         \A m \in {"TRIGGER_RESPONSE", "DUMP_RESPONSE", "TRIGGERED", "FINISHED"} \cup Dumps :
           Without(new, {m}) /\ Without(more, {m}),
         m_scan_active' \in {m_scan_active, NoScan},
         UNCHANGED <<finished, unread>>
  PROVE  MonitorKeeps(id)
<1>1. toTask \in Seq(Answers) /\ events \in Seq(Answers) /\ events' = events \o new
  BY Zenon DEF TypeOK, Command
<1>2. /\ AllOwn(new, id, unread) /\ AllOwn(more, id, unread)
      /\ OwnAfter(new, id, unread) /\ OwnAfter(more, id, unread)
      /\ EndsAreReal(new, finished) /\ EndsAreReal(more, finished)
  BY Zenon DEF Without, AllOwn, OwnAfter, EndsAreReal, OwnMessage
<1>3. /\ Without(new, {"TRIGGERED"}) /\ Without(more, {"TRIGGERED"})
      /\ Without(new, {"DUMP_RESPONSE"}) /\ Without(more, {"DUMP_RESPONSE"})
      /\ Without(new, {"TRIGGER_RESPONSE", "DUMP_RESPONSE", "TRIGGERED"})
      /\ Without(more, {"TRIGGER_RESPONSE", "DUMP_RESPONSE", "TRIGGERED"})
  BY Zenon DEF Without
<1>4. /\ EndsAreReal(toTask', finished') /\ EndsAreReal(events', finished')
      /\ OwnStreams(id) => OwnStreams(id)'
  BY <1>1, <1>2, JoinedStreams, Zenon DEF OwnStreams
<1>5. Unserved(id) => Unserved(id)'
  <2> SUFFICES ASSUME Unserved(id)
               PROVE  Unserved(id)'
    BY Zenon
  <2>1. Without(toTask', {"TRIGGER_RESPONSE", "DUMP_RESPONSE", "TRIGGERED"})
    BY <1>1, <1>3, JoinedStreams, Zenon DEF Unserved
  <2>2. Without(events', {"TRIGGER_RESPONSE", "DUMP_RESPONSE", "TRIGGERED"})
    BY <1>1, <1>3, JoinedStreams, Zenon DEF Unserved
  <2>3. \A i \in 1..Len(toMonitor') :
          toMonitor'[i].op \in {"TRIGGER", "DUMP"} =>
            /\ toMonitor'[i].op = "TRIGGER" /\ toMonitor'[i].scan = id
            /\ \A j \in 1..Len(toMonitor') :
                 toMonitor'[j].op \in {"TRIGGER", "DUMP"} => i = j
    BY CommandRead, Zenon
  <2> QED
    BY <2>1, <2>2, <2>3, Zenon DEF Unserved
<1>6. Served(id) => Served(id)'
  <2> SUFFICES ASSUME Served(id)
               PROVE  Served(id)'
    BY Zenon
  <2>1. Without(toMonitor', {"TRIGGER", "DUMP"})
    BY CommandRead, Zenon DEF Served
  <2>2. /\ Without(toTask', {"DUMP_RESPONSE"}) /\ Without(events', {"DUMP_RESPONSE"})
        /\ Without(toTask', {"TRIGGERED"}) \/ AllOwn(events', id, unread)
    BY <1>1, <1>2, <1>3, JoinedStreams, Zenon DEF Served
  <2>3. OwnAfter(toTask', id, unread) /\ OwnAfter(events', id, unread)
    BY <1>1, <1>2, JoinedStreams, Zenon DEF Served
  <2> QED
    BY <2>1, <2>2, <2>3, Zenon DEF Served
<1> QED
  BY <1>4, <1>5, <1>6, Zenon DEF MonitorKeeps

\* The messages of a scan that is done.
LEMMA DoneMessages ==
  ASSUME NEW s \in Ids, NEW results \in {s, NoScan}, NEW spectrum \in Ids \cup {NoScan}, NEW old,
         spectrum \in {s, NoScan} \/ s \in old, NEW done, s \in done
  PROVE  LET new == << Notification("RESULTS_READY", s) >>
                      \o Dump(results, spectrum) \o << Notification("FINISHED", s) >>
         IN  /\ new \in Seq(Answers)
             /\ Without(new, {"TRIGGER_RESPONSE", "DUMP_RESPONSE", "TRIGGERED"})
             /\ AllOwn(new, s, old)
             /\ EndsAreReal(new, done)
<1> DEFINE ready == Notification("RESULTS_READY", s)
           end == Notification("FINISHED", s)
           dump == Dump(results, spectrum)
<1>1. /\ ready \in Answers /\ ready.op = "RESULTS_READY"
      /\ end \in Answers /\ end.op = "FINISHED" /\ end.scan = s
  BY MessageTypes, Zenon DEF Notification
<1>2. /\ dump \in Seq(Answers) /\ Without(dump, {"TRIGGER_RESPONSE", "DUMP_RESPONSE", "TRIGGERED"})
      /\ AllOwn(dump, s, old) /\ EndsAreReal(dump, done)
  <2> DEFINE n == IF results = NoScan THEN << >> ELSE << Notification("NEIGHBOURS", results) >>
             p == IF spectrum = NoScan THEN << >> ELSE << Notification("SPECTRUM", spectrum) >>
  <2>1. /\ n \in Seq(Answers) /\ Without(n, {"TRIGGER_RESPONSE", "DUMP_RESPONSE", "TRIGGERED"})
        /\ AllOwn(n, s, old) /\ EndsAreReal(n, done)
    <3>1. CASE results = NoScan
      BY <3>1, NoMessage, Zenon
    <3>2. CASE results # NoScan
      <4> DEFINE m == Notification("NEIGHBOURS", s)
      <4>1. m \in Answers /\ m.op = "NEIGHBOURS" /\ m.scan = s
        BY MessageTypes, Zenon DEF Dumps, Notification
      <4>2. n = << m >>
        BY <3>2, Zenon
      <4>3. OwnMessage(m, s, old)
        BY <4>1, Zenon DEF OwnMessage
      <4> HIDE DEF m, n
      <4> QED
        BY <4>1, <4>2, <4>3, OneMessage, Zenon
    <3> QED
      BY <3>1, <3>2, Zenon
  <2>2. /\ p \in Seq(Answers) /\ Without(p, {"TRIGGER_RESPONSE", "DUMP_RESPONSE", "TRIGGERED"})
        /\ AllOwn(p, s, old) /\ EndsAreReal(p, done)
    <3>1. CASE spectrum = NoScan
      BY <3>1, NoMessage, Zenon
    <3>2. CASE spectrum # NoScan
      <4> DEFINE m == Notification("SPECTRUM", spectrum)
      <4>1. m \in Answers /\ m.op = "SPECTRUM" /\ m.scan = spectrum
        BY <3>2, MessageTypes, Zenon DEF Dumps, Notification
      <4>2. p = << m >>
        BY <3>2, Zenon
      <4>3. OwnMessage(m, s, old)
        BY <3>2, <4>1, Zenon DEF OwnMessage
      <4> HIDE DEF m, p
      <4> QED
        BY <4>1, <4>2, <4>3, OneMessage, Zenon
    <3> QED
      BY <3>1, <3>2, Zenon
  <2>3. dump = n \o p
    BY Zenon DEF Dump
  <2> HIDE DEF n, p, dump
  <2> QED
    BY <2>1, <2>2, <2>3, JoinedStreams, Zenon
<1>3. /\ << ready >> \in Seq(Answers) /\ Without(<< ready >>, {"TRIGGER_RESPONSE", "DUMP_RESPONSE", "TRIGGERED"})
      /\ AllOwn(<< ready >>, s, old) /\ EndsAreReal(<< ready >>, done)
  <2>1. OwnMessage(ready, s, old)
    BY <1>1, Zenon DEF OwnMessage, Dumps
  <2> HIDE DEF ready
  <2> QED
    BY <1>1, <2>1, OneMessage, Zenon
<1>4. /\ << end >> \in Seq(Answers) /\ Without(<< end >>, {"TRIGGER_RESPONSE", "DUMP_RESPONSE", "TRIGGERED"})
      /\ AllOwn(<< end >>, s, old) /\ EndsAreReal(<< end >>, done)
  <2>1. OwnMessage(end, s, old) /\ end.op \notin {"TRIGGER_RESPONSE", "DUMP_RESPONSE", "TRIGGERED"} /\ end.scan \in done
    BY <1>1, Zenon DEF OwnMessage
  <2> HIDE DEF end
  <2> QED
    BY <1>1, <2>1, OneMessage, Zenon
<1> HIDE DEF ready, end, dump
<1>5. /\ << ready >> \o dump \in Seq(Answers) /\ Without(<< ready >> \o dump, {"TRIGGER_RESPONSE", "DUMP_RESPONSE", "TRIGGERED"})
      /\ AllOwn(<< ready >> \o dump, s, old) /\ EndsAreReal(<< ready >> \o dump, done)
  BY <1>2, <1>3, JoinedStreams, Zenon
<1>6. /\ << ready >> \o dump \o << end >> \in Seq(Answers)
      /\ Without(<< ready >> \o dump \o << end >>, {"TRIGGER_RESPONSE", "DUMP_RESPONSE", "TRIGGERED"})
      /\ AllOwn(<< ready >> \o dump \o << end >>, s, old)
      /\ EndsAreReal(<< ready >> \o dump \o << end >>, done)
  BY <1>4, <1>5, JoinedStreams, Zenon
<1> QED
  BY <1>6, Zenon DEF ready, end, dump

\* The monitor and the driver: a trigger is served with the notification of its own scan,
\* and from then on only that scan can be done.
LEMMA MonitorStep ==
  ASSUME ReportInv, CommandStep \/ EventStep \/ DriverReports, NEW id \in Ids
  PROVE  MonitorKeeps(id)
<1>1. /\ TypeOK /\ EndsAreReal(toTask, finished) /\ EndsAreReal(events, finished)
      /\ toTask \in Seq(Answers) /\ events \in Seq(Answers)
      /\ m_scan_active \in Ids \cup {NoScan} /\ m_spectrum_results \in Ids \cup {NoScan}
  BY Zenon DEF ReportInv, TypeOK
<1>2. CASE RefuseTrigger
  <2>1. /\ Command("TRIGGER", << >>) /\ toTask' = toTask \o << >>
        /\ m_scan_active' = m_scan_active /\ UNCHANGED <<finished, unread>>
    BY <1>1, <1>2, NoMessage, Zenon DEF RefuseTrigger
  <2> QED
    BY <1>1, <2>1, NoMessage, HarmlessCommand, Zenon
<1>3. ASSUME NEW ok \in BOOLEAN, HandleTrigger(ok)
      PROVE  MonitorKeeps(id)
  <2> DEFINE s == Head(toMonitor).scan
             notice == Notification("TRIGGERED", s)
             new == IF ok THEN << notice >> ELSE << >>
             answer == Answer("TRIGGER_RESPONSE", ok, s)
  <2>1. s \in Ids
    BY <1>1, <1>3, HeadTypes, Zenon DEF HandleTrigger, Command, Commands
  <2>2. notice \in Answers /\ notice.op = "TRIGGERED" /\ answer \in Answers
        /\ answer.op = "TRIGGER_RESPONSE"
    BY <2>1, MessageTypes, Zenon DEF Notification, Answer
  <2>3. /\ Command("TRIGGER", new)
        /\ toTask' = Append(toTask, answer)
        /\ m_scan_active' = IF ok THEN s ELSE NoScan
        /\ UNCHANGED <<finished, unread>>
    BY <1>3, Zenon DEF HandleTrigger
  <2>4. /\ OwnMessage(notice, id, unread) /\ OwnMessage(answer, id, unread)
        /\ answer.op \notin {"DUMP_RESPONSE"} /\ answer.op \notin {"TRIGGERED"}
    BY <2>2, Zenon DEF OwnMessage, Dumps
  <2> HIDE DEF s, notice, answer
  <2>5. /\ << answer >> \in Seq(Answers) /\ Without(<< answer >>, {"DUMP_RESPONSE"})
        /\ Without(<< answer >>, {"TRIGGERED"})
        /\ AllOwn(<< answer >>, id, unread) /\ OwnAfter(<< answer >>, id, unread)
        /\ EndsAreReal(<< answer >>, finished)
        /\ toTask' = toTask \o << answer >>
    BY <1>1, <2>2, <2>3, <2>4, OneMessage, Zenon
  <2>6. /\ new \in Seq(Answers) /\ AllOwn(new, id, unread) /\ OwnAfter(new, id, unread)
        /\ EndsAreReal(new, finished) /\ Without(new, {"DUMP_RESPONSE"})
    <3>1. CASE ok
      <4>1. notice.op \notin {"DUMP_RESPONSE"}
        BY <2>2, Zenon
      <4> QED
        BY <2>2, <2>4, <3>1, <4>1, OneMessage, Zenon
    <3>2. CASE ~ok
      BY <3>2, NoMessage, Zenon
    <3> QED
      BY <3>1, <3>2, Zenon
  <2>7. events' = events \o new
    BY <2>3, Zenon DEF Command
  <2> HIDE DEF new
  <2>8. EndsAreReal(toTask', finished') /\ EndsAreReal(events', finished')
    BY <1>1, <2>3, <2>5, <2>6, <2>7, JoinedStreams, Zenon
  <2>9. ~ Served(id)
    BY <1>1, <2>3, CommandRead, Zenon DEF Served
  <2>10. ASSUME Unserved(id)
         PROVE  Served(id)'
    <3>1. s = id /\ Without(toMonitor', {"TRIGGER", "DUMP"})
      BY <1>1, <2>3, <2>10, CommandRead, Zenon DEF s
    <3>2. /\ Without(toTask, {"DUMP_RESPONSE"}) /\ Without(toTask, {"TRIGGERED"})
          /\ Without(events, {"DUMP_RESPONSE"}) /\ Without(events, {"TRIGGERED"})
      BY <2>10, Zenon DEF Unserved, Without
    <3>3. OwnAfter(toTask, id, unread) /\ OwnAfter(events, id, unread)
      BY <3>2, Zenon DEF Without, OwnAfter
    <3>4. /\ Without(toTask', {"DUMP_RESPONSE"}) /\ Without(toTask', {"TRIGGERED"})
          /\ Without(events', {"DUMP_RESPONSE"})
          /\ OwnAfter(toTask', id, unread) /\ OwnAfter(events', id, unread)
      BY <1>1, <2>5, <2>6, <2>7, <3>2, <3>3, JoinedStreams, Zenon
    <3> QED
      BY <2>3, <3>1, <3>4, Zenon DEF Served
  <2> QED
    BY <2>3, <2>8, <2>9, <2>10, Zenon DEF MonitorKeeps
<1>4. ASSUME HandleDump
      PROVE  MonitorKeeps(id)
  <2> DEFINE s == Head(toMonitor).scan
             new == Dump(m_scan_results, m_spectrum_results)
             answer == Answer("DUMP_RESPONSE", TRUE, s)
             ready == Notification("RESULTS_READY", s)
  <2>1. /\ Command("DUMP", new) /\ toTask' = toTask \o << answer, ready >>
        /\ UNCHANGED <<finished, unread>>
    BY <1>4, Zenon DEF HandleDump
  <2>2. ~ Served(id) /\ ~ Unserved(id)
    BY <1>1, <2>1, CommandRead, Zenon DEF Served
  <2>3. s \in Ids
    BY <1>1, <1>4, HeadTypes, Zenon DEF HandleDump, Command, Commands
  <2>4. /\ answer \in Answers /\ answer.op = "DUMP_RESPONSE"
        /\ ready \in Answers /\ ready.op = "RESULTS_READY"
    BY <2>3, MessageTypes, Zenon DEF Notification, Answer
  <2>5. EndsAreReal(toTask', finished)
    <3> HIDE DEF answer, ready
    <3>1. << answer, ready >> \in Seq(Answers) /\ EndsAreReal(<< answer, ready >>, finished)
      BY <2>4 DEF EndsAreReal
    <3> QED
      BY <1>1, <2>1, <3>1, JoinedStreams, Zenon
  <2>6. EndsAreReal(events', finished)
    <3>1. new \in Seq(Answers)
      BY <1>1, DumpTypes, Zenon DEF TypeOK
    <3>2. EndsAreReal(new, finished)
      <4>1. \A i \in 1..Len(new) : new[i].op \in Dumps
        BY DEF Dump, Notification, Dumps
      <4> QED
        BY <4>1, Zenon DEF EndsAreReal, Dumps
    <3>3. events' = events \o new
      BY <2>1, Zenon DEF Command
    <3> HIDE DEF new
    <3> QED
      BY <1>1, <3>1, <3>2, <3>3, JoinedStreams, Zenon
  <2> QED
    BY <2>1, <2>2, <2>5, <2>6, Zenon DEF MonitorKeeps
<1>5. ASSUME NEW ok \in BOOLEAN, HandleAbort(ok)
      PROVE  MonitorKeeps(id)
  <2> DEFINE s == Head(toMonitor).scan
             notice == Notification("ABORTED", m_scan_active)
             new == IF ok /\ m_scan_active # NoScan THEN << notice >> ELSE << >>
             answer == Answer("ABORT_RESPONSE", ok \/ m_scan_active = NoScan, s)
  <2>1. s \in Ids
    BY <1>1, <1>5, HeadTypes, Zenon DEF HandleAbort, Command, Commands
  <2>2. notice \in Answers /\ notice.op = "ABORTED" /\ answer \in Answers
        /\ answer.op = "ABORT_RESPONSE"
    <3>1. (ok \/ m_scan_active = NoScan) \in BOOLEAN
      BY Zenon
    <3> QED
      BY <1>1, <2>1, <3>1, MessageTypes, Zenon DEF Notification, Answer
  <2>3. /\ Command("ABORT", new)
        /\ toTask' = Append(toTask, answer)
        /\ m_scan_active' \in {m_scan_active, NoScan}
        /\ UNCHANGED <<finished, unread>>
    BY <1>5, Zenon DEF HandleAbort
  <2> HIDE DEF s, notice, answer
  <2>4. /\ << answer >> \in Seq(Answers) /\ toTask' = toTask \o << answer >>
        /\ << notice >> \in Seq(Answers)
    BY <1>1, <2>2, <2>3, OneMessage, Zenon
  <2>5. ASSUME NEW m \in {"TRIGGER_RESPONSE", "DUMP_RESPONSE", "TRIGGERED", "FINISHED"} \cup Dumps
        PROVE  Without(<< answer >>, {m}) /\ Without(<< notice >>, {m})
    <3>1. answer.op \notin {m} /\ notice.op \notin {m}
      BY <2>2, Zenon DEF Dumps
    <3> QED
      BY <2>2, <3>1, OneMessage, Zenon
  <2>6. /\ new \in Seq(Answers)
        /\ \A m \in {"TRIGGER_RESPONSE", "DUMP_RESPONSE", "TRIGGERED", "FINISHED"} \cup Dumps :
             Without(new, {m}) /\ Without(<< answer >>, {m})
    BY <2>4, <2>5, NoMessage, Zenon
  <2> HIDE DEF new
  <2> QED
    BY <1>1, <2>3, <2>4, <2>6, HarmlessCommand, Zenon
<1>6. CASE ProcessIntEvents
  <2>1. /\ toTask' = toTask \o events /\ events' = << >>
        /\ UNCHANGED <<toMonitor, m_scan_active, finished, unread>>
    BY <1>6, Zenon DEF ProcessIntEvents
  <2>2. /\ EndsAreReal(toTask', finished) /\ EndsAreReal(events', finished)
        /\ OwnStreams(id) => OwnStreams(id)'
    BY <1>1, <2>1, NoMessage, JoinedStreams, Zenon DEF OwnStreams
  <2>3. Unserved(id) => Unserved(id)'
    <3>1. Unserved(id) => Without(toTask', {"TRIGGER_RESPONSE", "DUMP_RESPONSE", "TRIGGERED"})
      BY <1>1, <2>1, JoinedStreams, Zenon DEF Unserved
    <3>2. Without(events', {"TRIGGER_RESPONSE", "DUMP_RESPONSE", "TRIGGERED"})
      BY <2>1, NoMessage, Zenon
    <3> QED
      BY <2>1, <3>1, <3>2, Zenon DEF Unserved
  <2>4. Served(id) => Served(id)'
    BY <1>1, <2>1, NoMessage, JoinedStreams, Zenon DEF Served
  <2> QED
    BY <2>1, <2>2, <2>3, <2>4, Zenon DEF MonitorKeeps
<1>7. ASSUME NEW read \in {"all", "none", "failed"}, ScanDone(read)
      PROVE  MonitorKeeps(id)
  <2> DEFINE s == m_scan_active
             new == << Notification("RESULTS_READY", s) >>
                      \o Dump(m_scan_results', m_spectrum_results')
                      \o << Notification("FINISHED", s) >>
  <2>1. /\ s \in Ids /\ m_scan_active' = NoScan
        /\ m_scan_results' \in {s, NoScan} /\ m_spectrum_results' \in Ids \cup {NoScan}
    BY <1>1, <1>7, Zenon DEF ScanDone
  <2>2. finished' = finished \cup {s} /\ unread \subseteq unread'
    BY <1>7, Zenon DEF ScanDone
  <2>3. m_spectrum_results' \in {s, NoScan} \/ s \in unread'
    BY <1>7, Zenon DEF ScanDone
  <2>4. events' = events \o new /\ UNCHANGED <<toMonitor, toTask>>
    BY <1>7, Zenon DEF ScanDone, DriverEvents
  <2>5. /\ new \in Seq(Answers) /\ Without(new, {"TRIGGER_RESPONSE", "DUMP_RESPONSE", "TRIGGERED"})
        /\ AllOwn(new, s, unread') /\ EndsAreReal(new, finished')
    BY <2>1, <2>2, <2>3, DoneMessages, Zenon
  <2> HIDE DEF new
  <2>6. EndsAreReal(toTask', finished') /\ EndsAreReal(events', finished')
    BY <1>1, <2>2, <2>4, <2>5, MoreExcused, JoinedStreams, Zenon
  <2>7. Unserved(id) => Unserved(id)'
    BY <1>1, <2>4, <2>5, JoinedStreams, Zenon DEF Unserved
  <2>8. ASSUME Served(id)
        PROVE  Served(id)' /\ (OwnStreams(id) => OwnStreams(id)')
    <3>1. s = id
      BY <2>1, <2>8 DEF Served, NoScan, Ids
    <3>2. /\ OwnAfter(toTask, id, unread') /\ OwnAfter(events, id, unread')
          /\ AllOwn(toTask, id, unread) => AllOwn(toTask, id, unread')
          /\ AllOwn(events, id, unread) => AllOwn(events, id, unread')
      BY <2>2, <2>8, MoreExcused, Zenon DEF Served
    <3>3. AllOwn(new, id, unread') /\ OwnAfter(new, id, unread') /\ Without(new, {"DUMP_RESPONSE"})
      BY <2>5, <3>1, Zenon DEF AllOwn, OwnAfter, Without
    <3>4. /\ OwnAfter(events', id, unread')
          /\ AllOwn(events, id, unread) => AllOwn(events', id, unread')
          /\ Without(events', {"DUMP_RESPONSE"})
      BY <1>1, <2>4, <2>5, <2>8, <3>2, <3>3, JoinedStreams, Zenon DEF Served
    <3> QED
      BY <2>1, <2>4, <2>8, <3>2, <3>4, Zenon DEF Served, OwnStreams
  <2> QED
    BY <2>2, <2>6, <2>7, <2>8, Zenon DEF MonitorKeeps
<1>8. CASE ScanError
  <2> DEFINE notice == Notification("ABORTED", m_scan_active)
  <2>1. notice \in Answers /\ notice.op = "ABORTED"
    BY <1>1, MessageTypes, Zenon DEF Notification
  <2>2. /\ events' = events \o << notice >> /\ m_scan_active' = NoScan
        /\ UNCHANGED <<toMonitor, toTask, finished, unread>>
    BY <1>8, Zenon DEF ScanError, DriverEvents
  <2> HIDE DEF notice
  <2>3. /\ << notice >> \in Seq(Answers) /\ AllOwn(<< notice >>, id, unread)
        /\ OwnAfter(<< notice >>, id, unread) /\ EndsAreReal(<< notice >>, finished)
        /\ Without(<< notice >>, {"TRIGGER_RESPONSE", "DUMP_RESPONSE", "TRIGGERED"})
        /\ Without(<< notice >>, {"DUMP_RESPONSE"})
    <3>1. /\ OwnMessage(notice, id, unread) /\ notice.op # "FINISHED"
          /\ notice.op \notin {"TRIGGER_RESPONSE", "DUMP_RESPONSE", "TRIGGERED"}
          /\ notice.op \notin {"DUMP_RESPONSE"}
      BY <2>1, Zenon DEF OwnMessage, Dumps
    <3> QED
      BY <2>1, <3>1, OneMessage, Zenon
  <2>4. Unserved(id) => Unserved(id)'
    BY <1>1, <2>2, <2>3, JoinedStreams, Zenon DEF Unserved
  <2>5. Served(id) => Served(id)'
    <3> SUFFICES ASSUME Served(id)
                 PROVE  Served(id)'
      BY Zenon
    <3>1. OwnAfter(events', id, unread) /\ Without(events', {"DUMP_RESPONSE"})
          /\ (AllOwn(events, id, unread) => AllOwn(events', id, unread))
      BY <1>1, <2>2, <2>3, JoinedStreams, Zenon DEF Served
    <3> QED
      BY <2>2, <3>1, Zenon DEF Served
  <2>6. /\ OwnStreams(id) => OwnStreams(id)'
        /\ EndsAreReal(toTask', finished') /\ EndsAreReal(events', finished')
    BY <1>1, <2>2, <2>3, JoinedStreams, Zenon DEF OwnStreams
  <2> QED
    BY <2>2, <2>4, <2>5, <2>6, Zenon DEF MonitorKeeps
<1> QED
  BY <1>2, <1>3, <1>4, <1>5, <1>6, <1>7, <1>8, Zenon
     DEF CommandStep, HandleCommand, EventStep, DriverReports, DriverStep

-----------------------------------------------------------------------------

\* What the handlers make of a request has the members they did not assign.
LEMMA MembersKept ==
  ASSUME NEW r \in Requests
  PROVE  /\ \A state : LET s == MoveState(r, state) IN
              /\ s.id = r.id /\ s.dwell = r.dwell /\ s.cached = r.cached /\ s.status = r.status
              /\ s.state = state
         /\ \A status : LET s == WithStatus(r, status) IN
              /\ s.id = r.id /\ s.dwell = r.dwell /\ s.cached = r.cached /\ s.state = r.state
              /\ status # "SUCCESS" => Fruitless(s)
         /\ \A result : LET s == [r EXCEPT !.cached = @ \cup {result}] IN
              /\ s.id = r.id /\ s.dwell = r.dwell /\ s.cached = r.cached \cup {result}
              /\ s.state = r.state
         /\ LET s == [r EXCEPT !.late = TRUE] IN
              /\ s.id = r.id /\ s.dwell = r.dwell /\ s.cached = r.cached /\ s.status = r.status
              /\ s.state = r.state
         /\ LET s == [r EXCEPT !.expired = TRUE] IN
              /\ s.id = r.id /\ s.dwell = r.dwell /\ s.cached = r.cached /\ s.status = r.status
              /\ s.state = r.state
<1>1. PICK cs \in SUBSET AllChannels :
        r \in [id : Ids, dwell : {"zero", "some"}, status : [cs -> eScanStatus],
               state : eState, cached : SUBSET Results, late : BOOLEAN, expired : BOOLEAN]
  BY RequestMembers, Zenon
<1> QED
  BY <1>1, Zenon DEF MoveState, WithStatus, Fruitless

\* The same for what they make of it in several assignments.
LEMMA HandledMembers ==
  ASSUME NEW r \in Requests
  PROVE  /\ LET s == Failed(r) IN
              /\ s.id = r.id /\ s.dwell = r.dwell /\ s.cached = r.cached
              /\ s.state = "SCAN_FAILED" /\ Fruitless(s)
         /\ LET s == MoveState(WithStatus(r, "ABORTED"), "SCAN_ABORTED") IN
              /\ s.id = r.id /\ s.dwell = r.dwell /\ s.cached = r.cached
              /\ s.state = "SCAN_ABORTED" /\ Fruitless(s)
         /\ LET s == WithStatus(MoveState(r, "WAIT_FOR_RESULTS_DUMP"), "SUCCESS") IN
              /\ s.id = r.id /\ s.dwell = r.dwell /\ s.cached = r.cached
              /\ s.state = "WAIT_FOR_RESULTS_DUMP"
         /\ \A result \in Results : LET s == StoreRadioScanResult(r, result) IN
              /\ s.id = r.id /\ s.dwell = r.dwell /\ s.cached = r.cached \cup {result}
              /\ s.state = "WAIT_FOR_RESULTS_DUMP"
<1>1. /\ WithStatus(r, "NOT_COMPLETED") \in Requests
      /\ WithStatus(r, "ABORTED") \in Requests
      /\ MoveState(r, "WAIT_FOR_RESULTS_DUMP") \in Requests
      /\ WithStatus(MoveState(r, "WAIT_FOR_RESULTS_DUMP"), "SUCCESS") \in Requests
  BY RequestsStay, HandledRequests, KnownValues, Zenon
<1>2. ASSUME NEW status \in {"NOT_COMPLETED", "ABORTED"}, NEW state,
             WithStatus(r, status) \in Requests
      PROVE  LET s == MoveState(WithStatus(r, status), state) IN
               /\ s.id = r.id /\ s.dwell = r.dwell /\ s.cached = r.cached
               /\ s.state = state /\ Fruitless(s)
  <2>1. /\ WithStatus(r, status).id = r.id /\ WithStatus(r, status).dwell = r.dwell
        /\ WithStatus(r, status).cached = r.cached /\ Fruitless(WithStatus(r, status))
    BY MembersKept, Zenon
  <2> QED
    BY <1>2, <2>1, MembersKept DEF Fruitless
<1>3. LET s == WithStatus(MoveState(r, "WAIT_FOR_RESULTS_DUMP"), "SUCCESS") IN
        /\ s.id = r.id /\ s.dwell = r.dwell /\ s.cached = r.cached
        /\ s.state = "WAIT_FOR_RESULTS_DUMP"
  <2> DEFINE q == MoveState(r, "WAIT_FOR_RESULTS_DUMP")
  <2>1. /\ q \in Requests /\ q.id = r.id /\ q.dwell = r.dwell /\ q.cached = r.cached
        /\ q.state = "WAIT_FOR_RESULTS_DUMP"
    BY <1>1, MembersKept, Zenon
  <2> HIDE DEF q
  <2>2. LET s == WithStatus(q, "SUCCESS") IN
          s.id = q.id /\ s.dwell = q.dwell /\ s.cached = q.cached /\ s.state = q.state
    BY <2>1, MembersKept, Zenon
  <2> QED
    BY <2>1, <2>2, Zenon DEF q
<1>4. ASSUME NEW result \in Results
      PROVE  LET s == StoreRadioScanResult(r, result) IN
               /\ s.id = r.id /\ s.dwell = r.dwell /\ s.cached = r.cached \cup {result}
               /\ s.state = "WAIT_FOR_RESULTS_DUMP"
  BY <1>1, <1>3, MembersKept DEF StoreRadioScanResult
<1> QED
  BY <1>1, <1>2, <1>3, <1>4, Zenon DEF Failed

\* Streams that go on fitting.
LEMMA StreamsGoOn ==
  ASSUME NEW id, NEW state, StreamsFit(state, id),
         Unserved(id) => Unserved(id)' \/ Served(id)',
         Served(id) => Served(id)',
         Served(id) /\ OwnStreams(id) => OwnStreams(id)'
  PROVE  StreamsFit(state, id)'
BY Zenon DEF StreamsFit, ReadingStates

\* A message of the monitor: the state of the scan and the order of the streams decide
\* whose it is.
LEMMA AnswerReports ==
  ASSUME ReportInv, AnswerStep
  PROVE  ReportInv'
<1>1. TypeOK /\ TypeOK'
  BY AnswerTypes, Zenon DEF ReportInv
<1>2. /\ toTask \in Seq(Answers) /\ toTask # << >> /\ toTask' = Tail(toTask)
      /\ UNCHANGED <<pending, toMonitor, monitorVars, events, finished, unread, hasty>>
  BY <1>1, Zenon DEF AnswerStep, HandleAnswer, HandleTriggerResponse, HandleDumpResponse, HandleTriggered,
         HandleResultsReady, HandleResult, HandleFinished, HandleAborted,
         HandleAbortResponse, Received, TypeOK, monitorVars
<1>3. EndsAreReal(toTask', finished') /\ EndsAreReal(events', finished')
  BY <1>2, ReadStream, Zenon DEF ReportInv
<1>4. SUFFICES ASSUME scan' # NoRequest, scan'.dwell = "some", scan'.id \notin hasty,
                      NEW id \in Ids, id = scan'.id
               PROVE  OwnResults(scan)' /\ StreamsFit(scan.state, id)'
  <2>1. scan' # NoRequest => scan'.id \in Ids
    BY <1>1, RequestMembers DEF TypeOK
  <2> QED
    BY <1>1, <1>2, <1>3, <2>1, Zenon DEF ReportInv, CurrentInv
<1>5. scan # NoRequest => scan \in Requests
  BY <1>1, Zenon DEF TypeOK
<1>6. /\ Unserved(id) => Unserved(id)'
      /\ Served(id) => Served(id)'
      /\ OwnStreams(id) => OwnStreams(id)'
  BY <1>1, <1>2, AnswerRead, Zenon
<1>7. ASSUME NEW op, Received(op)
      PROVE  /\ op = Head(toTask).op
             /\ Unserved(id) => op \notin {"TRIGGER_RESPONSE", "DUMP_RESPONSE", "TRIGGERED"}
             /\ Served(id) => op # "DUMP_RESPONSE"
             /\ Served(id) /\ op = "TRIGGERED" => OwnStreams(id)'
             /\ OwnStreams(id) => OwnMessage(Head(toTask), id, unread)
             /\ op = "FINISHED" => Head(toTask).scan \in finished
  <2>1. op = Head(toTask).op
    BY <1>7, Zenon DEF Received
  <2>2. Unserved(id) => op \notin {"TRIGGER_RESPONSE", "DUMP_RESPONSE", "TRIGGERED"}
    BY <1>2, <2>1, ReadStream, Zenon DEF Unserved
  <2>3. Without(toTask, {"DUMP_RESPONSE"}) => op # "DUMP_RESPONSE"
    <3>1. Without(toTask, {"DUMP_RESPONSE"}) => op \notin {"DUMP_RESPONSE"}
      BY <1>2, <2>1, ReadStream, Zenon
    <3> QED
      BY <3>1, Zenon
  <2>4. Without(toTask, {"TRIGGERED"}) => op # "TRIGGERED"
    <3>1. Without(toTask, {"TRIGGERED"}) => op \notin {"TRIGGERED"}
      BY <1>2, <2>1, ReadStream, Zenon
    <3> QED
      BY <3>1, Zenon
  <2>5. Served(id) /\ op = "TRIGGERED" => OwnStreams(id)'
    BY <1>2, <2>1, <2>4, ReadStream, Zenon DEF Served, OwnStreams
  <2>6. OwnStreams(id) => OwnMessage(Head(toTask), id, unread)
    BY <1>2, ReadStream, Zenon DEF OwnStreams
  <2>7. op = "FINISHED" => Head(toTask).scan \in finished
    BY <1>2, <2>1, ReadStream, Zenon DEF ReportInv
  <2> QED
    BY <2>1, <2>2, <2>3, <2>5, <2>6, <2>7, Zenon DEF Served
<1>8. ASSUME NEW op, Received(op)
      PROVE  scan \in Requests /\ scan.id = id /\ scan.dwell = "some" =>
               OwnResults(scan) /\ StreamsFit(scan.state, id)
  BY <1>1, <1>2, <1>4, NoRequestAssumption, Zenon DEF ReportInv, CurrentInv
<1>9. ASSUME scan' = scan
      PROVE  OwnResults(scan)' /\ StreamsFit(scan.state, id)'
  <2>1. OwnResults(scan) /\ StreamsFit(scan.state, id)
    BY <1>4, <1>9, Zenon DEF ReportInv, CurrentInv
  <2>2. OwnResults(scan)'
    BY <1>2, <1>9, <2>1, Zenon DEF OwnResults, Fruitless
  <2> QED
    BY <1>6, <1>9, <2>1, <2>2, Zenon DEF StreamsFit
\* The members that every handler keeps, and what follows from the state reached.
<1>10. ASSUME NEW op, Received(op), scan \in Requests, scan'.id = scan.id,
              scan'.dwell = scan.dwell, scan'.cached = scan.cached,
              scan'.state \in {"SCAN_FAILED", "SCAN_ABORTED"} => Fruitless(scan)',
              scan'.state \in Ended,
              scan'.state = "SCAN_DONE" => id \in finished
       PROVE  OwnResults(scan)' /\ StreamsFit(scan.state, id)'
  <2>1. OwnResults(scan)
    BY <1>4, <1>8, <1>10, Zenon
  <2> QED
    BY <1>2, <1>4, <1>10, <2>1, Zenon DEF OwnResults, StreamsFit
<1>11. CASE HandleTriggerResponse
  <2>1. Received("TRIGGER_RESPONSE")
    BY <1>11, Zenon DEF HandleTriggerResponse
  <2>2. CASE ~InState("PENDING_TRIGGER")
    BY <1>9, <1>11, <2>2, Zenon DEF HandleTriggerResponse
  <2>3. CASE InState("PENDING_TRIGGER") /\ ~Head(toTask).success
    <3>1. scan \in Requests /\ scan' = Failed(scan)
      BY <1>5, <1>11, <2>3, Zenon DEF HandleTriggerResponse, InState
    <3> QED
      BY <1>10, <2>1, <3>1, HandledMembers, Zenon DEF Ended
  <2>4. CASE InState("PENDING_TRIGGER") /\ Head(toTask).success
    <3>1. scan \in Requests /\ scan' = MoveState(scan, "WAIT_FOR_SCAN_TRIGGERED")
          /\ scan.state = "PENDING_TRIGGER"
      BY <1>5, <1>11, <2>4, Zenon DEF HandleTriggerResponse, InState
    <3>2. /\ scan'.id = scan.id /\ scan'.dwell = scan.dwell /\ scan'.cached = scan.cached
          /\ scan'.state = "WAIT_FOR_SCAN_TRIGGERED"
      BY <3>1, MembersKept, Zenon
    <3>3. OwnResults(scan) /\ Served(id)
      BY <1>4, <1>7, <1>8, <2>1, <3>1, <3>2, Zenon DEF StreamsFit, Ended
    <3> QED
      BY <1>2, <1>4, <1>6, <3>2, <3>3, Zenon DEF OwnResults, StreamsFit, ReadingStates
  <2> QED
    BY <2>2, <2>3, <2>4, Zenon
<1>12. CASE HandleDumpResponse
  <2>1. Received("DUMP_RESPONSE")
    BY <1>12, Zenon DEF HandleDumpResponse
  <2>2. CASE ~InState("PENDING_TRIGGER")
    BY <1>9, <1>12, <2>2, Zenon DEF HandleDumpResponse
  <2>3. CASE InState("PENDING_TRIGGER")
    <3>1. /\ scan \in Requests /\ scan.state = "PENDING_TRIGGER"
          /\ scan' = Failed(scan) \/ scan' = MoveState(scan, "WAIT_FOR_RESULTS_READY")
      BY <1>5, <1>12, <2>3, Zenon DEF HandleDumpResponse, InState
    <3>2. scan'.id = scan.id /\ scan'.dwell = scan.dwell
      BY <3>1, MembersKept, HandledMembers
    <3>3. FALSE
      BY <1>4, <1>7, <1>8, <2>1, <3>1, <3>2, Zenon DEF StreamsFit, Ended
    <3> QED
      BY <3>3, Zenon
  <2> QED
    BY <2>2, <2>3, Zenon
<1>13. CASE HandleTriggered
  <2>1. Received("TRIGGERED")
    BY <1>13, Zenon DEF HandleTriggered
  <2>2. CASE ~InState("WAIT_FOR_SCAN_TRIGGERED")
    BY <1>9, <1>13, <2>2, Zenon DEF HandleTriggered
  <2>3. CASE InState("WAIT_FOR_SCAN_TRIGGERED")
    <3>1. scan \in Requests /\ scan' = MoveState(scan, "WAIT_FOR_RESULTS_READY")
          /\ scan.state = "WAIT_FOR_SCAN_TRIGGERED"
      BY <1>5, <1>13, <2>3, Zenon DEF HandleTriggered, InState
    <3>2. /\ scan'.id = scan.id /\ scan'.dwell = scan.dwell /\ scan'.cached = scan.cached
          /\ scan'.state = "WAIT_FOR_RESULTS_READY"
      BY <3>1, MembersKept, Zenon
    <3>3. OwnResults(scan) /\ Served(id)
      BY <1>4, <1>8, <2>1, <3>1, <3>2, Zenon DEF StreamsFit, Ended
    <3>4. Served(id)' /\ OwnStreams(id)'
      BY <1>6, <1>7, <2>1, <3>3, Zenon
    <3> QED
      BY <1>2, <1>4, <3>2, <3>3, <3>4, Zenon DEF OwnResults, StreamsFit
  <2> QED
    BY <2>2, <2>3, Zenon
<1>14. CASE HandleResultsReady
  <2>1. Received("RESULTS_READY")
    BY <1>14, Zenon DEF HandleResultsReady
  <2>2. CASE ~InState("WAIT_FOR_RESULTS_READY")
    BY <1>9, <1>14, <2>2, Zenon DEF HandleResultsReady
  <2>3. CASE InState("WAIT_FOR_RESULTS_READY")
    <3>1. /\ scan \in Requests /\ scan.state = "WAIT_FOR_RESULTS_READY"
          /\ scan' = WithStatus(MoveState(scan, "WAIT_FOR_RESULTS_DUMP"), "SUCCESS")
      BY <1>5, <1>14, <2>3, Zenon DEF HandleResultsReady, InState
    <3>2. /\ scan'.id = scan.id /\ scan'.dwell = scan.dwell /\ scan'.cached = scan.cached
          /\ scan'.state = "WAIT_FOR_RESULTS_DUMP"
      BY <3>1, HandledMembers, Zenon
    <3>3. OwnResults(scan) /\ Served(id) /\ OwnStreams(id)
      BY <1>4, <1>8, <2>1, <3>1, <3>2, Zenon DEF StreamsFit, Ended, ReadingStates
    <3> QED
      BY <1>2, <1>4, <1>6, <3>2, <3>3, Zenon DEF OwnResults, StreamsFit
  <2> QED
    BY <2>2, <2>3, Zenon
<1>15. CASE HandleResult
  <2>1. PICK op \in Dumps : Received(op)
    BY <1>15, Zenon DEF HandleResult
  <2>2. CASE ~InState("WAIT_FOR_RESULTS_DUMP")
    BY <1>9, <1>15, <2>2, Zenon DEF HandleResult
  <2>3. CASE InState("WAIT_FOR_RESULTS_DUMP")
    <3>1. /\ scan \in Requests /\ scan.state = "WAIT_FOR_RESULTS_DUMP"
          /\ scan' = StoreRadioScanResult(scan, Head(toTask))
      BY <1>5, <1>15, <2>3, Zenon DEF HandleResult, InState
    <3>2. Head(toTask) \in Results /\ Head(toTask).op \in Dumps
      <4>1. Head(toTask) \in Answers /\ Head(toTask).op = op
        BY <1>1, <1>2, <2>1, HeadTypes, Zenon DEF Received
      <4> QED
        BY <4>1, Zenon DEF Answers, Dumps, Results
    <3>3. /\ scan'.id = scan.id /\ scan'.dwell = scan.dwell
          /\ scan'.cached = scan.cached \cup {Head(toTask)}
          /\ scan'.state = "WAIT_FOR_RESULTS_DUMP"
      BY <3>1, <3>2, HandledMembers, Zenon
    <3>4. OwnResults(scan) /\ Served(id) /\ OwnStreams(id)
      BY <1>4, <1>8, <2>1, <3>1, <3>3, Zenon DEF StreamsFit, Ended, ReadingStates
    <3>5. \/ Head(toTask).scan = id
          \/ Head(toTask).op = "SPECTRUM" /\ id \in unread
      BY <1>7, <2>1, <3>2, <3>4, Zenon DEF OwnMessage
    <3>6. OwnResults(scan)'
      BY <1>2, <1>4, <3>3, <3>4, <3>5, Zenon DEF OwnResults
    <3> QED
      BY <1>6, <3>3, <3>4, <3>6, Zenon DEF StreamsFit
  <2> QED
    BY <2>2, <2>3, Zenon
<1>16. CASE HandleFinished
  <2>1. Received("FINISHED")
    BY <1>16, Zenon DEF HandleFinished
  <2>2. CASE ~InState("WAIT_FOR_RESULTS_DUMP")
    BY <1>9, <1>16, <2>2, Zenon DEF HandleFinished
  <2>3. CASE InState("WAIT_FOR_RESULTS_DUMP")
    <3>1. /\ scan \in Requests /\ scan.state = "WAIT_FOR_RESULTS_DUMP"
          /\ scan' = MoveState(scan, "SCAN_DONE")
      BY <1>5, <1>16, <2>3, Zenon DEF HandleFinished, InState
    <3>2. /\ scan'.id = scan.id /\ scan'.dwell = scan.dwell /\ scan'.cached = scan.cached
          /\ scan'.state = "SCAN_DONE"
      BY <3>1, MembersKept
    <3>3. OwnStreams(id)
      BY <1>4, <1>8, <2>1, <3>1, <3>2, Zenon DEF StreamsFit, Ended, ReadingStates
    <3>4. Head(toTask).op = "FINISHED" /\ Head(toTask).scan \in finished
          /\ OwnMessage(Head(toTask), id, unread)
      BY <1>7, <2>1, <3>3, Zenon
    <3>5. id \in finished
      BY <3>4, Zenon DEF OwnMessage
    <3> QED
      BY <1>10, <2>1, <3>1, <3>2, <3>5, Zenon DEF Ended
  <2> QED
    BY <2>2, <2>3, Zenon
<1>17. CASE HandleAborted
  <2>1. Received("ABORTED")
    BY <1>17, Zenon DEF HandleAborted
  <2>2. CASE ~(running /\ scan # NoRequest)
    BY <1>9, <1>17, <2>2, Zenon DEF HandleAborted
  <2>3. CASE running /\ scan # NoRequest
    <3>1. scan \in Requests /\ scan' = MoveState(WithStatus(scan, "ABORTED"), "SCAN_ABORTED")
      BY <1>5, <1>17, <2>3, Zenon DEF HandleAborted
    <3> QED
      BY <1>10, <2>1, <3>1, HandledMembers, Zenon DEF Ended
  <2> QED
    BY <2>2, <2>3, Zenon
<1>18. CASE HandleAbortResponse
  BY <1>9, <1>18, Zenon DEF HandleAbortResponse
<1> QED
  BY <1>11, <1>12, <1>13, <1>14, <1>15, <1>16, <1>17, <1>18, Zenon DEF AnswerStep, HandleAnswer

\* A step that sends no more than an abort and leaves the scan alone, or makes it fail.
LEMMA QuietStep ==
  ASSUME ReportInv, TypeOK', UNCHANGED <<toTask, monitorVars>>, hasty \subseteq hasty',
         \/ toMonitor' = toMonitor
         \/ \E m \in Commands : m.op = "ABORT" /\ toMonitor' = Append(toMonitor, m),
         \/ scan' = NoRequest \/ scan' = scan
         \/ /\ scan # NoRequest /\ scan'.id = scan.id /\ scan'.dwell = scan.dwell
            /\ scan'.cached = scan.cached
            /\ \/ scan'.state = scan.state /\ scan'.status = scan.status
               \/ scan'.state = "SCAN_FAILED" /\ Fruitless(scan)',
         pending' # NoRequest => /\ pending'.state \in {"PENDING_TRIGGER", "SCAN_IGNORED"}
                                 /\ pending'.cached = {}
  PROVE  ReportInv'
<1>1. EndsAreReal(toTask', finished') /\ EndsAreReal(events', finished')
  BY Zenon DEF ReportInv, monitorVars
<1>2. SUFFICES ASSUME scan' # NoRequest, scan'.dwell = "some", scan'.id \notin hasty',
                      NEW id \in Ids, id = scan'.id
               PROVE  OwnResults(scan)' /\ StreamsFit(scan.state, id)'
  <2>1. scan' # NoRequest => scan'.id \in Ids
    BY RequestMembers DEF TypeOK
  <2> QED
    BY <1>1, <2>1, Zenon DEF ReportInv, CurrentInv
<1>3. /\ Unserved(id) => Unserved(id)'
      /\ Served(id) => Served(id)'
      /\ OwnStreams(id) => OwnStreams(id)'
  BY AbortAdded, Zenon DEF ReportInv
<1>4. OwnResults(scan) /\ StreamsFit(scan.state, id) /\ scan.id = id
  BY <1>2, Zenon DEF ReportInv, CurrentInv
<1>5. UNCHANGED <<unread, finished>>
  BY Zenon DEF monitorVars
<1>6. OwnResults(scan)'
  BY <1>2, <1>4, <1>5, Zenon DEF OwnResults, Fruitless
<1>7. scan'.state = scan.state \/ scan'.state = "SCAN_FAILED"
  BY <1>2, Zenon
<1> QED
  BY <1>3, <1>4, <1>6, <1>7, Zenon DEF StreamsFit, Ended

\* Nothing of the beginning of another scan is on its way when the next one is triggered.
LEMMA CleanStart ==
  ASSUME TypeOK, ~BeginningUnread, NEW id,
         toMonitor' = Append(toMonitor, [op |-> "TRIGGER", scan |-> id]),
         UNCHANGED <<toTask, events>>
  PROVE  Unserved(id)'
<1>1. toMonitor \in Seq(Commands) /\ toTask \in Seq(Answers) /\ events \in Seq(Answers)
  BY Zenon DEF TypeOK
<1> DEFINE begins == {"TRIGGER", "DUMP", "TRIGGER_RESPONSE", "DUMP_RESPONSE", "TRIGGERED"}
<1>2. /\ \A i \in 1..Len(toMonitor) : toMonitor[i].op \notin begins
      /\ \A i \in 1..Len(toTask) : toTask[i].op \notin begins
      /\ \A i \in 1..Len(events) : events[i].op \notin begins
  BY <1>1 DEF BeginningUnread, Range
<1>3. /\ Len(toMonitor') = Len(toMonitor) + 1 /\ Len(toMonitor) \in Nat
      /\ \A i \in 1..Len(toMonitor') :
           \/ i \in 1..Len(toMonitor) /\ toMonitor'[i] = toMonitor[i]
           \/ i = Len(toMonitor) + 1 /\ toMonitor'[i] = [op |-> "TRIGGER", scan |-> id]
  BY <1>1, SMTT(30)
<1> QED
  BY <1>2, <1>3 DEF Unserved, Without

\* work()
LEMMA WorkReports ==
  ASSUME ReportInv, WorkStep
  PROVE  ReportInv'
<1>1. TypeOK /\ TypeOK' /\ UNCHANGED monitorVars
  BY WorkTypes, Zenon DEF ReportInv, WorkStep
<1>2. /\ scan # NoRequest => scan \in Requests /\ AbortCommand \in Commands
      /\ pending # NoRequest => pending \in Requests /\ pending.id \in Ids
  <2>1. scan \in Requests \cup {NoRequest} /\ pending \in Requests \cup {NoRequest}
    BY <1>1, Zenon DEF TypeOK
  <2> QED BY <2>1, RequestId, Zenon DEF AbortCommand, Commands
<1>3. hasty \subseteq hasty' /\ (pending' # pending /\ BeginningUnread => pending.id \in hasty')
  BY Zenon DEF WorkStep
<1>4. ASSUME NEW sent \in BOOLEAN, AbortExpired(sent), scan # NoRequest
      PROVE  \/ toMonitor' = toMonitor
             \/ \E m \in Commands : m.op = "ABORT" /\ toMonitor' = Append(toMonitor, m)
  BY <1>2, <1>4, Zenon DEF AbortExpired, AbortCommand
<1>5. ASSUME NEW sent \in BOOLEAN, WorkOnScan(sent)
      PROVE  ReportInv'
  <2>1. /\ scan # NoRequest /\ AbortExpired(sent) /\ UNCHANGED <<toTask, pending>>
        /\ scan' = scan \/ scan' = Failed(scan)
    BY <1>5, Zenon DEF WorkOnScan
  <2>2. \/ scan' = scan
        \/ /\ scan'.id = scan.id /\ scan'.dwell = scan.dwell /\ scan'.cached = scan.cached
           /\ scan'.state = "SCAN_FAILED" /\ Fruitless(scan)'
    BY <1>2, <2>1, HandledMembers, Zenon
  <2> QED
    BY <1>1, <1>3, <1>4, <2>1, <2>2, QuietStep, Zenon DEF ReportInv
<1>6. ASSUME NEW sent \in BOOLEAN, WorkOnEndedScan(sent)
      PROVE  ReportInv'
  <2>1. /\ scan # NoRequest /\ AbortExpired(sent) /\ UNCHANGED <<toTask, pending>>
        /\ scan' = scan \/ scan' = NoRequest
    BY <1>6, Zenon DEF WorkOnEndedScan
  <2> QED
    BY <1>1, <1>3, <1>4, <2>1, QuietStep, Zenon DEF ReportInv
<1>7. ASSUME WorkOnNull
      PROVE  ReportInv'
  <2>1. UNCHANGED <<toTask, toMonitor, pending, scan>>
    BY <1>7, Zenon DEF WorkOnNull, messageVars
  <2> QED
    BY <1>1, <1>3, <2>1, QuietStep, Zenon DEF ReportInv
<1>8. ASSUME NEW sent \in BOOLEAN, TriggerNextRadioScan(sent)
      PROVE  ReportInv'
  <2>1. /\ pending # NoRequest /\ pending' = NoRequest /\ UNCHANGED toTask
        /\ pending \in Requests
    BY <1>2, <1>8, Zenon DEF TriggerNextRadioScan
  <2>2. CASE ~sent
    <3>1. UNCHANGED <<toMonitor, scan>>
      BY <1>8, <2>2, Zenon DEF TriggerNextRadioScan
    <3> QED
      BY <1>1, <1>3, <2>1, <3>1, QuietStep, Zenon
  <2>3. CASE sent
    <3>1. EndsAreReal(toTask', finished') /\ EndsAreReal(events', finished')
      BY <1>1, <2>1, Zenon DEF ReportInv, monitorVars
    <3> DEFINE nothing == /\ pending.dwell = "some"
                          /\ \A c \in DOMAIN pending.status : pending.status[c] = "NOT_SUPPORTED"
    <3>2. CASE nothing
      <4>1. scan' = MoveState(pending, "SCAN_DONE")
        BY <1>8, <2>3, <3>2, Zenon DEF TriggerNextRadioScan
      <4>2. /\ scan'.cached = {} /\ scan'.status = pending.status
            /\ scan'.state = "SCAN_DONE"
        BY <2>1, <4>1, MembersKept, Zenon DEF ReportInv
      <4>3. OwnResults(scan)' /\ StreamsFit(scan.state, scan.id)'
        BY <3>2, <4>2, Zenon DEF OwnResults, Fruitless, StreamsFit, Ended
      <4> QED
        BY <1>1, <2>1, <3>1, <4>3, Zenon DEF ReportInv, CurrentInv
    <3>3. CASE ~nothing /\ pending.dwell = "zero"
      <4>1. scan' = pending
        BY <1>8, <2>3, <3>3, Zenon DEF TriggerNextRadioScan
      <4> QED
        BY <1>1, <2>1, <3>1, <3>3, <4>1, Zenon DEF ReportInv, CurrentInv
    <3>4. CASE ~nothing /\ pending.dwell # "zero"
      <4>1. /\ scan' = pending
            /\ toMonitor' = Append(toMonitor, [op |-> "TRIGGER", scan |-> pending.id])
        BY <1>8, <2>3, <3>4, Zenon DEF TriggerNextRadioScan
      <4>2. OwnResults(scan)'
        BY <2>1, <4>1, Zenon DEF ReportInv, OwnResults
      <4>3. ASSUME scan'.id \notin hasty', NEW id \in Ids, id = scan'.id
            PROVE  StreamsFit(scan.state, id)'
        <5>1. ~BeginningUnread
          BY <1>3, <2>1, <4>1, <4>3, Zenon
        <5>2. Unserved(id)'
          BY <1>1, <2>1, <4>1, <4>3, <5>1, CleanStart, Zenon DEF monitorVars
        <5>3. scan'.state \in {"PENDING_TRIGGER", "SCAN_IGNORED"}
          BY <2>1, <4>1, Zenon DEF ReportInv
        <5> QED
          BY <5>2, <5>3, Zenon DEF StreamsFit, Ended
      <4> QED
        BY <1>1, <1>2, <2>1, <3>1, <4>1, <4>2, <4>3, Zenon DEF ReportInv, CurrentInv
    <3> QED
      BY <3>2, <3>3, <3>4, Zenon
  <2> QED
    BY <2>2, <2>3, Zenon
<1> QED
  BY <1>5, <1>6, <1>7, <1>8, Zenon DEF WorkStep, Work

\* Requests: what waits has not been answered.
LEMMA ControllerReports ==
  ASSUME ReportInv, ControllerStep
  PROVE  ReportInv'
<1>1. TypeOK /\ TypeOK' /\ UNCHANGED <<monitorVars, hasty>>
  BY ControllerTypes, Zenon DEF ReportInv, ControllerStep
<1>2. scan # NoRequest => AbortCommand \in Commands /\ AbortCommand.op = "ABORT"
  <2>1. scan \in Requests \cup {NoRequest} /\ pending \in Requests \cup {NoRequest}
    BY <1>1, Zenon DEF TypeOK
  <2> QED BY <2>1, RequestId, Zenon DEF AbortCommand, Commands
<1>3. \A id, dwell, cs : LET r == NewRequest(id, dwell, cs) IN
        /\ r.state = "PENDING_TRIGGER" /\ r.cached = {}
        /\ LET q == MoveState(r, "SCAN_IGNORED") IN q.state = "SCAN_IGNORED" /\ q.cached = {}
  BY Zenon DEF NewRequest, MoveState
<1>4. ASSUME NEW dwell, NEW cs, NEW sent, HandleFreshRequest(dwell, cs, sent)
      PROVE  ReportInv'
  <2>1. scan' = scan /\ UNCHANGED toTask
    BY <1>4, Zenon DEF HandleFreshRequest
  <2>2. \/ toMonitor' = toMonitor
        \/ \E m \in Commands : m.op = "ABORT" /\ toMonitor' = Append(toMonitor, m)
    BY <1>2, <1>4, Zenon DEF HandleFreshRequest
  <2>3. pending' # NoRequest => /\ pending'.state \in {"PENDING_TRIGGER", "SCAN_IGNORED"}
                                /\ pending'.cached = {}
    <3>1. \/ pending' = pending
          \/ \E id : \/ pending' = NewRequest(id, dwell, cs)
                     \/ pending' = MoveState(NewRequest(id, dwell, cs), "SCAN_IGNORED")
      BY <1>4, Zenon DEF HandleFreshRequest, Enqueue
    <3> QED
      BY <1>3, <3>1, Zenon DEF ReportInv
  <2> QED
    BY <1>1, <2>1, <2>2, <2>3, QuietStep, Zenon
<1>5. CASE HandleOnBootScan
  <2>1. UNCHANGED <<scan, toTask, toMonitor>>
    BY <1>5, Zenon DEF HandleOnBootScan, messageVars
  <2>2. /\ pending'.state \in {"PENDING_TRIGGER", "SCAN_IGNORED"} /\ pending'.cached = {}
    BY <1>3, <1>5, Zenon DEF HandleOnBootScan, Enqueue
  <2> QED
    BY <1>1, <2>1, <2>2, QuietStep, Zenon
<1>6. CASE HandleOnBootFetch \/ HandleBackhaulEnable
  <2>1. scan' \in {scan, NoRequest} /\ UNCHANGED <<toTask, toMonitor, pending>>
    BY <1>6, Zenon DEF HandleOnBootFetch, HandleBackhaulEnable, messageVars
  <2> QED
    BY <1>1, <2>1, QuietStep, Zenon DEF ReportInv
<1> QED
  BY <1>4, <1>5, <1>6, Zenon DEF ControllerStep

\* Time
LEMMA ClockReports ==
  ASSUME ReportInv, Clock
  PROVE  ReportInv'
<1>1. TypeOK /\ TypeOK' /\ UNCHANGED <<monitorVars, hasty, toTask, toMonitor, pending>>
  BY ClockTypes, Zenon DEF ReportInv, Clock, messageVars
<1>2. \/ scan' = scan
      \/ scan \in Requests /\ scan' = [scan EXCEPT !.late = TRUE]
      \/ scan \in Requests /\ scan' = [scan EXCEPT !.expired = TRUE]
  BY <1>1, Zenon DEF Clock, ElapseInterval, ElapseState, ElapseRequest, Waiting, TypeOK
<1>3. \/ scan' = scan
      \/ /\ scan # NoRequest /\ scan'.id = scan.id /\ scan'.dwell = scan.dwell
         /\ scan'.cached = scan.cached /\ scan'.state = scan.state /\ scan'.status = scan.status
  BY <1>2, MembersKept, NoRequestAssumption, Zenon
<1> QED
  BY <1>1, <1>3, QuietStep, Zenon DEF ReportInv

\* The monitor and the driver.
LEMMA MonitorReports ==
  ASSUME ReportInv, CommandStep \/ EventStep \/ DriverReports
  PROVE  ReportInv'
<1>1. TypeOK /\ TypeOK' /\ UNCHANGED <<scan, pending, hasty>>
  BY MonitorTypes, Zenon DEF ReportInv, CommandStep, EventStep, DriverReports, taskVars
<1>2. 1 \in Ids
  BY ScanBoundsAssumption DEF Ids
<1>3. EndsAreReal(toTask', finished') /\ EndsAreReal(events', finished')
      /\ finished \subseteq finished' /\ unread \subseteq unread'
  BY <1>2, MonitorStep, Zenon DEF MonitorKeeps
<1>4. SUFFICES ASSUME scan # NoRequest, scan.dwell = "some", scan.id \notin hasty,
                      NEW id \in Ids, id = scan.id, NEW state, state = scan.state
               PROVE  OwnResults(scan)' /\ StreamsFit(state, id)'
  <2>1. scan # NoRequest => scan.id \in Ids
    BY <1>1, RequestMembers, SMTT(30) DEF TypeOK
  <2> QED
    BY <1>1, <1>3, <2>1, Zenon DEF ReportInv, CurrentInv
<1>5. OwnResults(scan) /\ StreamsFit(state, id)
  BY <1>4, Zenon DEF ReportInv, CurrentInv
<1>6. OwnResults(scan)'
  BY <1>1, <1>3, <1>5, Zenon DEF OwnResults, Fruitless
<1>7. MonitorKeeps(id)
  BY MonitorStep, Zenon
<1> QED
  BY <1>5, <1>6, <1>7, StreamsGoOn, Zenon DEF MonitorKeeps

\* Every step keeps the invariant.
LEMMA StepReports ==
  ASSUME ReportInv, [Next]_vars
  PROVE  ReportInv'
<1>1. CASE UNCHANGED vars
  <2>1. /\ UNCHANGED <<toTask, toMonitor, scan, pending, monitorVars, hasty>> /\ TypeOK'
    BY <1>1, StepTypes, Zenon DEF vars, messageVars, taskVars, ReportInv
  <2> QED
    BY <2>1, QuietStep, Zenon DEF ReportInv
<1> QED
  BY <1>1, ControllerReports, WorkReports, AnswerReports, MonitorReports, ClockReports, Zenon DEF Next

\* The invariant of the reports holds in every reachable state: the messages on their way
\* fit the state in which the task waits for them, although none of them names its scan.
THEOREM ReportInvariance == Spec => []ReportInv
<1>1. Init /\ TypeOK => ReportInv
  <2>1. Init => toTask = << >> /\ events = << >> /\ scan = NoRequest /\ pending = NoRequest
    BY Zenon DEF Init, MessagesInit, TaskInit, MonitorInit
  <2> QED
    BY <2>1 DEF ReportInv, EndsAreReal, CurrentInv
<1>2. ReportInv /\ [Next]_vars => ReportInv'
  BY StepReports, Zenon
<1> QED
  BY <1>1, <1>2, ScanTypeCorrect, PTL DEF Spec

\* Only work() reports, and what it reports on is the current scan, which has ended.
LEMMA WhoReports ==
  ASSUME TypeOK, [Next]_vars, NEW id \in Ids, ReportsOn(id)
  PROVE  /\ scan \in Requests /\ scan.id = id /\ scan.dwell = "some" /\ scan.state \in Ended
         /\ channel_scan_results' =
              IF scan.state = "SCAN_DONE" THEN Synced(scan) ELSE channel_scan_results
<1>1. /\ fate \in [Ids -> Fates] /\ fate[id] # "reported" /\ fate'[id] = "reported"
      /\ scan.dwell = "some" /\ scan \in Requests \cup {NoRequest}
  BY Zenon DEF TypeOK, ReportsOn
<1>2. ASSUME fate' = fate
      PROVE  FALSE
  BY <1>1, <1>2, Zenon
<1>3. ASSUME NEW r, Enqueue(r)
      PROVE  FALSE
  BY <1>1, <1>3, Zenon DEF Enqueue
<1>4. ASSUME NEW i, NEW f \in {"dropped", "silent"}, fate' = [fate EXCEPT ![i] = f]
      PROVE  FALSE
  BY <1>1, <1>4, Zenon
<1>5. CASE ControllerStep
  BY <1>2, <1>3, <1>4, <1>5, Zenon
     DEF ControllerStep, HandleFreshRequest, HandleOnBootScan, HandleOnBootFetch,
         HandleBackhaulEnable
<1>6. CASE AnswerStep
  BY <1>2, <1>6, Zenon
     DEF AnswerStep, HandleAnswer, HandleTriggerResponse, HandleDumpResponse, HandleTriggered,
         HandleResultsReady, HandleResult, HandleFinished, HandleAborted,
         HandleAbortResponse, Received
<1>7. CASE CommandStep \/ EventStep \/ DriverReports \/ Clock \/ UNCHANGED vars
  BY <1>2, <1>7, Zenon DEF CommandStep, EventStep, DriverReports, Clock, vars, taskVars
<1>8. CASE WorkStep
  <2>1. ASSUME NEW sent \in BOOLEAN, TriggerNextRadioScan(sent)
        PROVE  FALSE
    BY <1>2, <1>4, <2>1, Zenon DEF TriggerNextRadioScan
  <2>2. CASE WorkOnNull \/ \E sent \in BOOLEAN : WorkOnScan(sent)
    BY <1>2, <2>2, Zenon DEF WorkOnNull, WorkOnScan
  <2>3. ASSUME NEW sent \in BOOLEAN, WorkOnEndedScan(sent)
        PROVE  /\ scan \in Requests /\ scan.id = id /\ scan.state \in Ended
               /\ channel_scan_results' =
                    IF scan.state = "SCAN_DONE" THEN Synced(scan) ELSE channel_scan_results
    BY <1>1, <1>2, <2>3, Zenon DEF WorkOnEndedScan
  <2> QED
    BY <1>1, <1>8, <2>1, <2>2, <2>3, Zenon DEF WorkStep, Work
<1> QED
  BY <1>5, <1>6, <1>7, <1>8, Zenon DEF Next

\* The report on a fresh scan is about that scan (ReportsAreOwn), for any number of requests:
\* work() says SUCCESS only of a scan that the monitor finished, and sends no results of another.
THEOREM ReportsAreOwnHolds == Spec => ReportsAreOwn
<1>1. ASSUME ReportInv, [Next]_vars, NEW id \in Ids \ hasty, ReportsOn(id),
             NEW c \in DOMAIN SentReport
      PROVE  /\ SentReport[c].status = "SUCCESS" => id \in finished
             /\ \A r \in SentReport[c].from :
                  r.scan = id \/ (r.op = "SPECTRUM" /\ id \in unread)
  <2>1. /\ scan \in Requests /\ scan.id = id /\ scan.dwell = "some" /\ scan.state \in Ended
        /\ channel_scan_results' =
             IF scan.state = "SCAN_DONE" THEN Synced(scan) ELSE channel_scan_results
    BY <1>1, WhoReports, Zenon DEF ReportInv
  <2>2. OwnResults(scan)
    BY <1>1, <2>1, NoRequestAssumption, Zenon DEF ReportInv, CurrentInv
  <2> DEFINE r == Reported(scan)
  <2>3. /\ c \in DOMAIN r.status
        /\ SentReport[c].status = r.status[c]
        /\ SentReport[c].from = IF r.status[c] = "SUCCESS" /\ c \in DOMAIN channel_scan_results'
                                THEN channel_scan_results'[c].from ELSE {}
    BY <1>1, Zenon DEF SentReport, ReportOf, Included
  <2>4. CASE r.status[c] # "SUCCESS"
    BY <2>3, <2>4, Zenon
  <2>5. CASE r.status[c] = "SUCCESS"
    <3>1. scan.state # "SCAN_IGNORED" /\ r = scan
      <4>1. scan.state = "SCAN_IGNORED" => Fruitless(r)
        BY <2>1, MembersKept, Zenon DEF Reported
      <4> QED
        BY <2>3, <2>5, <4>1, Zenon DEF Reported, Fruitless
    <3>2. ~Fruitless(scan) /\ c \in DOMAIN scan.status
      BY <2>3, <2>5, <3>1, Zenon DEF Fruitless
    <3>3. scan.state = "SCAN_DONE" /\ id \in finished
      BY <2>1, <2>2, <3>1, <3>2, Zenon DEF OwnResults, Ended
    <3>4. channel_scan_results' = Synced(scan)
      BY <2>1, <3>3, Zenon
    <3>5. SentReport[c].from \subseteq scan.cached
      BY <2>3, <2>5, <3>2, <3>4, Zenon DEF Synced
    <3> QED
      BY <2>1, <2>2, <3>3, <3>5, Zenon DEF OwnResults
  <2> QED
    BY <2>4, <2>5, Zenon
<1>2. ReportInv /\ [Next]_vars =>
        [\A id \in Ids \ hasty : ReportsOn(id) =>
           \A c \in DOMAIN SentReport :
             /\ SentReport[c].status = "SUCCESS" => id \in finished
             /\ \A r \in SentReport[c].from :
                  r.scan = id \/ (r.op = "SPECTRUM" /\ id \in unread)]_vars
  BY <1>1, Zenon
<1> QED
  BY <1>2, ReportInvariance, PTL DEF Spec, ReportsAreOwn

=============================================================================
