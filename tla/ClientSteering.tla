--------------------------- MODULE ClientSteering ---------------------------
(***************************************************************************)
(* The two tasks that move a client: client_steering_task, which blocks    *)
(* the client on the other BSSs and sends a steering mandate, and          *)
(* btm_request_task, which only sends a BSS transition request.  Both wait *)
(* at most STEERING_WAIT_TIME_MS for what the client does.                 *)
(*                                                                         *)
(* Left out: the control messages to the agents, the steering history, the *)
(* persistent database and the failures per band, and the split of the     *)
(* counters by method (BTM or blacklist), whose sums are modelled.         *)
(***************************************************************************)
EXTENDS ControllerTask

SteeringData(target, imminent, restricted) ==
  [wait |-> NoWait, target |-> target, imminent |-> imminent,
   restricted |-> restricted, success |-> FALSE, reportReceived |-> FALSE,
   tryPerformed |-> FALSE]

BtmData(target, imminent) ==
  [wait |-> NoWait, target |-> target, imminent |-> imminent,
   success |-> FALSE, reportReceived |-> FALSE]

\* FINALIZE of both tasks: without disassoc_imminent a client that stayed
\* counts as a success.
Outcome(d) == IF ~d.success /\ d.imminent THEN "failures" ELSE "successes"

(* client_steering_task::work.  resolved: the database knows the radios    *)
(* and agents of the original and of the target BSS, and the request can   *)
(* be built.                                                               *)
Steer(id, d, resolved) ==
  LET v == station[pool[id].sta]
      sent == [d EXCEPT !.tryPerformed = ~v.bSta]
      asked == [sent EXCEPT !.wait =
                  wait_for_events(@, {"STA_DISCONNECTED", "STA_CONNECTED"})]
  IN CASE v.parent = d.target ->
            Counting(Taking(Finishes(id, d)), {"attempts", "failures"})
       [] v.parent # d.target /\ ~resolved ->
            Counting(Taking(Finishes(id, d)), {"attempts"})
       [] v.parent # d.target /\ resolved /\ d.restricted ->
            Counting(Taking(Ending(Moves("FINALIZE", sent))), {"attempts"})
       [] OTHER ->
            [Counting(Taking(Moves("FINALIZE", asked)), {"attempts"}) EXCEPT
               !.flag = IF v.bSta THEN "keep" ELSE "set"]

SteeringFinalize(id, d, resolved) ==
  Counting(Finishes(id, d), IF resolved THEN {Outcome(d)} ELSE {})

SteeringWork(id, d) ==
  {IF pool[id].state = "STEER" THEN Steer(id, d, resolved)
                               ELSE SteeringFinalize(id, d, resolved) :
     resolved \in BOOLEAN}

(* btm_request_task::work.  resolved: the station's BSS is known.          *)
SendBtmRequest(id, d, resolved) ==
  LET asked == [d EXCEPT !.wait =
                  wait_for_events(@, {"STA_CONNECTED", "BTM_REPORT_RECEIVED"})]
  IN CASE station[pool[id].sta].bSta -> Finishes(id, d)
       [] ~station[pool[id].sta].bSta /\ ~resolved -> Taking(Finishes(id, d))
       [] OTHER -> [Counting(Taking(Moves("FINALIZE", asked)), {"attempts"})
                      EXCEPT !.flag = "set"]

\* An outcome counted without finish(), a bug that OutcomesWithinAttempts
\* rules out.
BtmFinalizeGoesOn(id, d) == Counting(Moves(pool[id].state, d), {Outcome(d)})

BtmFinalize(id, d) == Counting(Finishes(id, d), {Outcome(d)})

BtmWork(id, d) ==
  {IF pool[id].state = "SEND_BTM_REQUEST" THEN SendBtmRequest(id, d, resolved)
                                          ELSE BtmFinalize(id, d) :
     resolved \in BOOLEAN}

-----------------------------------------------------------------------------
(* handle_event of both tasks; bss is the station's parent at the event.   *)

\* Mutant: a join counts only after the leave.
StaConnectedInOrder(d, bss) ==
  [d EXCEPT !.success = @ \/ (bss = d.target /\ "STA_DISCONNECTED" \notin d.wait.events),
            !.wait = Heard(@, "STA_CONNECTED")]

StaConnected(d, bss) ==
  [d EXCEPT !.success = @ \/ bss = d.target, !.wait = Heard(@, "STA_CONNECTED")]

StaDisconnected(d) == [d EXCEPT !.wait = Heard(@, "STA_DISCONNECTED")]

BtmReportReceived(d) ==
  [d EXCEPT !.reportReceived = TRUE, !.wait = Heard(@, "BTM_REPORT_RECEIVED")]

\* BSS_TM_REQUEST_REJECTED aborts a steering that is not imminent.
Rejects(id) == id \in DOMAIN pool /\ ~data[id].imminent

=============================================================================
