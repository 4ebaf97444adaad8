---------------------------- MODULE OptimalPath -----------------------------
(***************************************************************************)
(* The roaming task of a station (tasks/optimal_path_task.cpp): it has the *)
(* station measure its candidate APs by 11k beacon requests, or has other  *)
(* APs measure the station ("cross"), picks the best AP and starts a       *)
(* steering task to it.                                                    *)
(*                                                                         *)
(* The estimation of rates and signal strengths is left out: which APs     *)
(* are candidates, which one is best and whether a measurement has to be   *)
(* repeated are arbitrary choices.  A work() is the set of the effects it  *)
(* may have.                                                               *)
(***************************************************************************)
EXTENDS ClientSteering

CONSTANTS MAX_REQUEST_CYCLES, DELAY_COUNT_LIMIT

VARIABLE settings   \* the settings the tasks read

RESPONSIVENESS_PERCENT_11K == 80

CrossStates == {"FILL_POTENTIAL_AP_LIST_CROSS", "REQUEST_CROSS_RSSI_MEASUREMENTS",
                "FIND_AND_PICK_HOSTAP_CROSS"}

(* asked holds the requests whose answer may still come; left the APs the  *)
(* iterator over potential_11k_aps has yet to visit.                       *)
RoamingData ==
  [wait |-> NoWait, asked |-> EmptyBag, vap |-> "none", client |-> FALSE,
   aps |-> {}, reported |-> {}, count |-> 0, left |-> {}, cycle |-> 0,
   hostaps |-> {}, delays |-> 0, chosen |-> "none", force |-> FALSE]

Request(mac, op, ap) == [mac |-> mac, op |-> op, ap |-> ap]

assert_original_parent(id, d) ==
  LET v == station[pool[id].sta] IN v.parent = d.vap /\ v.connected

\* The checks at the head of work().
TaskEnabled(id, d) ==
  IF station[pool[id].sta].bSta
  THEN ~d.client /\ settings.ire_roaming
  ELSE settings.band_steering \/ settings.path_roaming \/ settings.roaming_11k

RoamingStart(id, d) ==
  LET s == pool[id].sta
      v == station[s]
      n == [d EXCEPT !.vap = v.parent, !.client = ~v.bSta, !.delays = 0]
      next == CASE settings.roaming_11k /\ v.beacon ->
                     Moves("FILL_POTENTIAL_AP_LIST_11K", [n EXCEPT !.wait = wait_for(@)])
                [] ~(settings.roaming_11k /\ v.beacon)
                   /\ (settings.front_measurements \/ settings.backhaul_measurements) ->
                     Moves("FILL_POTENTIAL_AP_LIST_CROSS", [n EXCEPT !.wait = wait_for(@)])
                [] OTHER -> Finishes(id, n)
  IN CASE v.parent \notin settings.steer_vaps \/ handoff[s] -> {Finishes(id, d)}
       [] ~settings.path_roaming /\ ~settings.band_steering -> {Taking(Finishes(id, n))}
       \* a radio on 6 GHz or without a channel, or else the task goes on
       [] OTHER -> {Taking(Finishes(id, n)), Taking(next)}

SteerTo(d, b, force) ==
  Moves("SEND_STEER_ACTION", [d EXCEPT !.chosen = b, !.force = @ \/ force])

Others(d) == settings.steer_vaps \ {d.vap}

\* A forced steering goes to the client's initial radio or selected bands.
RoamingFill11k(id, d) ==
  {Finishes(id, d)}
  \cup {SteerTo(d, b, TRUE) : b \in BSSs \ {d.vap}}
  \cup {Moves("REQUEST_11K_MEASUREMENTS_BY_BSSID",
              [d EXCEPT !.aps = S, !.left = S]) :
          S \in SUBSET settings.steer_vaps \ {{}, {d.vap}}}

\* At the end of the list the iterator starts over, MAX_REQUEST_CYCLES times.
StartOver(d) ==
  IF d.left = {} /\ d.cycle < MAX_REQUEST_CYCLES
  THEN [d EXCEPT !.left = d.aps, !.cycle = @ + 1] ELSE d

\* A beacon request for AP a, with the APs in V passed over.
RequestBeacon(d, a, V) ==
  [d EXCEPT !.left = @ \ ({a} \cup V),
            !.asked = @ (+) SetToBag({Request(d.vap, "BEACON", a)}),
            !.wait = set_responses_timeout(add_pending_macs(@, {<<d.vap, "BEACON">>}))]

(* The loop over the iterator visits a set of APs: those that have         *)
(* reported are passed over, the first that has not is asked, and the task *)
(* waits for its answer.                                                   *)
RoamingRequest11k(id, d) ==
  LET n      == StartOver(d)
      silent == n.left \ n.reported
      all    == d.count = Cardinality(d.aps)
      last   == n.cycle = MAX_REQUEST_CYCLES
  IN CASE all           -> {Moves("FIND_AND_PICK_HOSTAP_11K", d)}
       [] ~all /\ last  -> {Moves("FIND_AND_PICK_HOSTAP_11K", n)}
       [] ~all /\ ~last /\ silent = {} ->
            {Moves(pool[id].state, [n EXCEPT !.left = {}])}
       [] OTHER -> {Moves(pool[id].state, RequestBeacon(n, a, V)) :
                      a \in silent, V \in SUBSET (n.left \cap n.reported)}

RoamingPick11k(id, d) ==
  IF d.count * 100 < RESPONSIVENESS_PERCENT_11K * Cardinality(d.aps)
  THEN {IF settings.front_measurements
        THEN Moves("FILL_POTENTIAL_AP_LIST_CROSS", d) ELSE Finishes(id, d)}
  ELSE {Finishes(id, d)} \cup {SteerTo(d, b, FALSE) : b \in d.aps \ {d.vap}}

RoamingFillCross(id, d) ==
  {Moves("REQUEST_CROSS_RSSI_MEASUREMENTS", [d EXCEPT !.hostaps = S]) :
     S \in IF settings.path_roaming THEN SUBSET (BSSs \ {d.vap}) ELSE {{}}}

\* The station's own BSS is asked for ops.
RequestCross(d, ops) ==
  [d EXCEPT !.asked = @ (+) SetToBag({Request(d.vap, op, d.vap) : op \in ops}),
            !.wait = set_responses_timeout(
              add_pending_macs(@, {<<d.vap, op>> : op \in ops}))]

RoamingRequestCross(id, d) ==
  LET ops == {"RX_RSSI"} \cup (IF d.hostaps = {} THEN {} ELSE {"START_NOTIFICATION"})
  IN {Moves("FIND_AND_PICK_HOSTAP_CROSS", RequestCross(d, ops))}

RoamingPickCross(id, d) ==
  LET delays == d.delays + 1
      picks(n) == {Finishes(id, n)}
                  \cup {SteerTo(n, b, f) : b \in Others(d), f \in BOOLEAN}
      again == IF delays = DELAY_COUNT_LIMIT THEN {}
               ELSE {Moves("REQUEST_CROSS_RSSI_MEASUREMENTS", [d EXCEPT !.delays = delays])}
  IN IF d.hostaps = {} THEN picks(d) ELSE again \cup picks([d EXCEPT !.delays = 0])

(* SEND_STEER_ACTION does not look at the station's parent again.          *)
RoamingSteer(id, d) ==
  LET v == station[pool[id].sta]
      waits(n) == [d EXCEPT !.wait = wait_for_task_end(@, n)]
      steers(imminent) ==
        [Moves("WAIT_FOR_HANDOVER", waits(nextId)) EXCEPT
           !.new = NewTask("steering", pool[id].sta,
                           SteeringData(d.chosen, imminent, FALSE))]
  IN CASE v.supports11v /\ ~d.force -> {steers(imminent) : imminent \in BOOLEAN}
       [] ~(v.supports11v /\ ~d.force) /\ settings.legacy_roaming -> {steers(TRUE)}
       [] OTHER -> {Moves("WAIT_FOR_HANDOVER", waits(0))}

RoamingWork(id, d) ==
  LET st == pool[id].state
  IN CASE ~TaskEnabled(id, d) -> {Finishes(id, d)}
       [] TaskEnabled(id, d) /\ st = "START" -> RoamingStart(id, d)
       [] TaskEnabled(id, d) /\ st = "SEND_STEER_ACTION" -> RoamingSteer(id, d)
       [] TaskEnabled(id, d) /\ st = "WAIT_FOR_HANDOVER" -> {Finishes(id, d)}
       [] OTHER ->
            CASE ~assert_original_parent(id, d) -> {Finishes(id, d)}
              [] assert_original_parent(id, d) /\ st = "FILL_POTENTIAL_AP_LIST_11K" ->
                   RoamingFill11k(id, d)
              [] assert_original_parent(id, d) /\ st = "REQUEST_11K_MEASUREMENTS_BY_BSSID" ->
                   RoamingRequest11k(id, d)
              [] assert_original_parent(id, d) /\ st = "FIND_AND_PICK_HOSTAP_11K" ->
                   RoamingPick11k(id, d)
              [] assert_original_parent(id, d) /\ st = "FILL_POTENTIAL_AP_LIST_CROSS" ->
                   RoamingFillCross(id, d)
              [] assert_original_parent(id, d) /\ st = "REQUEST_CROSS_RSSI_MEASUREMENTS" ->
                   RoamingRequestCross(id, d)
              [] OTHER -> RoamingPickCross(id, d)

-----------------------------------------------------------------------------
(* handle_responses_timeout: macs are the pending entries that timed out.  *)
RoamingTimeout(id, d, macs) ==
  Moves(pool[id].state,
        IF pool[id].state \in CrossStates
        THEN [d EXCEPT !.hostaps = @ \ macs] ELSE d)

(* handle_response.  A start notification asks every hostap for a          *)
(* measurement and waits for the answers, without setting a timeout.       *)
RoamingResponse(id, d, r, good) ==
  LET st == pool[id].state
      started == [d EXCEPT !.asked = @ (+) SetToBag({Request(h, "RX_RSSI", h) : h \in d.hostaps}),
                           !.wait = add_pending_macs(@, {<<h, "RX_RSSI">> : h \in d.hostaps})]
      valid == [d EXCEPT !.reported = @ \cup {r.ap}, !.count = @ + 1]
  IN CASE r.op = "START_NOTIFICATION" -> Moves(st, started)
       [] r.op = "BEACON" /\ r.ap \in d.aps /\ good ->
            Moves(IF valid.count = Cardinality(d.aps)
                  THEN "FIND_AND_PICK_HOSTAP_11K" ELSE st, valid)
       [] OTHER -> Moves(st, d)

=============================================================================
