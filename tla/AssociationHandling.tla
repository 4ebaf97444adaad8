------------------------ MODULE AssociationHandling -------------------------
(***************************************************************************)
(* The task that follows a new connection of a station                     *)
(* (tasks/association_handling_task.cpp): start monitoring, find out       *)
(* whether the station answers 11k beacon requests, get a first signal     *)
(* strength, and then either start a roaming task or, after a handoff,     *)
(* end the old one.                                                        *)
(***************************************************************************)
EXTENDS OptimalPath

CONSTANTS START_MONITORING_MAX_ATTEMPTS, BEACON_MEASURE_MAX_ATTEMPTS,
          REQUEST_RSSI_MEASUREMENT_MAX_ATTEMPTS

AssociationData ==
  [wait |-> NoWait, asked |-> EmptyBag, vap |-> "none", attempts |-> 0,
   maxAttempts |-> 0]

AsksFor(d, mac, op) ==
  [d EXCEPT !.asked = @ (+) SetToBag({Request(mac, op, mac)}),
            !.wait = set_responses_timeout(add_pending_macs(@, {<<mac, op>>}))]

\* finalize_new_connection, then finish()
Finalized(id, d) ==
  LET s == pool[id].sta
      e == Finishes(id, d)
  IN CASE handoff[s] -> [e EXCEPT !.kills = {owner[s]["roaming"]}, !.flag = "clear"]
       [] ~handoff[s] /\ ~station[s].bSta ->
            [e EXCEPT !.new = NewTask("roaming", s, RoamingData)]
       [] OTHER -> e

AssociationStart(id, d) ==
  LET s == pool[id].sta
      n == [d EXCEPT !.vap = station[s].parent]
  IN IF Running(s, "association") THEN Finishes(id, d)
     ELSE Taking(IF settings.monitor_on_vaps
                 THEN Moves("START_RSSI_MONITORING",
                            [n EXCEPT !.maxAttempts = START_MONITORING_MAX_ATTEMPTS])
                 ELSE Moves("FINISH", n))

AssociationWork(id, d) ==
  LET s  == pool[id].sta
      v  == station[s]
      st == pool[id].state
      gone == v.parent # d.vap \/ ~v.connected
  IN CASE st = "START" -> AssociationStart(id, d)
       [] st = "START_RSSI_MONITORING" ->
            IF gone THEN Finishes(id, d) ELSE Moves(st, AsksFor(d, v.parent, "MONITORING"))
       [] st = "CHECK_11K_BEACON_MEASURE_CAP" -> Moves(st, AsksFor(d, v.parent, "BEACON"))
       [] st = "REQUEST_RSSI_MEASUREMENT_WAIT" ->
            IF settings.band_steering \/ settings.path_roaming
            THEN Moves("REQUEST_RSSI_MEASUREMENT",
                       [d EXCEPT !.maxAttempts = REQUEST_RSSI_MEASUREMENT_MAX_ATTEMPTS,
                                 !.attempts = 0, !.wait = wait_for(@)])
            ELSE Moves("FINISH", d)
       [] st = "REQUEST_RSSI_MEASUREMENT" ->
            IF gone THEN Finishes(id, d) ELSE Moves(st, AsksFor(d, v.parent, "RX_RSSI"))
       [] OTHER -> Finalized(id, d)   \* FINISH

-----------------------------------------------------------------------------
\* handle_responses_timeout
AssociationTimeout(id, d) ==
  LET st == pool[id].state
      n  == [d EXCEPT !.attempts = @ + 1]
      spent == n.attempts >= d.maxAttempts
  IN CASE st = "START_RSSI_MONITORING" /\ spent -> Finishes(id, n)
       [] st = "REQUEST_RSSI_MEASUREMENT" /\ spent -> Finalized(id, n)
       [] st = "CHECK_11K_BEACON_MEASURE_CAP" /\ spent ->
            [Moves("REQUEST_RSSI_MEASUREMENT_WAIT", n) EXCEPT !.beacon = "no"]
       [] OTHER -> Moves(st, n)

\* handle_response; it does not look at the state the task is in.
AssociationResponse(id, d, r, good) ==
  LET v  == station[pool[id].sta]
      st == pool[id].state
      n  == [d EXCEPT !.attempts = @ + 1]
      Monitored ==
        IF settings.roaming_11k /\ ~v.beacon /\ ~v.bSta
        THEN Moves("CHECK_11K_BEACON_MEASURE_CAP",
                   [d EXCEPT !.attempts = 0, !.maxAttempts = BEACON_MEASURE_MAX_ATTEMPTS])
        ELSE Moves("REQUEST_RSSI_MEASUREMENT_WAIT", d)
  IN CASE r.op = "MONITORING" /\ good -> Monitored
       [] r.op = "MONITORING" /\ ~good /\ n.attempts >= d.maxAttempts -> Finishes(id, n)
       [] r.op = "MONITORING" /\ ~good /\ n.attempts < d.maxAttempts ->
            Moves(st, [n EXCEPT !.wait = wait_for(@)])
       [] r.op = "RX_RSSI" -> Moves("FINISH", d)
       [] r.op = "BEACON" /\ good ->
            [Moves("REQUEST_RSSI_MEASUREMENT_WAIT", d) EXCEPT !.beacon = "yes"]
       [] OTHER ->                    \* BEACON, refused
            Moves(IF d.attempts > d.maxAttempts
                  THEN "REQUEST_RSSI_MEASUREMENT_WAIT" ELSE st, n)

=============================================================================
