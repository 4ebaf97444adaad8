--------------------------- MODULE MCStationTasks ---------------------------
(***************************************************************************)
(* Instances of StationTasks for TLC: one station, two BSSs, and starting  *)
(* points that mix the inputs in small numbers.                            *)
(***************************************************************************)
EXTENDS StationTasks

CONSTANTS b1, b2

\* The settings: roaming off and new connections not monitored, 11k beacon
\* measurements, cross measurements by the other APs (Cross) or of the radios
\* of the same agent only (Siblings), monitoring.
Quiet == [monitor_on_vaps |-> FALSE, roaming_11k |-> FALSE, path_roaming |-> FALSE,
          band_steering |-> FALSE, front_measurements |-> FALSE,
          backhaul_measurements |-> FALSE, legacy_roaming |-> TRUE,
          ire_roaming |-> FALSE, steer_vaps |-> BSSs]
Beacons == [Quiet EXCEPT !.band_steering = TRUE, !.roaming_11k = TRUE,
                         !.front_measurements = TRUE, !.legacy_roaming = FALSE]
Cross == [Quiet EXCEPT !.path_roaming = TRUE, !.front_measurements = TRUE]
Monitor == [Quiet EXCEPT !.monitor_on_vaps = TRUE, !.roaming_11k = TRUE,
                         !.path_roaming = TRUE]

Client == [s \in Stations |->
             [parent |-> b1, connected |-> TRUE, supports11v |-> TRUE,
              failed11v |-> 0, beacon |-> FALSE, bSta |-> FALSE]]
BeaconClient == [s \in Stations |-> [Client[s] EXCEPT !.beacon = TRUE]]
Backhaul == [s \in Stations |-> [Client[s] EXCEPT !.bSta = TRUE]]

Times(steer, btm, join, leave, report, rssi, idle, dead) ==
  [steer |-> steer, btm |-> btm, join |-> join, leave |-> leave,
   report |-> report, rssi |-> rssi, idle |-> idle, dead |-> dead]

Scenario(c, v, n) == [settings |-> c, station |-> v, inputs |-> n]

Siblings == [Cross EXCEPT !.path_roaming = FALSE, !.band_steering = TRUE]

MCScenarios == {
  Scenario(Quiet, Client, Times(2, 0, 1, 0, 1, 0, 0, 0)),
  Scenario(Quiet, Client, Times(1, 1, 1, 0, 1, 0, 0, 0)),
  Scenario(Quiet, Client, Times(1, 1, 1, 1, 0, 0, 0, 0)),
  Scenario(Quiet, Backhaul, Times(1, 1, 1, 1, 0, 0, 0, 0)),
  Scenario(Monitor, Client, Times(0, 0, 1, 0, 0, 0, 0, 0)),
  Scenario([Monitor EXCEPT !.path_roaming = FALSE], Client, Times(0, 0, 1, 1, 0, 0, 0, 0)),
  Scenario([Quiet EXCEPT !.monitor_on_vaps = TRUE], Client, Times(0, 0, 2, 1, 0, 0, 0, 0)),
  Scenario(Beacons, BeaconClient, Times(0, 0, 0, 0, 0, 0, 1, 0)),
  Scenario([Siblings EXCEPT !.ire_roaming = TRUE], Backhaul, Times(0, 0, 0, 0, 0, 0, 1, 0)),
  Scenario(Siblings, Client, Times(0, 0, 1, 1, 0, 1, 0, 0)),
  Scenario(Siblings, Client, Times(1, 0, 0, 0, 0, 1, 0, 0)),
  Scenario(Cross, Client, Times(0, 0, 0, 1, 0, 1, 0, 0)),
  Scenario(Cross, Client, Times(0, 0, 0, 0, 1, 1, 0, 1)) }

MCCommands == {
  [target |-> b2, imminent |-> TRUE, restricted |-> FALSE],
  [target |-> b2, imminent |-> FALSE, restricted |-> FALSE],
  [target |-> b2, imminent |-> TRUE, restricted |-> TRUE] }

\* One roaming task that has the other AP measure the client.
CrossScenarios == { Scenario(Cross, Client, Times(0, 0, 0, 0, 0, 1, 0, 0)) }

=============================================================================
