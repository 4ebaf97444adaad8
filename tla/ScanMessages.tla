---------------------------- MODULE ScanMessages ----------------------------
(***************************************************************************)
(* The two message streams between the channel-scan task of the backhaul    *)
(* manager and the monitor of a radio.  The son_slave thread stands between *)
(* them and renames every message; both streams are local sockets, first in *)
(* first out and without loss.  No message names the scan it belongs to:    *)
(* the field "scan" is what the model knows, and no guard reads it.         *)
(***************************************************************************)
EXTENDS Integers, Sequences

CONSTANTS MaxRequests,   \* bound on the scan requests of the controller
          MaxInFlight    \* bound on the commands the monitor has not read

ASSUME ScanBoundsAssumption == MaxRequests \in Nat \ {0} /\ MaxInFlight \in Nat \ {0}

VARIABLES toMonitor,                \* commands of the task
          toTask,                   \* answers and notifications of the monitor
          channel_scan_in_progress  \* AgentDB: radio->statuses, read by the ZWDFS flow

messageVars == <<toMonitor, toTask, channel_scan_in_progress>>

Ids == 1..MaxRequests
NoScan == 0

Commands == [op : {"TRIGGER", "DUMP", "ABORT"}, scan : Ids]

\* The results that are dumped: neighbours, and the spectrum of the channels.
Dumps == {"NEIGHBOURS", "SPECTRUM"}

Answers ==
  [op : {"TRIGGER_RESPONSE", "DUMP_RESPONSE", "ABORT_RESPONSE"}, success : BOOLEAN, scan : Ids]
    \cup
  [op : {"TRIGGERED", "RESULTS_READY", "FINISHED"} \cup Dumps, scan : Ids]
    \cup
  [op : {"ABORTED"}, scan : Ids \cup {NoScan}]

Answer(op, ok, s) == [op |-> op, success |-> ok, scan |-> s]
Notification(op, s) == [op |-> op, scan |-> s]

MessagesInit ==
  /\ toMonitor = << >>
  /\ toTask = << >>
  /\ channel_scan_in_progress = FALSE

=============================================================================
