---------------------------- MODULE TaskMessages ----------------------------
(***************************************************************************)
(* The messages that agent tasks exchange through the task pool            *)
(* (agent/src/beerocks/slave/tasks/task_messages.h and the eTaskEvent      *)
(* values of task_pool_interface.h).  An event is a record whose "type" is *)
(* the eTaskEvent.  A shared_ptr member is modelled by whether it is set.  *)
(* In a report, "ifname" is the interface of the state machine that posts  *)
(* it: sSwitchChannelReport has no such member, so only properties read it.*)
(***************************************************************************)
EXTENDS Integers, Sequences

CONSTANTS Ifaces,     \* the radio interfaces of the agent
          Channels,   \* the channels a radio supports
          Durations   \* the cac_duration_sec values a driver announces

\* uint16_t(cac_duration_sec * 1.2)
WaitFor(d) == (d * 12) \div 10

\* A longer CAC makes that conversion overflow, which C++ leaves undefined.
ASSUME DurationsAssumption == \A d \in Durations : d \in Nat /\ WaitFor(d) <= 65535

NoChannel == "none"   \* the channel number 0 of a cleared member

SwitchChannelRequest(i, c) ==
  [type |-> "SWITCH_CHANNEL_REQUEST", ifname |-> i, channel |-> c]

SwitchChannelNotification(i) ==
  [type |-> "SWITCH_CHANNEL_NOTIFICATION_EVENT", ifname |-> i]

CacStartedNotification(i, d) ==
  [type |-> "CAC_STARTED_NOTIFICATION", ifname |-> i, cac_duration_sec |-> d]

CacCompletedNotification(i) ==
  [type |-> "CAC_COMPLETED_NOTIFICATION", ifname |-> i]

SwitchChannelDurationTime(i, d) ==
  [type |-> "SWITCH_CHANNEL_DURATION_TIME", ifname |-> i, duration_sec |-> d]

SwitchChannelReport(i, cac_happened, request, notification, started, completed, status) ==
  [type |-> "SWITCH_CHANNEL_REPORT", ifname |-> i, cac_happened |-> cac_happened,
   original_request |-> request, switch_channel_notification |-> notification,
   cac_started_notification |-> started, cac_completed_notification |-> completed,
   status |-> status]

ReportStatus == {"NOT_COMPUTED", "ANOTHER_SWITCH_IN_PROGRESS"}

Report ==
  [type : {"SWITCH_CHANNEL_REPORT"}, ifname : Ifaces, cac_happened : BOOLEAN,
   original_request : BOOLEAN, switch_channel_notification : BOOLEAN,
   cac_started_notification : BOOLEAN, cac_completed_notification : BOOLEAN,
   status : ReportStatus]

Event ==
  [type : {"SWITCH_CHANNEL_REQUEST"}, ifname : Ifaces, channel : Channels]
    \cup [type : {"SWITCH_CHANNEL_NOTIFICATION_EVENT", "CAC_COMPLETED_NOTIFICATION"},
          ifname : Ifaces]
    \cup [type : {"CAC_STARTED_NOTIFICATION"}, ifname : Ifaces,
          cac_duration_sec : Durations]
    \cup [type : {"SWITCH_CHANNEL_DURATION_TIME"}, ifname : Ifaces,
          duration_sec : Nat]
    \cup Report

=============================================================================
