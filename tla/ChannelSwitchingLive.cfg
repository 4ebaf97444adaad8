SPECIFICATION Spec
CONSTANTS
  Ifaces = {"wlan0"}
  Channels = {"c1"}
  Durations = {1}
  CacTask = "cac"
  WorkOrder <- OneRadio
  MaxAge = 2
  DefaultWait = 0
  TerminationWait = 0
  MaxCmdus = 2
  MaxUnsolicited = 1
PROPERTY CacComesBackToIdle
PROPERTY CacWaitEnds
PROPERTY AnsweredSwitchMovesOn
CHECK_DEADLOCK FALSE
