SPECIFICATION Spec
CONSTANTS
  Ifaces = {"wlan0"}
  Channels = {"c1"}
  Durations = {1}
  CacTask = "cac"
  WorkOrder <- OneRadio
  MaxAge = 2
  DefaultWait = 0
  TerminationWait = 0
  MaxCmdus = 2
  MaxUnsolicited = 1
INVARIANT NoNullDereference
CHECK_DEADLOCK FALSE
