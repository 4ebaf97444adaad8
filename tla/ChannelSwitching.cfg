SPECIFICATION Spec
CONSTANTS
  Ifaces = {"wlan0","wlan2"}
  Channels = {"c1"}
  Durations = {1}
  CacTask = "cac"
  WorkOrder <- TwoRadios
  MaxAge = 2
  DefaultWait = 0
  TerminationWait = 0
  MaxCmdus = 2
  MaxUnsolicited = 1
INVARIANT TypeOK
 
INVARIANT ReportsAreConsistent
INVARIANT CacActsOnItsRadio
PROPERTY TimeoutKnowsDuration
CHECK_DEADLOCK FALSE
