SPECIFICATION Spec
CONSTANTS
  a = a
  b = b
  c = c
  Mcast = mcast
  Devices = {a, b, c}
  Mids = {"plain", "reliable"}
  Reliable = {"reliable"}
  Links <- Line
  Traffic <- LineTraffic
  MaxNeighbourAge = 2
  MaxDeDupAge = 3
  MaxThreads = 2
  MaxDelay = 1
  MaxInputs = 3
  MaxTime = 4
INVARIANT RelayedReliableReachesAll
CHECK_DEADLOCK FALSE
