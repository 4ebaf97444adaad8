SPECIFICATION Spec
CONSTANTS
  tx = tx
  rx = rx
  Mcast = mcast
  Devices = {tx, rx}
  Mids <- MessageAndFragment
  Reliable = {}
  MaxNeighbourAge = 2
  MaxDeDupAge = 1
  MaxThreads = 4
  Cmdus <- AllCmdus
  Threshold = 5
  MessageIds = 65536
  FragmentIds = 3
  MaxBuffer = 8
  MinBody = 3
  MaxDeFragAge = 1
  MaxDeFragThreads = 1
  MaxDelay = 1
  RestartTime = 3
  MaxCalls = 2
  MaxFaults = 1
  MaxTime = 4
INVARIANT TypeOK
INVARIANT PublishedAsSent
INVARIANT InOrderIsPublished
CHECK_DEADLOCK FALSE
