SPECIFICATION Spec
CONSTANTS
  MaxRequests = 2
  MaxInFlight = 2
  ZwdfsRadio = TRUE
  OtherScans = TRUE
  Supported = {"s"}
  Unsupported = {"u"}
  NoRequest = NoRequest
INVARIANT TypeOK
 
PROPERTY AnsweredOnce
PROPERTY ScanEnds
PROPERTY RequestsAreServed
CHECK_DEADLOCK FALSE
