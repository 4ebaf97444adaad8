SPECIFICATION Spec
CONSTANTS
  b1 = b1
  b2 = b2
  Stations = {s1}
  BSSs = {b1, b2}
  FailuresFor11v = 2
  MAX_REQUEST_CYCLES = 2
  DELAY_COUNT_LIMIT = 2
  START_MONITORING_MAX_ATTEMPTS = 2
  BEACON_MEASURE_MAX_ATTEMPTS = 2
  REQUEST_RSSI_MEASUREMENT_MAX_ATTEMPTS = 2
  Commands <- MCCommands
  Scenarios <- MCScenarios
INVARIANTS TypeOK OneTaskPerStation HandoffHasOwner 
PROPERTIES ArrivalIsNoFailure SteeringsEnd RequestsInOrder
CHECK_DEADLOCK FALSE
