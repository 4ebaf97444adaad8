SPECIFICATION Spec
CONSTANTS
  b1 = b1
  b2 = b2
  Stations = {s1}
  BSSs = {b1, b2}
  FailuresFor11v = 1
  MAX_REQUEST_CYCLES = 2
  DELAY_COUNT_LIMIT = 2
  START_MONITORING_MAX_ATTEMPTS = 2
  BEACON_MEASURE_MAX_ATTEMPTS = 2
  REQUEST_RSSI_MEASUREMENT_MAX_ATTEMPTS = 2
  Commands <- MCCommands
  Scenarios <- CrossScenarios
PROPERTY SilentHostapsAreDropped
CHECK_DEADLOCK FALSE
