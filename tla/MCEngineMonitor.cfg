CONSTANTS
  FILTER_SAMPLES = 2
  MAX_SENSORS = 8
  MaxRequests = 2
  RxBuffers = 2
  sensorConfigs <- MCConfigs
  Measurements <- MCMeasurements
  Scenes <- MCScenes
  Requests <- MCRequests
SPECIFICATION MCSpec
INVARIANTS ShownIsWhatSensorsSaid ConfirmedIsStored OffsetsAreOfBoot FilterFollowsSamples
CHECK_DEADLOCK FALSE
