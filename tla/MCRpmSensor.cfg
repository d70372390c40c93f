SPECIFICATION Spec
CONSTANTS
  CountMod = 3
  MsPerMinute = 12
  PulseConfigs = {0, 2}
  Elapsed = {0, 2}
  MaxEdges = 6
PROPERTIES
  ImplementsPulseCounter
  PulsesAreReported
