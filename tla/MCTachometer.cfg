SPECIFICATION TachSpec
CONSTANTS
  Reinit = FALSE
  FinalMode = "normal"
  ByteMod = 4
  EepromSize = 8
  Base = 1
  Magic = 1
  Erased = 3
  MaxPulses = 2
  MaxRpmLimit = 9
  MaxCanId = 7
  DefaultPulses = 1
  DefaultMaxRpm = 6
  DefaultCanId = 5
  Frames <- MCFrames
  Images <- MCImages
  CountMod = 16
  MsPerMinute = 8
  Interval = 2
  MaxLate = 1
  PulseBound = 4
INVARIANTS
  FrameConsistent
PROPERTIES
  OverSpeedExact
  StoppedEngineReadsZero
  KeepsMeasuring
