SPECIFICATION MonSpec
CONSTANTS
  Reinit = TRUE
  FinalMode = "normal"
  MaxTracked = 2
  EntryBytes = 1
  Frames <- MCBusFrames
  QnhMin = 1012
  QnhMax = 1014
  QnhDefault = 1013
  BusTimeout = 2
  DisplayRefresh = 1
  HoldTime = 2
  RxBuffers = 1
  MaxLate = 1
  Steps = {0}
  Clocks = {"absent"}
  Levels = {FALSE}
  Commands = {"NONE", "CLEAR", "SYSRESET", "RESET"}
INVARIANT OperationalMeansTested
PROPERTIES
  StatusTruthful
  SilenceIsNoticed
