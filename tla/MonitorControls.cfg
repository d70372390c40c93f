SPECIFICATION MCControlsSpec
CONSTANTS
  Reinit = TRUE
  FinalMode = "normal"
  MaxTracked = 2
  EntryBytes = 1
  Frames <- MCControlFrames
  QnhMin = 1013
  QnhMax = 1014
  QnhDefault = 1013
  BusTimeout = 0
  DisplayRefresh = 0
  HoldTime = 1
  RxBuffers = 1
  MaxLate = 1
  Steps <- MCSteps
  Clocks = {"absent", "unset"}
  Levels = {FALSE, TRUE}
  Commands = {"NONE", "CLEAR", "TIME"}
INVARIANTS
  SelectionInRange
PROPERTIES
  SelectionStays
  ImplementsQnhPanel
