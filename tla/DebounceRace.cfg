SPECIFICATION MCSpec
CONSTANTS
  f = f
  g = g
  kEventQueueSize = 2
  kMaxListeners = 2
  Callbacks = {f, g}
  Codes <- MCCodes
  Events <- MCEvents
  ClockMod = 4
  debounceDelay = 1
  MaxIdle = 1
  MaxPhase = 4
  MaxCounter = 1

PROPERTIES PressIsDebounced
CHECK_DEADLOCK FALSE
