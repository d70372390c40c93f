SPECIFICATION MCSpec
CONSTANTS
  f = f
  g = g
  kEventQueueSize = 2
  kMaxListeners = 2
  Callbacks = {f, g}
  Codes <- MCCodes
  Events <- MCEvents
  ClockMod = 4
  debounceDelay = 1
  MaxIdle = 1
  MaxPhase = 4
  MaxCounter = 1
INVARIANTS HighFirst NobodySkipped EventsTellState CounterFollowsKnob
PROPERTIES QueuesAreFifos PressIsDebouncedUnlessRaced HeldKeyIsReported
CHECK_DEADLOCK FALSE
