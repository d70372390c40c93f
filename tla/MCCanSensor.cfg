SPECIFICATION MCSpec
CONSTANTS
  kEventQueueSize = 2
  kMaxListeners = 3
  Callbacks = {"remoteRequest", "dataReceived", "canError"}
  Codes = {237, 238, 239}
  Events = {}
  QUEUE_ITEMS = 2
  QUEUE_ITEM_SIZE = 2
  Blank <- MCBlank
  Bus <- MCBus
  MemorySize = 4
  Stray = {1}
  RxBuffers = 2
  MaxRetries = 2
  Chars = {"a", "b"}
  EndOfLine = {"r", "n"}
  bufferLength = 4
  options <- MCOptions
  MaxLine = 6
  Payloads <- MCPayloads
INVARIANTS AltitudeIsNewestSwapped SettingsAreOrdered QueueInOrder
PROPERTIES FailureIsReported LineRunsWhatItMeans
