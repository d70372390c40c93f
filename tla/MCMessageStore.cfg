SPECIFICATION Spec
CONSTANTS
  MaxTracked = 2
  EntryBytes = 2
  Frames <- MCFrames
PROPERTY ImplementsLatestFrames
