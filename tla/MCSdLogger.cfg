SPECIFICATION Spec
CONSTANTS
  Devices = {d1, d2}
  LastDate = 2
  FlushInterval = 2
  RotateCheck = 3
  MaxLate = 2
INVARIANTS
  LossIsBounded
  FilesInOrder
