SPECIFICATION MCSpec
CONSTANTS
  QnhMin = 1012
  QnhMax = 1014
  QnhDefault = 1013
  RxBuffers = 1
  SerialSettings = {0, 90000, 101350, 120000}
  StraySettings = {1}
  DefaultPa = 101325
  BroadcastEvery = 2
  RPM_DURATION <- MCDuration
  RPM_SEND = 2
  TEMP_SEND = 20
  Half = 4
  SettingCells <- MCSettingCells
  MaxLate = 1
CHECK_DEADLOCK FALSE
INVARIANTS InstrumentQnhInRange NoLossNoDisagreement MockSparesSettings
PROPERTIES OpeningKeepsSetting DisagreementEnds
