SPECIFICATION Spec
CONSTANTS
  Addresses <- TwoAddresses
  DataBytes <- InterruptBytes
  SelectedRegisters <- InterruptRegisters
  RegisterWrites <- InterruptWrites
  I2C_ADDRESS = 104
  Rows = {0}
  Cols = {0, 1}
  MaxEvents = 2
INVARIANTS
  TypeOK
  IntLineMatchesUnacknowledged
  TimersPointAtPendingPresses
PROPERTIES
  RefinesKeyFifo
  AutoIncrementStaysInFile
  PendingPressIsReleased
CHECK_DEADLOCK FALSE
