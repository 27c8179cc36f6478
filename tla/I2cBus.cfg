SPECIFICATION BusSpec
CONSTANTS
  Addresses <- AllDevices
  DataBytes <- BusBytes
  I2C_ADDRESS = 104
  SelectedRegisters <- KeypadRegisters
  RegisterWrites <- KeypadWrites
  Rows = {0}
  Cols = {0}
  MaxEvents = 1
  TlcAddress = 96
  ControlBytes <- LedControls
  PwmBytes <- LedPwm
  LedOutBytes <- LedOut
  MaxBurst = 2
  A2 = 0
  A1 = 1
  HighBytes <- LastPage
  LowBytes <- LastCells
  StoredBytes <- OneByte
  Uninitialised <- Garbage
  CounterModulus = 256
  MaxTransfer = 2
  MaxSent = 1
INVARIANTS
  ProtocolsNeverCrash
  OnlyTheAddressedIsEngaged
PROPERTIES
  ContentsChangeInTheirOwnTransaction
CHECK_DEADLOCK FALSE
