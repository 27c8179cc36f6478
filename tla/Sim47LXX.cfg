SPECIFICATION EepromSpec
CONSTANTS
  Addresses <- EepromAndAnother
  DataBytes <- SentBytes
  A2 = 0
  A1 = 1
  HighBytes <- Highs
  LowBytes <- Lows
  StoredBytes <- Stored
  Uninitialised <- Garbage
  CounterModulus = 3
  MaxTransfer = 3
  RepeatsStart = FALSE
  AddressesReads = FALSE
INVARIANTS
  AddressValidWhenStarted
PROPERTIES
  RefinesSerialMemory
CHECK_DEADLOCK FALSE
