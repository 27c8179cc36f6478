SPECIFICATION EepromSpec
CONSTANTS
  Addresses <- EepromAndAnother
  DataBytes <- SentBytes
  A2 = 0
  A1 = 1
  HighBytes <- Highs
  LowBytes <- Lows
  StoredBytes <- Stored
  Uninitialised <- Garbage
  CounterModulus = 256
  MaxTransfer = 2
  RepeatsStart = TRUE
  AddressesReads = TRUE
INVARIANTS
  AddressValidWhenStarted
CHECK_DEADLOCK FALSE
