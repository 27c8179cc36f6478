SPECIFICATION LcdSpec
CONSTANTS
  Wirings = {"all", "pins"}
  Reads = TRUE
  Nibbles = {0, 2, 3, 4, 7, 10}
  CharNibbles = {4}
  LowNibbles = {15}
  MaxStrobes = 6
INVARIANTS
  LcdTypeOK
  BusyWhileTimerRuns
  ResetSequenceSynchronises
PROPERTIES
  RefinesDisplayMemory
CHECK_DEADLOCK FALSE
