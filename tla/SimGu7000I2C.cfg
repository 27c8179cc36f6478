SPECIFICATION GSpec
CONSTANTS
  Addresses <- DisplayAndAnother
  DataBytes <- Characters
  MaxSent = 4
  MaxMilliseconds = 3
INVARIANTS
  EveryByteOnce
  DirtyUntilSettled
CHECK_DEADLOCK FALSE
