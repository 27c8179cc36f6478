SPECIFICATION DsSpec
CONSTANTS
  Addresses <- ClockAndAnother
  DataBytes <- FebruaryBytes
  NamedRegisters <- JustFirst
  RegisterBytes <- February
  OpensWithStop = TRUE
  RtcModulus = 64
  ReadRegisters <- Read
  MaxSeconds = 1
PROPERTIES
  LeapYearCorrection
CHECK_DEADLOCK FALSE
