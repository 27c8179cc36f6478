SPECIFICATION DsSpec
CONSTANTS
  Addresses <- ClockAndAnother
  DataBytes <- SentBytes
  NamedRegisters <- Named
  RegisterBytes <- Settings
  OpensWithStop = TRUE
  RtcModulus = 64
  ReadRegisters <- Read
  MaxSeconds = 1
INVARIANTS
  DsTypeOK
  BytesGoWhereMeant
PROPERTIES
  SecondsAreCivil
  OneHertz
CHECK_DEADLOCK FALSE
