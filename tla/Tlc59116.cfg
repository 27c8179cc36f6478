SPECIFICATION TlcSpec
CONSTANTS
  Addresses <- TlcAndAnother
  DataBytes <- TlcData
  TlcAddress = 96
  ControlBytes <- Controls
  PwmBytes <- Pwm
  LedOutBytes <- LedOut
  MaxBurst = 4
INVARIANTS
  AutoIncrementWalksTheRing
  LedsAreDrawable
CHECK_DEADLOCK FALSE
