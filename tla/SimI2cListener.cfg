SPECIFICATION ViewSpec
CONSTANTS
  Addresses <- TwoDevices
  DataBytes <- TwoBytes
  Answers <- DataOrSilence
  MaxFinished = 2
  MaxMessages = 6
INVARIANTS
  InProgressIsTheTranscript
  FinishedAreTheLatest
  OnlyALateListenerDereferencesNothing
  RunsStandForTheMessages
CHECK_DEADLOCK FALSE
