SPECIFICATION HostSpec
CONSTANTS
  ClosedValue = FALSE
  BounceCount = 1
  HoldTimes <- Milliseconds
  Posted <- CloseAndTap
  MaxPosted = 2
  Serials = {0, 1}
  Bytes = {10, 97}
  Newline = 10
  MaxLogs = 3
  PageHeight = 2
  MaxBytes = 2
  MaxRenders = 1
INVARIANTS
  TimerHasWork
  SettledAtTheLastRequest
  SpacedRequestsNeverStall
  RenderingIsASnapshot
  LinesAreWhole
  SelectedLineExists
PROPERTIES
  PostedRequestSettles
  LinesGetIn
CHECK_DEADLOCK FALSE
