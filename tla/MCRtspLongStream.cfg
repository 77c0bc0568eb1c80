\* A session longer than an unsigned count of microseconds.
SPECIFICATION Spec
CONSTANTS
  NumUrls = 1
  MaxTracks = 1
  MaxTotal = 2
  Durations = {3, 9}
  UIntSpan = 8
INVARIANT
  TimerCoversDuration
CHECK_DEADLOCK FALSE
