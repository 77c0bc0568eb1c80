\* A subsession ends while the SETUP of the next one is outstanding.
SPECIFICATION Spec
CONSTANTS
  NumUrls = 1
  MaxTracks = 2
  MaxTotal = 2
  Durations = {0}
  UIntSpan = 8
INVARIANT
  NothingLeftStreaming
CHECK_DEADLOCK FALSE
