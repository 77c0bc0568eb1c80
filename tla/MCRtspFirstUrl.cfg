\* The DESCRIBE of the first of two URLs cannot be sent.
SPECIFICATION Spec
CONSTANTS
  NumUrls = 2
  MaxTracks = 1
  MaxTotal = 2
  Durations = {0}
  UIntSpan = 8
INVARIANT
  EveryUrlIsOpened
CHECK_DEADLOCK FALSE
