\* A copy through a list of two segments, both within the track.
CONSTANTS
  NumTracks = 2
  TimeScale <- MCTimeScale
  FixedDuration <- MCFixedDuration
  Span = 16
  MovieScale = 2
  MaxFails = 0
  Frames <- MCFrames
  MinFrameSize = 2
  MaxFrames <- MCNoFrames
  FirstStamps <- MCFirstStamps
  PtsPerSecond = 3
  PtsSpan = 64
  MaxStamp = 20
  RecordTime = 1
  Kinds <- MCKinds
  Offsets <- MCOffsets
  MaxEdits = 0
  Segments <- MCTwoSegments
  MaxSegments = 2
  MaxCut = 3
  MaxCopied = 4
SPECIFICATION Spec
INVARIANT CopyFollowsList
CHECK_DEADLOCK FALSE
