CONSTANTS
  NumTracks = 2
  TimeScale <- MCTimeScale
  FixedDuration <- MCFixedDuration
  Span = 16
  MovieScale = 2
  MaxFails = 1
  Frames <- MCFrames
  MinFrameSize = 2
  MaxFrames <- MCMaxFrames
  FirstStamps <- MCFirstStamps
  PtsPerSecond = 3
  PtsSpan = 64
  MaxStamp = 20
  RecordTime = 1
  Kinds <- MCKinds
  Offsets <- MCOffsets
  MaxEdits = 7
  Segments <- MCSegments
  MaxSegments = 2
  MaxCut = 3
  MaxCopied = 4
SPECIFICATION Spec
INVARIANTS TypeOK SizesRecorded TimesRecorded OffsetsRecorded SyncAnswered BytesFound BytesReadBack CachesAgree SeekLands InTimeOrder StartIsPreviousPts WithinLimit CopiesInOrder
PROPERTIES RecordingEnds
CHECK_DEADLOCK FALSE
