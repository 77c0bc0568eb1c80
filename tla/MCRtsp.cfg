\* Two URLs of up to two subsessions, three together; a session of 1 + 2 s
\* overflows the timer.
SPECIFICATION FairSpec
CONSTANTS
  NumUrls = 2
  MaxTracks = 2
  MaxTotal = 3
  Durations = {0, 1}
  UIntSpan = 3
INVARIANTS
  TypeOK
  CountMatchesClients
  ExitsWithLastStream
  ClosedStreamIsQuiet
  OrphanOnlyMidSetup
  IdleOnlyIfNothingSetUp
PROPERTIES
  NoEarlyStop
  LifecycleSpec
  RequestsSettle
  TimedStreamsEnd
  Terminates
\* The process may have exited, or wait for a server that has nothing to send.
CHECK_DEADLOCK FALSE
