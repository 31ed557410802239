SPECIFICATION FairSpec
CONSTANTS
  MaxSequence = 3
  MaxConnections = 1
  MaxListenerFails = 1
  MaxRestarts = 1
  QueueSize = 1
  ReadCount = 2
  Window = 1
  BufferSize = 2
  Unset = Unset
  Unbridgeable = Unbridgeable
INVARIANT ReplaysSurviveRestarts
PROPERTIES ConnectedIsServed BroadcastEnds
CHECK_DEADLOCK FALSE
