SPECIFICATION Spec
CONSTANTS
  MaxSequence = 3
  MaxConnections = 2
  MaxListenerFails = 0
  MaxRestarts = 0
  QueueSize = 1
  ReadCount = 2
  Window = 1
  BufferSize = 2
  Unset = Unset
  Unbridgeable = Unbridgeable
INVARIANTS TypeOK ReplayIsWhatTheHubKept RegisteredMissNothing WireIsOrdered
CHECK_DEADLOCK FALSE
