SPECIFICATION Spec
CONSTANTS
  MaxSequence = 3
  MaxConnections = 2
  MaxListenerFails = 0
  MaxRestarts = 0
  QueueSize = 3
  ReadCount = 3
  Window = 1
  BufferSize = 3
  Unset = Unset
  Unbridgeable = Unbridgeable
INVARIANTS ResumeReplaysWhatWasMissed
CHECK_DEADLOCK FALSE
