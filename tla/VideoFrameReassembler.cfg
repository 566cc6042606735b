CONSTANTS
  FrameKey <- MCFrameKey
  Datagram <- MCDatagram
  MaximumPendingFrameCount = 2
  MaximumPendingPayloadBytes = 4
  FrameTimeoutMs = 1
  MaximumFrameSize = 3
  MaxTime = 3
SPECIFICATION Spec
INVARIANTS TypeOK WithinLimits CompletedIntact
PROPERTIES EvictsOldestFirst
