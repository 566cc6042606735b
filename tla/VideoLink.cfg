CONSTANTS
  FrameKey <- MCFrameKey
  Datagram <- MCDatagram
  MaximumPendingFrameCount = 3
  MaximumPendingPayloadBytes = 12
  FrameTimeoutMs = 1
  MaximumFrameSize = 4
  MaxTime = 2
  FrameSizes <- MCFrameSizes
  MaximumPayloadSize = 2
  MaximumFragmentCount = 2
  MaximumFrameId = 3
  FirstFrameId = 3
  SendBound = 3
  FaultBound = 1
SPECIFICATION LinkSpec
INVARIANTS SentIsParsable WrittenIsReceived
PROPERTIES ImplementsChannel
