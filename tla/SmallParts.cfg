CONSTANTS
  PacketSize = 3
  CapturePackets = 2
  PlaybackPackets = 2
  SamplesPerPacket = 2
  NumberModulus = 4
  StreamBound = 15
  WireOverhead = 1
  MaximumDatagramSize = 2
  Horizon = 10
  WriteBound = 4
SPECIFICATION MCSpec
INVARIANTS PacketsWhole CaptureAccounted PlaybackAccounted NoBurst WaitsForOneAtMost
