CONSTANTS
  SequenceModulus = 22
  PrebufferPackets = 2
  MaximumBufferedPackets = 3
  ConsecutiveMissingRebufferThreshold = 2
  ObviousSequenceJump = 4
  Session <- MCSession
  Payload <- MCPayload
  Silence = Silence
  Nothing = Nothing
  FirstSequence = 18
  PacketBound = 8
  ReorderWindow = 4
  Stray <- MCStray
SPECIFICATION StreamSpec
INVARIANTS TypeOK BufferBounded PlaybackConsistent NothingBehindPlayback OneSessionBuffered
PROPERTIES OverflowDropsFarthest PlayedInOrder
