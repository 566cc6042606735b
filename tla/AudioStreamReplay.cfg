CONSTANTS
  SequenceModulus = 32
  PrebufferPackets = 3
  MaximumBufferedPackets = 10
  ConsecutiveMissingRebufferThreshold = 5
  ObviousSequenceJump = 12
  Session <- MCSession
  Payload <- MCPayload
  Silence = Silence
  Nothing = Nothing
  FirstSequence = 1
  PacketBound = 3
  ReorderWindow = 4
  Stray <- MCStray
SPECIFICATION StreamSpec
PROPERTIES NoReplay
