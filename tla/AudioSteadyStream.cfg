CONSTANTS
  SequenceModulus = 32
  PrebufferPackets = 2
  MaximumBufferedPackets = 4
  ConsecutiveMissingRebufferThreshold = 3
  ObviousSequenceJump = 4
  Session <- MCSession
  Payload <- MCPayload
  Silence = Silence
  Nothing = Nothing
  FirstSent = 1
  MaxDelay = 1
  OutageBound = 8
  TheSession = 1
  pcm = pcm
SPECIFICATION SteadySpec
INVARIANTS PrebufferAbsorbsDelay
PROPERTIES PlaybackRecovers
