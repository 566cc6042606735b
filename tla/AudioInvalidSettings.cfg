CONSTANTS
  QueueBound = 2
  SendFailureBound = 0
SPECIFICATION Spec
INVARIANTS ApplyStopsAudio
