CONSTANTS
  QueueBound = 3
  SendFailureBound = 0
SPECIFICATION Spec
INVARIANTS StartNeedsBind
