CONSTANTS
  MaxConsecutiveReadFailures = 2
  CaptureBound = 3
  QueueBound = 4
SPECIFICATION Spec
INVARIANTS TypeOK NothingOutlivesCamera ControlsMatch SidesAgree SentInOrder
PROPERTIES ClicksAreAnswered
