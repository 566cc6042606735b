CONSTANTS
  QueueBound = 5
  SendFailureBound = 1
SPECIFICATION Spec
INVARIANTS TypeOK PanelClaimsNothing PanelKnowsAudio
PROPERTIES ClicksAreAnswered
