CONSTANTS
  RequestBound = 2
  EventBound = 2
SPECIFICATION Spec
INVARIANTS ReleasedForGood WindowStaysClosed
PROPERTIES ImplementsOrderlyExit
