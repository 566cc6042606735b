CONSTANTS
  p1 = p1
  p2 = p2
  Peer <- MCPeer
  NoFrame = NoFrame
  MaxFrames = 4
  MaxGeneration = 4
SPECIFICATION Spec
INVARIANTS TypeOK OneOutstandingDecode NoStaleDisplay PendingIsNewest NothingHandledTwice
PROPERTIES ImplementsView
