CONSTANTS
  Base = 4
  Nodes <- MCNodes
  Objects <- MCAll
  Tails <- MCTails
  TlvTags <- MCTlvTags
SPECIFICATION Spec
INVARIANTS TypeOK RoundTrip SizeExact EndNoticed FrameWhole
CHECK_DEADLOCK FALSE
