SPECIFICATION Spec
CONSTANTS
  Limit = 2
  Sizes = {1}
  MaxPackets = 3
INVARIANT OverflowMeansFull
