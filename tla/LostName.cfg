\* One connection is enough for its session key to overtake Connected.
CONSTANTS
  Conns = {c1}
  InboundCap = 2
  MaxMessages = 1
  MaxFaults = 0
SPECIFICATION Spec
INVARIANT LeftoversHaveNoOwner
CHECK_DEADLOCK FALSE
