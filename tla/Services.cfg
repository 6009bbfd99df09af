\* One connection with its whole life on both lanes: the tables are keyed by
\* connection, and rounds begin and end at any point of it.
CONSTANTS
  Conns = {c1}
  InboundCap = 2
  MaxMessages = 3
  MaxFaults = 2
SPECIFICATION FairSpec
INVARIANT TypeOK NoOrphan EveryRequestAnswered NoNameLost
PROPERTY EventuallyRemoved
CHECK_DEADLOCK FALSE
