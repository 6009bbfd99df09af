\* One connection, two services, two workers.
CONSTANTS
  Conns = {c1}
  Workers = {w1, w2}
  ServiceCount = 2
  MaxConnections = 1
  NoConn = NoConn
SPECIFICATION FairSpec
INVARIANT TypeOK
PROPERTY ReclaimedIdle EventuallyDestroyed
CHECK_DEADLOCK FALSE
