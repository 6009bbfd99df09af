\* As ConnectionLifetime.cfg, for the sweeper's comment.
CONSTANTS
  Conns = {c1}
  Workers = {w1, w2}
  ServiceCount = 2
  MaxConnections = 1
  NoConn = NoConn
SPECIFICATION Spec
INVARIANT DestroyedIdle
CHECK_DEADLOCK FALSE
