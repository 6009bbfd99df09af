\* As ConnectionReceive.cfg, with two workers under backpressure.
CONSTANTS
  c1 = c1
  c2 = c2
  game = game
  w1 = w1
  w2 = w2
  Unknown = Unknown
  Huge = Huge
  Conns = {c1, c2}
  Workers = {w1, w2}
  Lanes = {game}
  Chunk = 4
  MinFree = 3
  MaxCapacity = 8
  InboundCap = 1
  Setups <- MCTwoWorkers
SPECIFICATION Spec
INVARIANT NoReceiveWhilePaused
CHECK_DEADLOCK FALSE
