\* Two services, two workers; the third small message overflows the limit
\* when nothing has left yet.
CONSTANTS
  m1 = m1
  m2 = m2
  m3 = m3
  m4 = m4
  Senders = {s1, s2}
  Workers = {w1, w2}
  Messages = {m1, m2, m3, m4}
  Size <- MCSize
  MaxSize = 2
  SendLimit = 4
  FailureIsFinal = TRUE
SPECIFICATION FairSpec
INVARIANT TypeOK OneOutstandingSend NoLostFlush PendingCount WithinLimit NothingDropped
PROPERTY ImplementsStream
CHECK_DEADLOCK FALSE
