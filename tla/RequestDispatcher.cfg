\* Two workers, three keys, five requests at a cap of four.
CONSTANTS
  ka = ka
  kb = kb
  kc = kc
  r1 = r1
  r2 = r2
  r3 = r3
  r4 = r4
  r5 = r5
  Keys = {ka, kb, kc}
  Requests = {r1, r2, r3, r4, r5}
  KeyOf <- MCKeyOf
  Workers = {w1, w2}
  Cap = 4
  BatchSize = 2
SPECIFICATION FairSpec
INVARIANT TypeOK KeyExclusive ReadyExact DepthExact
PROPERTY ImplementsKeySerial
