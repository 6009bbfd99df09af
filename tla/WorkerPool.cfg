\* Two sessions of two requests each, two workers, batches of two, one fault.
CONSTANTS
  ka = ka
  kb = kb
  s1 = s1
  s2 = s2
  h1 = h1
  c1 = c1
  w1 = w1
  w2 = w2
  Keys = {ka, kb}
  Script <- MCScript
  Kind <- MCKind
  RequestKey <- MCRequestKey
  Limit <- MCLimit
  Deadlined = {s1}
  Workers = {w1, w2}
  Shard <- MCShard
  Cap = 2
  BatchSize = 2
  MaxFaults = 1
SPECIFICATION Spec
INVARIANT TypeOK DrainComplete AnsweredInOrder SavedOnce AnswerTrue CountedOnce ReadsOwnSaves NoneForgotten
