\* Two producers of two items each: one raises the signal while the other
\* finds it raised, and both buffers are filled twice.
CONSTANTS
  Producers = {p1, p2}
  MaxItems = 2
SPECIFICATION FairSpec
INVARIANT TypeOK NoLostWakeup
PROPERTY EventuallyHandled
