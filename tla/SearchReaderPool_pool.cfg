\* Two cancellable searches and three Ask requests share a pool of two readers, so
\* both slots may be lost while an Ask still waits.
SPECIFICATION FairSpec
CONSTANTS
  Requests = {s1, s2, a1, a2, a3}
  Traced = {s1, s2}
  Readers = {c1, c2, c3}
  Size = 2
  NoReader = NoReader
INVARIANTS
  ExclusiveBorrow
  SlotAccount
PROPERTIES
  EveryRequestEnds
\* Every request ends, and then nothing is left to do.
CHECK_DEADLOCK FALSE
