SPECIFICATION FairSpec
CONSTANTS
  Sessions = {s1, s2, s3}
  Locks = {l1}
  WriterConns = 2
  ReaderConns = 1
  None = None
INVARIANTS
  PoolInvariant
  NoCircularWait
PROPERTIES
  EveryRequestEnds
