SPECIFICATION FairSpec
CONSTANTS
  Writers = {w1, w2, w3}
  Tenants = {m, n}
  Events = {e1, e2}
  PoolSize = 2
  Nobody = nobody
INVARIANT TypeOK
INVARIANT ChainValid
INVARIANT NothingLost
INVARIANT SomeoneProceeds
PROPERTY LogSpec
PROPERTY AppendsEnd
CHECK_DEADLOCK FALSE
