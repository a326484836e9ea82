SPECIFICATION ServicesSpec
CONSTANTS
  ann = ann
  bob = bob
  p1 = p1
  p2 = p2
  p3 = p3
  k1 = k1
  m = m
  n = n
  s1 = s1
  s2 = s2
  q1 = q1
  q2 = q2
  m1 = m1
  askM = askM
  askN = askN
  Posts = {p1, p2, p3}
  ActorOf <- AnnTwiceAndBob
  KeysOf <- OneKey
  NoKey = nokey
  Streams = {s1, s2}
  TenantOf <- StreamEach
  BusTenants = {m, n}
  QueueSize = 2
  MaxEvents = 4
  Searches = {q1, q2}
  ProcessOf <- OneCache
  Queries = {askM, askN}
  AskedBy <- OneQuestionEach
  Contents = {m1}
  OwnedBy <- OfM
  TTL = 2
  LocalEntries = 1
  SearchTime = 1
  Requests = {r1, r2, r3}
  PoolTenants = {m, n}
  Connections = {c1, c2}
  NoTenant = none
  NoConnection = noconn
  Changes = {h1, h2, h3}
  Prices = {1, 2}
  FirstPrice = 1
  Starters = {w1, w2}
  SeedDocuments = 2
  MaxCrashes = 2
INVARIANT ServicesTypeOK
INVARIANT RunOnce
INVARIANT OwnAnswer
INVARIANT GapFree
INVARIANT FreshEnough
INVARIANT OwnTrusted
INVARIANT TenantIsolation
INVARIANT ServesSeeded
PROPERTY ReversalRestores
PROPERTY StatementsEnd
PROPERTY SeedProcessesUp
CHECK_DEADLOCK FALSE
