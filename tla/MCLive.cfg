SPECIFICATION FairCSpec
CONSTANTS
  t1 = t1
  t2 = t2
  h1 = h1
  h2 = h2
  h3 = h3
  w1 = w1
  w2 = w2
  none = none
  Tasks = {t1, t2}
  Handlers = {h1, h2}
  Callers <- OneExecutive
  ToolOf <- RestartAndHealthCheck
  MaxToolRetries = 1
  MaxComp = 1
  Workers = {w1}
  WorkerOf <- OneProcess
  MaxFaults = 0
  NoTask = none
PROPERTY RequestsEnd
PROPERTY ClaimsSettle
