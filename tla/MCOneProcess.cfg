SPECIFICATION CSpec
CONSTANTS
  t1 = t1
  t2 = t2
  h1 = h1
  h2 = h2
  h3 = h3
  w1 = w1
  w2 = w2
  none = none
  Tasks = {t1}
  Handlers = {h1, h2, h3}
  Callers <- OneExecutive
  ToolOf <- PriceChange
  MaxToolRetries = 0
  MaxComp = 2
  Workers = {w1}
  WorkerOf <- OneProcess
  MaxFaults = 2
  NoTask = none
SYMMETRY HandlerSymmetry
INVARIANT CTypeOK
INVARIANT OneReversal
INVARIANT CompletedIsBacked
INVARIANT ApprovedIsOnRecord
PROPERTY ReviewFinal
PROPERTY ScanComplete
PROPERTY GovernedSpec
