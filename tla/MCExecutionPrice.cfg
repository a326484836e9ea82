SPECIFICATION Spec
CONSTANTS
  t1 = t1
  t2 = t2
  h1 = h1
  h2 = h2
  Tasks = {t1}
  Handlers = {h1, h2}
  Callers <- OneExecutive
  ToolOf <- PriceChange
  MaxToolRetries = 0
  MaxComp = 1
SYMMETRY HandlerSymmetry
INVARIANT TypeOK
INVARIANT ReceiptTruthful
INVARIANT EvidenceFirst
PROPERTY VerdictsStand
PROPERTY LedgerSpec
