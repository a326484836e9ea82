SPECIFICATION Spec
CONSTANTS
  t1 = t1
  t2 = t2
  h1 = h1
  h2 = h2
  Tasks = {t1, t2}
  Handlers = {h1}
  Callers <- Approvers
  ToolOf <- RefundAndHealthCheck
  MaxToolRetries = 1
  MaxComp = 1
INVARIANT FailedMeansNoEffect
INVARIANT EffectAuthorized
