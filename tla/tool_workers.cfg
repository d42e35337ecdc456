SPECIFICATION Spec
CONSTANTS
  Workers = {w1, w2}
  t1 = t1
  t2 = t2
  Tasks = {t1, t2}
  ApprovalIds = {a1, a2}
  Postgres = FALSE
  Refused = {}
  MaxFaults = 1
  NoTask = NoTask
  NoApproval = NoApproval
  Mode <- MixedMode
INVARIANTS
  ApprovedBeforeCall
  GraphCallsOnce
  ClaimExclusive
  ConsumedMeansRun
PROPERTIES
  DecisionFinal
CHECK_DEADLOCK FALSE
