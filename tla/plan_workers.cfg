SPECIFICATION Spec
CONSTANTS
  Workers = {w1, w2}
  t1 = t1
  t2 = t2
  t3 = t3
  t4 = t4
  Tasks = {t1, t4}
  ApprovalIds = {a1, a2}
  Postgres = FALSE
  Refused = {}
  MaxFaults = 1
  NoTask = NoTask
  NoApproval = NoApproval
  Length = 4
  HighRisk = {2, 4}
  Unresolved <- SomeUnresolved
  Mode <- EveryMode
INVARIANTS
  StepsInOrder
  HighRiskApproved
  ProgressIsReal
CHECK_DEADLOCK FALSE
