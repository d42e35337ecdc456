SPECIFICATION Spec
CONSTANTS
  Workers = {w1}
  t1 = t1
  t2 = t2
  Tasks = {t1}
  ApprovalIds = {a1}
  Postgres = FALSE
  Refused = {}
  MaxFaults = 1
  NoTask = NoTask
  NoApproval = NoApproval
  Mode <- AllKeyword
INVARIANTS
  EffectOnce
CHECK_DEADLOCK FALSE
