SPECIFICATION Spec
CONSTANTS
  Workers = {w1, w2}
  t1 = t1
  t2 = t2
  Tasks = {t1}
  ApprovalIds = {a1}
  Postgres = FALSE
  Refused = {}
  MaxFaults = 0
  NoTask = NoTask
  NoApproval = NoApproval
  Mode <- AllKeyword
INVARIANTS
  AuditTellsDecision
CHECK_DEADLOCK FALSE
