SPECIFICATION Spec
CONSTANTS
  Workers = {w1, w2}
  t1 = t1
  t2 = t2
  Tasks = {t1}
  ApprovalIds = {a1}
  Postgres = TRUE
  Refused = {}
  MaxFaults = 0
  NoTask = NoTask
  NoApproval = NoApproval
  Mode <- AllKeyword
PROPERTIES
  DecisionFinal
CHECK_DEADLOCK FALSE
