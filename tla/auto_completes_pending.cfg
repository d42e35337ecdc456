SPECIFICATION Spec
CONSTANTS
  Workers = {w1}
  t1 = t1
  t2 = t2
  t3 = t3
  t4 = t4
  Tasks = {t1}
  ApprovalIds = {a1}
  Postgres = FALSE
  Refused = {}
  MaxFaults = 0
  NoTask = NoTask
  NoApproval = NoApproval
  Length = 2
  HighRisk = {2}
  Unresolved <- AllResolved
  Mode <- AllAuto
INVARIANTS
  PendingWaits
CHECK_DEADLOCK FALSE
