SPECIFICATION FairSpec
CONSTANTS
  Workers = {w1}
  t1 = t1
  t2 = t2
  t3 = t3
  t4 = t4
  Tasks = {t1, t2, t3}
  ApprovalIds = {a1, a2, a3, a4}
  Postgres = TRUE
  Refused = {}
  MaxFaults = 0
  NoTask = NoTask
  NoApproval = NoApproval
  Length = 4
  HighRisk = {2, 4}
  Unresolved <- SomeUnresolved
  Mode <- EveryMode
INVARIANTS
  TypeOK
  StepOnce
  OneOpenApproval
  PlanAgrees
PROPERTIES
  PlanResumeConcludes
CHECK_DEADLOCK FALSE
