SPECIFICATION FairSpec
CONSTANTS
  Workers = {w1}
  t1 = t1
  t2 = t2
  Tasks = {t1, t2}
  ApprovalIds = {a1, a2, a3}
  Postgres = FALSE
  Refused = {a3}
  MaxFaults = 0
  NoTask = NoTask
  NoApproval = NoApproval
  Mode <- MixedMode
INVARIANTS
  TypeOK
  EffectOnce
  AuditTellsDecision
  StoresAgree
PROPERTIES
  RejectionCancels
  ResumeConcludes
  ClaimSettles
  GateSpec
CHECK_DEADLOCK FALSE
