SPECIFICATION Spec
CONSTANTS
  s1 = s1  x1 = x1  x2 = x2  x3 = x3  x4 = x4  j1 = j1  e1 = e1  e2 = e2
  t1 = t1  t2 = t2  t3 = t3  t4 = t4  t5 = t5
  p1 = p1  p2 = p2  p3 = p3  p4 = p4  d1 = d1  f1 = f1  f2 = f2  c1 = c1
  Requests = {s1, x1, x2, x3, x4, j1, e1, e2, t1, t2, t3, t4, t5, p1, p2, p3, p4, d1, f1, f2, c1}
  Workloads <- WorkloadsOf
  Kind <- KindOf
  Query <- QueryOf
  Provider <- ProviderOf
  DefaultProvider = "litellm"
  Mode <- ModeOf
  Rule <- RuleOf
  Keys <- AllKeys
  FallbackToMock = {s1, t4, e2}
  Injected = {x4}
  Risky = {t5}
  Templated = {"q1"}
  BudgetEnabled = TRUE
  SoftLimit = 1
  HardLimit = 2
  Estimate = 1
  ScopeTicks = 2
  CacheEnabled = TRUE
  TTL = 1
  BaseUrl = {s1, x1, x2, j1, t1, p1, p3, f1, f2}
  Settings <- SettingsOf
  Cases <- CasesOf
  BadCases <- BadCasesOf
  Limit = 3
  SkipProbe = {p2}
  Deployments <- DeploymentsOf
  MaxRetries = 1
  Costs = {1}
  MaxSchema = 1
  MaxTime = 2
  CoordinatorLLM = TRUE
  PlannerLLM = TRUE
  NoEntry = NoEntry
  NoAnswer = NoAnswer
  Idle = Idle
INVARIANTS
  TypeOK
  BudgetBound
  ChargedOnce
  AnswerReported
  GateStops
  EvidenceHonest
  ChecksAgree
PROPERTIES
  CacheHonest
