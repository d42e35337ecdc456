-------------------------- MODULE LLMServiceProofs --------------------------
(***************************************************************************)
(* Proofs about LLMService for every set of requests, every workload and   *)
(* every set of settings a process may be started with: the checks of the  *)
(* settings, the tasks and their modes, the cache of results, and the      *)
(* types.                                                                  *)
(***************************************************************************)
EXTENDS LLMService, TLAPS

-----------------------------------------------------------------------------
(* The checks of the settings.                                             *)

\* Nothing failed if and only if every check has passed.
LEMMA NothingFails ==
  ASSUME NEW checks
  PROVE  Failing(checks) = {} <=> \A c \in checks : c[2]
BY DEF Failing

\* A check among those of which none failed has passed.
LEMMA Passed ==
  ASSUME NEW checks, Failing(checks) = {}, NEW m, NEW a \in BOOLEAN, <<m, a>> \in checks
  PROVE  a
<1>1. <<m, a>>[2] = a
  OBVIOUS
<1>2. <<m, a>>[2]
  BY NothingFails, Zenon
<1>. QED BY <1>1, <1>2

\* The same of one, two and four checks.
LEMMA OneCheck ==
  ASSUME NEW m, NEW a \in BOOLEAN
  PROVE  Failing({<<m, a>>}) = {} <=> a
<1>1. <<m, a>>[2] = a
  OBVIOUS
<1>2. (\A c \in {<<m, a>>} : c[2]) <=> <<m, a>>[2]
  BY Zenon
<1>. QED BY <1>1, <1>2, NothingFails, Zenon

\* Two checks fail in nothing when both hold.
LEMMA TwoChecks ==
  ASSUME NEW m, NEW n, NEW a \in BOOLEAN, NEW b \in BOOLEAN
  PROVE  Failing({<<m, a>>, <<n, b>>}) = {} <=> a /\ b
<1>1. <<m, a>>[2] = a /\ <<n, b>>[2] = b
  OBVIOUS
<1>2. (\A c \in {<<m, a>>, <<n, b>>} : c[2]) <=> <<m, a>>[2] /\ <<n, b>>[2]
  BY Zenon
<1>. QED BY <1>1, <1>2, NothingFails, Zenon

\* Four checks fail in nothing when all hold.
LEMMA FourChecks ==
  ASSUME NEW m, NEW n, NEW o, NEW p,
         NEW a \in BOOLEAN, NEW b \in BOOLEAN, NEW c \in BOOLEAN, NEW d \in BOOLEAN
  PROVE  Failing({<<m, a>>, <<n, b>>, <<o, c>>, <<p, d>>}) = {} <=> a /\ b /\ c /\ d
<1>1. <<m, a>>[2] = a /\ <<n, b>>[2] = b /\ <<o, c>>[2] = c /\ <<p, d>>[2] = d
  OBVIOUS
<1>2. (\A x \in {<<m, a>>, <<n, b>>, <<o, c>>, <<p, d>>} : x[2])
        <=> <<m, a>>[2] /\ <<n, b>>[2] /\ <<o, c>>[2] /\ <<p, d>>[2]
  BY Zenon
<1>. QED BY <1>1, <1>2, NothingFails, Zenon

\* What a pilot without overrides asks for.
LEMMA PilotAccepts ==
  ASSUME NEW s, s.override = "none",
         {"PILOT_MODEL", "PILOT_BASE_URL", "PILOT_API_KEY"} \cap s.given = {},
         "real_llm_acceptance_enabled" \in s.on, s.provider = "litellm",
         {"real_llm_model", "real_llm_api_key_env"} \subseteq s.given, s.key = "present"
  PROVE  RefusalReasons(s) = {}
<1>. DEFINE a == PilotProvider(s) \in {"litellm", "openai_compatible"}
            b == PilotHas(s, "PILOT_MODEL", "real_llm_model")
            c == PilotProvider(s) = "openai_compatible" =>
                   PilotHas(s, "PILOT_BASE_URL", "real_llm_base_url")
            d == PilotKey(s)
<1>1. Off(s, {"real_llm_acceptance_enabled"}) = {}
  BY DEF Off
<1>2. PilotProvider(s) = "litellm"
  BY DEF PilotProvider
<1>3. a /\ b /\ c /\ d
  BY <1>2 DEF PilotHas, PilotKey
<1>4. a \in BOOLEAN /\ b \in BOOLEAN /\ c \in BOOLEAN /\ d \in BOOLEAN
  BY <1>3
<1>5. RefusalReasons(s) = Off(s, {"real_llm_acceptance_enabled"})
         \cup Failing({<<"provider", a>>, <<"model", b>>, <<"base_url", c>>, <<"key", d>>})
  BY DEF RefusalReasons
<1>. HIDE DEF a, b, c, d
<1>. QED BY <1>1, <1>3, <1>4, <1>5, FourChecks

\* What the preflight finds ready passes the gate and a pilot.
LEMMA ReadySettings ==
  ASSUME NEW s, Ready(s), s.key # "blank", s.key \in {"absent", "blank", "present"},
         s.override = "none",
         {"PILOT_MODEL", "PILOT_BASE_URL", "PILOT_API_KEY"} \cap s.given = {}
  PROVE  LLMChecks(s) \cup RefusalReasons(s) = {}
<1>1. s.provider = "litellm" /\ Key(s) # "absent" /\ "real_llm_model" \in s.given
  <2>. DEFINE a == s.provider = "litellm"
              b == Key(s) # "absent"
              c == "real_llm_model" \in s.given
              d == s.number.timeout \in 1..120
  <2>1. a \in BOOLEAN /\ b \in BOOLEAN /\ c \in BOOLEAN /\ d \in BOOLEAN
    OBVIOUS
  <2>2. Failing({<<"provider", a>>, <<"key", b>>, <<"model", c>>, <<"timeout", d>>}) = {}
    BY DEF Ready, PreflightErrors
  <2>3. a /\ b /\ c
    <3>. HIDE DEF a, b, c, d
    <3>. DEFINE checks == {<<"provider", a>>, <<"key", b>>, <<"model", c>>, <<"timeout", d>>}
    <3>1. <<"provider", a>> \in checks /\ <<"key", b>> \in checks /\ <<"model", c>> \in checks
      OBVIOUS
    <3>2. Failing(checks) = {}
      BY <2>2
    <3>. HIDE DEF checks
    <3>. QED BY <2>1, <3>1, <3>2, Passed
  <2>. QED BY <2>3
<1>2. "real_llm_acceptance_enabled" \in s.on
  BY DEF Ready, PreflightEnabled
<1>3. "real_llm_api_key_env" \in s.given /\ s.key = "present" /\ Key(s) = "present"
  BY <1>1 DEF Key
<1>4. Failing({<<"real_llm_api_key_present", Key(s) = "present">>}) = {}
  <2>. DEFINE a == Key(s) = "present"
  <2>1. a
    BY <1>3
  <2>. HIDE DEF a
  <2>2. Failing({<<"real_llm_api_key_present", a>>}) = {}
    BY <2>1, OneCheck
  <2>. QED BY <2>2 DEF a
<1>5. LLMChecks(s) = {}
  BY <1>1, <1>3, <1>4 DEF LLMChecks
<1>. QED BY <1>1, <1>2, <1>3, <1>5, PilotAccepts

\* What the gate has passed is enough for a pilot with LiteLLM.
LEMMA GatedPilot ==
  ASSUME NEW s, LLMChecks(s) = {}, "real_llm_acceptance_enabled" \in s.on,
         s.provider = "litellm", s.override = "none",
         {"PILOT_MODEL", "PILOT_BASE_URL", "PILOT_API_KEY"} \cap s.given = {}
  PROVE  RefusalReasons(s) = {}
<1>1. {"real_llm_model", "real_llm_api_key_env"} \subseteq s.given
      /\ Failing({<<"real_llm_api_key_present", Key(s) = "present">>}) = {}
  BY DEF LLMChecks
<1>2. Key(s) = "present"
  <2>. DEFINE a == Key(s) = "present"
  <2>1. Failing({<<"real_llm_api_key_present", a>>}) = {} /\ a \in BOOLEAN
    BY <1>1
  <2>. HIDE DEF a
  <2>2. a
    BY <2>1, OneCheck
  <2>. QED BY <2>2 DEF a
<1>3. s.key = "present"
  BY <1>1, <1>2 DEF Key
<1>. QED BY <1>1, <1>3, PilotAccepts

\* OIDC settings the gate has passed are valid by themselves.
LEMMA GatedOIDC ==
  ASSUME NEW s, s.env = "production", OIDCChecks(s) = {}, "oidc_enabled" \in s.on
  PROVE  RoleChecks(s) = {} /\ ValidateOIDC(s) = {}
<1>. DEFINE secret == SecretPresent(s)
            https == "oidc_require_https" \in s.on => OIDCUrls \cap s.given \subseteq s.https
            given == "oidc_client_secret_env" \in s.given => SecretPresent(s)
            secure == "oidc_require_https" \in s.on =>
                        \A url \in OIDCUrls \cap s.given : Secure(s, url)
<1>1. secret \in BOOLEAN /\ https \in BOOLEAN /\ given \in BOOLEAN /\ secure \in BOOLEAN
  BY DEF SecretPresent
<1>2. /\ RoleChecks(s) = {} /\ OIDCTexts \ s.given = {}
      /\ Failing({<<"oidc_client_secret_present", secret>>, <<"https", https>>}) = {}
  BY DEF OIDCChecks
<1>3. secret /\ https
  <2>. HIDE DEF secret, https
  <2>. QED BY <1>1, <1>2, TwoChecks
<1>4. given /\ secure
  BY <1>3 DEF Secure
<1>5. Failing({<<"secret", given>>, <<"https", secure>>}) = {}
  <2>. HIDE DEF given, secure
  <2>. QED BY <1>1, <1>4, TwoChecks
<1>. QED BY <1>2, <1>5 DEF ValidateOIDC

\* Valid role settings give nobody a role that they do not allow.
LEMMA GatedRoles ==
  ASSUME NEW s, RoleChecks(s) = {}, NEW claimed
  PROVE  MapRoles(s, claimed) \subseteq RolesOf(s) /\ MapRoles(s, claimed) # {}
<1>1. s.role \in AllowedRoles \cap RolesOf(s)
  <2>. DEFINE a == s.roles # <<>> /\ RolesOf(s) \subseteq AllowedRoles
              b == s.role \in AllowedRoles \cap RolesOf(s)
  <2>1. a \in BOOLEAN /\ b \in BOOLEAN
    OBVIOUS
  <2>2. Failing({<<"oidc_allowed_roles_valid", a>>, <<"oidc_default_role_valid", b>>}) = {}
    BY DEF RoleChecks
  <2>3. b
    <3>. HIDE DEF a, b
    <3>. QED BY <2>1, <2>2, TwoChecks
  <2>. QED BY <2>3
<1>. QED BY <1>1 DEF MapRoles

\* What the gate says is what it has found in the settings of some process.
GateAnswer ==
  gate # NoAnswer => gate.settings \in Deployments
                     /\ gate.errors = DeploymentErrors(gate.settings)

\* Only a deployment check changes the answer of the gate.
LEMMA GateAnswerStep ==
  ASSUME GateAnswer, [Next]_pilotVars
  PROVE  GateAnswer'
<1>1. CASE gate' = gate
  BY <1>1 DEF GateAnswer
<1>2. ASSUME NEW r \in Open, ArriveCheck(r) PROVE GateAnswer'
  <2>1. PICK s \in Deployments : gate' = [settings |-> s, errors |-> DeploymentErrors(s)]
    BY <1>2 DEF ArriveCheck
  <2>. QED BY <2>1 DEF GateAnswer
<1>3. ASSUME NEW r \in Open, ArrivePreflight(r) PROVE gate' = gate
  BY <1>3 DEF ArrivePreflight
<1>4. ASSUME NEW r \in Open, PilotStep(r) PROVE gate' = gate
  BY <1>4 DEF PilotStep, StartPilot, ProbeEnds, Load, DangerousCase, NormalCase, CaseEnds,
       Evaluated, WriteJson, WriteMarkdown, Writes, Others
<1>. QED BY <1>1, <1>2, <1>3, <1>4 DEF Next, Finished, pilotVars

\* The answer and the lemmas about settings, put together.
LEMMA GateAnswerMeans ==
  ASSUME GateAnswer, LLMPilotAssumption
  PROVE  ChecksAgree
<1>. SUFFICES ASSUME gate # NoAnswer PROVE ChecksAgree
  BY DEF ChecksAgree
<1>. DEFINE s == gate.settings
            bare == /\ s.override = "none"
                    /\ {"PILOT_MODEL", "PILOT_BASE_URL", "PILOT_API_KEY"} \cap s.given = {}
            accepts == "real_llm_acceptance_enabled" \in s.on
<1>1. s \in Deployments /\ gate.errors = DeploymentErrors(s)
  BY DEF GateAnswer
<1>2. s.key \in {"absent", "blank", "present"}
  BY <1>1 DEF LLMPilotAssumption
<1>3. bare /\ Ready(s) /\ s.key # "blank" => LLMChecks(s) \cup RefusalReasons(s) = {}
  BY <1>2, ReadySettings
<1>4. ASSUME s.env = "production", gate.errors = {}
      PROVE  /\ bare /\ accepts /\ s.provider = "litellm" => RefusalReasons(s) = {}
             /\ "oidc_enabled" \in s.on =>
                  /\ ValidateOIDC(s) = {}
                  /\ \A claimed \in SUBSET (AllowedRoles \cup {"root"}) :
                       MapRoles(s, claimed) \subseteq RolesOf(s) /\ MapRoles(s, claimed) # {}
  <2>1. LLMChecks(s) = {} /\ OIDCChecks(s) = {}
    BY <1>1, <1>4 DEF DeploymentErrors
  <2>2. bare /\ accepts /\ s.provider = "litellm" => RefusalReasons(s) = {}
    BY <2>1, GatedPilot
  <2>3. "oidc_enabled" \in s.on => RoleChecks(s) = {} /\ ValidateOIDC(s) = {}
    BY <1>4, <2>1, GatedOIDC
  <2>. QED BY <2>2, <2>3, GatedRoles
<1>. QED BY <1>3, <1>4 DEF ChecksAgree

\* The checks of the settings agree with one another, in every process.
THEOREM ChecksAgreeAlways == Spec => []ChecksAgree
<1>1. Init => GateAnswer
  BY DEF Init, InitPilots, GateAnswer
<1>2. GateAnswer /\ [Next]_pilotVars => GateAnswer'
  BY GateAnswerStep
<1>3. GateAnswer => ChecksAgree
  BY GateAnswerMeans, LLMPilotAssumption
<1>. QED BY <1>1, <1>2, <1>3, PTL DEF Spec

-----------------------------------------------------------------------------
(* What a step of a request leaves alone.                                  *)

Frame(q) ==
  /\ DOMAIN job' = DOMAIN job
  /\ \A r \in DOMAIN job : r # q => job'[r] = job[r]
TaskFrame(q) ==
  /\ DOMAIN task' = DOMAIN task
  /\ \A r \in DOMAIN task : r # q => task'[r] = task[r]

\* Every handler writes the job of its own request.
LEMMA UpdateFrame ==
  ASSUME NEW q, NEW j, Update(q, j)
  PROVE  Frame(q)
BY DEF Update, Frame

\* Going on is within the frame.
LEMMA GotoFrame ==
  ASSUME NEW q, NEW p, Goto(q, p)
  PROVE  Frame(q)
BY DEF Goto, Frame

\* So is ending.
LEMMA EndFrame ==
  ASSUME NEW q, NEW p, End(q, p)
  PROVE  Frame(q)
BY UpdateFrame DEF End

\* A step of the pipeline, of an endpoint, of a pilot touches one job.
LEMMA PipelineFrame ==
  ASSUME NEW q, PipelineStep(q)
  PROVE  Frame(q)
<1>1. ASSUME Generate(q) PROVE Frame(q)
  BY <1>1, UpdateFrame DEF Generate
<1>2. ASSUME GenerateRaises(q) PROVE Frame(q)
  BY <1>2, GotoFrame DEF GenerateRaises
<1>3. ASSUME Check(q) PROVE Frame(q)
  BY <1>3, UpdateFrame, GotoFrame DEF Check
<1>4. ASSUME LookupHit(q) PROVE Frame(q)
  BY <1>4, UpdateFrame DEF LookupHit
<1>5. ASSUME LookupMiss(q) PROVE Frame(q)
  BY <1>5, UpdateFrame, GotoFrame DEF LookupMiss
<1>6. ASSUME NEW usable, NEW cost, NEW loses, Answered(q, usable, cost, loses) PROVE Frame(q)
  BY <1>6, UpdateFrame DEF Answered
<1>7. ASSUME FakeAnswers(q) \/ LiteLLMAnswers(q) \/ OpenAIAnswers(q) \/ CompatibleAnswers(q)
      PROVE  Frame(q)
  BY <1>6, <1>7 DEF FakeAnswers, LiteLLMAnswers, OpenAIAnswers, CompatibleAnswers,
       UnpricedAnswer, AnyAnswer
<1>8. ASSUME LiteLLMErrs(q) \/ OpenAIErrs(q) \/ CompatibleErrs(q) PROVE Frame(q)
  BY <1>8, UpdateFrame, GotoFrame DEF LiteLLMErrs, OpenAIErrs, CompatibleErrs, Erred
<1>9. ASSUME Record(q) \/ Store(q) PROVE Frame(q)
  BY <1>9, GotoFrame DEF Record, Store
<1>. QED BY <1>1, <1>2, <1>3, <1>4, <1>5, <1>7, <1>8, <1>9 DEF PipelineStep

\* The endpoints stay within the frame.
LEMMA EndpointFrame ==
  ASSUME NEW q, EndpointStep(q)
  PROVE  Frame(q)
<1>1. ASSUME Arrive(q) PROVE Frame(q)
  BY <1>1, UpdateFrame, GotoFrame DEF Arrive
<1>2. ASSUME Reply(q) \/ FinishStream(q) \/ Disconnect(q) PROVE Frame(q)
  BY <1>2, EndFrame DEF Reply, FinishStream, Disconnect
<1>3. ASSUME ArriveBadCases(q) \/ NextBadCase(q) PROVE Frame(q)
  BY <1>3, UpdateFrame DEF ArriveBadCases, NextBadCase, JudgeCase
<1>4. ASSUME ArriveEval(q) \/ EvaluateCase(q) \/ ExplainFailure(q) PROVE Frame(q)
  BY <1>4, UpdateFrame DEF ArriveEval, EvaluateCase, ExplainFailure
<1>5. ASSUME EvalRaises(q) \/ CaseEvaluated(q) \/ AdvanceStream(q) PROVE Frame(q)
  BY <1>5, GotoFrame DEF EvalRaises, CaseEvaluated, AdvanceStream
<1>6. ASSUME OpenStream(q) PROVE Frame(q)
  BY <1>6, UpdateFrame, GotoFrame DEF OpenStream
<1>. QED BY <1>1, <1>2, <1>3, <1>4, <1>5, <1>6 DEF EndpointStep

\* So do pilots, preflights and deployment checks.
LEMMA PilotFrame ==
  ASSUME NEW q, PilotStep(q) \/ ArrivePreflight(q) \/ ArriveCheck(q)
  PROVE  Frame(q)
<1>1. ASSUME StartPilot(q) PROVE Frame(q)
  BY <1>1, UpdateFrame, EndFrame DEF StartPilot, Exit
<1>2. ASSUME ProbeEnds(q) \/ Load(q) PROVE Frame(q)
  BY <1>2, UpdateFrame, GotoFrame, EndFrame DEF ProbeEnds, Load, Exit
<1>3. ASSUME DangerousCase(q) \/ CaseEnds(q) PROVE Frame(q)
  BY <1>3, GotoFrame DEF DangerousCase, CaseEnds, Put
<1>4. ASSUME NormalCase(q) PROVE Frame(q)
  BY <1>4, UpdateFrame DEF NormalCase
<1>5. ASSUME Evaluated(q) \/ WriteJson(q) \/ WriteMarkdown(q) PROVE Frame(q)
  BY <1>5, GotoFrame, EndFrame DEF Evaluated, WriteJson, WriteMarkdown, Writes, Exit
<1>6. ASSUME ArrivePreflight(q) PROVE Frame(q)
  BY <1>6, UpdateFrame DEF ArrivePreflight
<1>7. ASSUME ArriveCheck(q) PROVE Frame(q)
  BY <1>7, EndFrame DEF ArriveCheck
<1>. QED BY <1>1, <1>2, <1>3, <1>4, <1>5, <1>6, <1>7 DEF PilotStep

-----------------------------------------------------------------------------
(* What the steps of a task come to.                                       *)

TaskFields == {"selected", "todo", "runs", "fallback", "adopted"}
TaskRecord(t) == DOMAIN t = TaskFields /\ t.runs \in Seq(Runs)

\* The requests and the tasks are where they belong.
Shape ==
  /\ DOMAIN job = Requests /\ DOMAIN task = Tasks
  /\ \A r \in Tasks : TaskRecord(task[r])

\* A task that concludes is done.
LEMMA ConcludeMeans ==
  ASSUME Shape, NEW r \in Tasks, NEW t, Conclude(r, t)
  PROVE  /\ Frame(r) /\ TaskFrame(r)
         /\ task'[r] = t /\ job'[r] = [NewJob EXCEPT !.at = "done"] /\ At(r, "done")'
<1>1. r \in DOMAIN job /\ r \in DOMAIN task
  BY DEF Shape, Tasks
<1>2. Frame(r)
  BY EndFrame DEF Conclude
<1>3. job'[r] = [NewJob EXCEPT !.at = "done"]
  BY <1>1 DEF Conclude, End, Update
<1>4. job'[r].at = "done"
  BY <1>3 DEF NewJob
<1>. QED BY <1>1, <1>2, <1>3, <1>4 DEF Conclude, TaskFrame, At

\* A task that starts a run has one mode less to try.
LEMMA StartRunMeans ==
  ASSUME Shape, NEW r \in Tasks, NEW t, DOMAIN t = TaskFields, StartRun(r, t)
  PROVE  /\ Frame(r) /\ TaskFrame(r)
         /\ task'[r] = [t EXCEPT !.todo = Tail(@)]
         /\ DOMAIN task'[r] = TaskFields
         /\ task'[r].runs = t.runs /\ task'[r].selected = t.selected
         /\ task'[r].todo = Tail(t.todo)
<1>1. r \in DOMAIN job /\ r \in DOMAIN task
  BY DEF Shape, Tasks
<1>2. Frame(r)
  BY UpdateFrame DEF StartRun
<1>3. task' = [task EXCEPT ![r] = [t EXCEPT !.todo = Tail(@)]]
  BY DEF StartRun
<1>4. task'[r] = [t EXCEPT !.todo = Tail(@)] /\ TaskFrame(r)
  BY <1>1, <1>3 DEF TaskFrame
<1>. QED BY <1>2, <1>4 DEF TaskFields

\* A run that ends is followed by the next of its cascade, by the reviewer's
\* fallback, or by the end of the task.
CascadeGoesOn(r, run) ==
  /\ ~run.success /\ task[r].todo # <<>>
  /\ \E t : DOMAIN t = TaskFields /\ t.todo = task[r].todo /\ StartRun(r, t)
  /\ task'[r].selected = task[r].selected /\ task'[r].todo = Tail(task[r].todo)
FallsBack(r, run) ==
  /\ ~run.success /\ ~run.blocked /\ task[r].selected # "auto"
  /\ Mode[r] = "multi_agent"
  /\ LET mode == SuggestFallback(task[r].selected) IN
     /\ \E t : DOMAIN t = TaskFields /\ t.todo = Cascade(mode) /\ StartRun(r, t)
     /\ task'[r].selected = mode /\ task'[r].todo = Tail(Cascade(mode))
Concludes(r, run) ==
  /\ At(r, "done")' /\ job'[r] = [NewJob EXCEPT !.at = "done"]
  /\ task'[r].todo = <<>> /\ task'[r].selected = task[r].selected
  /\ run.success => task'[r].adopted = Len(task'[r].runs)

\* RunEnds, taken apart: one run more, and one of three ways on.
LEMMA RunEndsMeans ==
  ASSUME Shape, NEW r \in Tasks, NEW run \in Runs, RunEnds(r, run)
  PROVE  /\ Frame(r) /\ TaskFrame(r)
         /\ TaskRecord(task'[r]) /\ task'[r].runs = Append(task[r].runs, run)
         /\ CascadeGoesOn(r, run) \/ FallsBack(r, run) \/ Concludes(r, run)
<1>. DEFINE t == [task[r] EXCEPT !.runs = Append(@, run)]
            reported == [t EXCEPT !.todo = <<>>,
                           !.adopted = IF Adopt(t, run) THEN Len(t.runs) ELSE @]
            mode == SuggestFallback(t.selected)
            u == [reported EXCEPT !.selected = mode, !.fallback = TRUE, !.todo = Cascade(mode)]
<1>1. TaskRecord(task[r])
  BY DEF Shape
<1>2. /\ TaskRecord(t) /\ t.runs = Append(task[r].runs, run)
      /\ t.todo = task[r].todo /\ t.selected = task[r].selected
  BY <1>1 DEF TaskRecord, TaskFields
<1>3. /\ TaskRecord(reported) /\ reported.runs = t.runs /\ reported.todo = <<>>
      /\ reported.selected = t.selected /\ (run.success => reported.adopted = Len(t.runs))
  BY <1>2 DEF TaskRecord, TaskFields, Adopt
<1>4. TaskRecord(u) /\ u.runs = t.runs /\ u.todo = Cascade(mode) /\ u.selected = mode
  BY <1>3 DEF TaskRecord, TaskFields
<1>9. mode = SuggestFallback(task[r].selected)
  BY <1>2
<1>. HIDE DEF t, reported, mode, u
<1>5. CASE ~run.success /\ t.todo # <<>> /\ StartRun(r, t)
  <2>1. /\ Frame(r) /\ TaskFrame(r) /\ DOMAIN task'[r] = TaskFields
        /\ task'[r].runs = t.runs /\ task'[r].selected = t.selected
        /\ task'[r].todo = Tail(t.todo)
    BY <1>2, <1>5, StartRunMeans DEF TaskRecord
  <2>. QED BY <1>2, <1>5, <2>1 DEF TaskRecord, CascadeGoesOn
<1>6. CASE /\ Mode[r] = "multi_agent" /\ ~run.success
           /\ FallbackAllowed(r, run) /\ StartRun(r, u)
  <2>1. /\ Frame(r) /\ TaskFrame(r) /\ DOMAIN task'[r] = TaskFields
        /\ task'[r].runs = u.runs /\ task'[r].selected = u.selected
        /\ task'[r].todo = Tail(u.todo)
    BY <1>4, <1>6, StartRunMeans DEF TaskRecord
  <2>2. FallsBack(r, run)
    BY <1>2, <1>4, <1>9, <1>6, <2>1 DEF FallsBack, FallbackAllowed, TaskRecord
  <2>. QED BY <1>2, <1>4, <2>1, <2>2 DEF TaskRecord
<1>7. CASE Conclude(r, reported)
  <2>1. /\ Frame(r) /\ TaskFrame(r) /\ task'[r] = reported
        /\ job'[r] = [NewJob EXCEPT !.at = "done"] /\ At(r, "done")'
    BY <1>7, ConcludeMeans
  <2>. QED BY <1>2, <1>3, <2>1 DEF Concludes
<1>8. \/ ~run.success /\ t.todo # <<>> /\ StartRun(r, t)
      \/ /\ Mode[r] = "multi_agent" /\ ~run.success
         /\ FallbackAllowed(r, run) /\ StartRun(r, u)
      \/ Conclude(r, reported)
  BY DEF RunEnds, t, reported, mode, u
<1>. QED BY <1>5, <1>6, <1>7, <1>8

\* A task that decides on a mode keeps the runs it has had.
LEMMA SelectMeans ==
  ASSUME Shape, NEW r \in Tasks, NEW mode, Select(r, mode)
  PROVE  /\ Frame(r) /\ TaskFrame(r) /\ DOMAIN task'[r] = TaskFields
         /\ task'[r].runs = task[r].runs
         /\ task'[r].selected = mode /\ task'[r].todo = Tail(Cascade(mode))
<1>. DEFINE t == [task[r] EXCEPT !.selected = mode, !.todo = Cascade(mode)]
<1>1. /\ DOMAIN t = TaskFields /\ t.runs = task[r].runs
      /\ t.selected = mode /\ t.todo = Cascade(mode)
  BY DEF Shape, TaskRecord, TaskFields
<1>2. StartRun(r, t)
  BY DEF Select
<1>. HIDE DEF t
<1>3. /\ Frame(r) /\ TaskFrame(r) /\ DOMAIN task'[r] = TaskFields
      /\ task'[r].runs = t.runs /\ task'[r].selected = t.selected
      /\ task'[r].todo = Tail(t.todo)
  BY <1>1, <1>2, StartRunMeans
<1>. QED BY <1>1, <1>3

RunStep(r) ==
  \/ \E run \in Runs : RunEnds(r, run)
  \/ RunRaises(r)

\* An outcome is a run.
LEMMA OutcomeIsRun ==
  ASSUME NEW mode \in RunModes, NEW how
  PROVE  Outcome(mode, how) \in Runs
BY DEF Outcome, Runs

\* A step of a task ends a run of it, or leaves its runs alone.
LEMMA TaskStepMeans ==
  ASSUME Shape, NEW r \in Tasks, TaskStep(r)
  PROVE  RunStep(r) \/ (/\ Frame(r) /\ TaskFrame(r) /\ TaskRecord(task'[r])
                        /\ task'[r].runs = task[r].runs \/ task'[r].runs = <<>>)
<1>. DEFINE Stays == /\ Frame(r) /\ TaskFrame(r) /\ TaskRecord(task'[r])
                     /\ task'[r].runs = task[r].runs \/ task'[r].runs = <<>>
<1>0. TaskRecord(task[r]) /\ r \in DOMAIN task
  BY DEF Shape
<1>1. ASSUME task' = task PROVE TaskFrame(r) /\ TaskRecord(task'[r])
  BY <1>0, <1>1 DEF TaskFrame
<1>2. ASSUME ArriveTask(r) PROVE Stays
  <2>. DEFINE t == [NewTask EXCEPT !.selected = Mode[r], !.todo = Cascade(Mode[r])]
  <2>1. CASE task' = task
    BY <1>1, <1>2, <2>1, UpdateFrame, GotoFrame DEF ArriveTask
  <2>2. CASE task' = [task EXCEPT ![r] = t] /\ Goto(r, "next")
    <3>1. TaskRecord(t) /\ t.runs = <<>>
      BY DEF NewTask, TaskRecord, TaskFields, Runs
    <3>. HIDE DEF t
    <3>2. task'[r] = t /\ TaskFrame(r)
      BY <1>0, <2>2 DEF TaskFrame
    <3>. QED BY <2>2, <3>1, <3>2, GotoFrame
  <2>. QED BY <1>2, <2>1, <2>2 DEF ArriveTask
<1>3. ASSUME ConcludeRefused(r) PROVE Stays
  BY <1>0, <1>3, ConcludeMeans DEF ConcludeRefused
<1>4. ASSUME NextRun(r) PROVE Stays
  BY <1>0, <1>4, StartRunMeans DEF NextRun, TaskRecord
<1>5. ASSUME RouteByLLM(r) \/ RouteByRule(r) PROVE Stays
  BY <1>0, <1>5, SelectMeans DEF RouteByLLM, RouteByRule, TaskRecord
<1>6. ASSUME Planned(r) PROVE Stays
  BY <1>1, <1>6, GotoFrame DEF Planned
<1>7. ASSUME NL2SQLRunEnds(r) \/ MultitoolRunEnds(r) \/ KeywordRunEnds(r) PROVE RunStep(r)
  BY <1>7, OutcomeIsRun DEF NL2SQLRunEnds, MultitoolRunEnds, KeywordRunEnds, RunStep, RunModes
<1>. QED BY <1>2, <1>3, <1>4, <1>5, <1>6, <1>7 DEF TaskStep, RunStep

\* A run that raised has failed.
LEMMA RunRaisesMeans ==
  ASSUME Shape, NEW r \in Tasks, RunRaises(r)
  PROVE  /\ Frame(r) /\ TaskFrame(r) /\ TaskRecord(task'[r])
         /\ \E run \in Runs : ~run.success /\ ~run.blocked
                              /\ task'[r].runs = Append(task[r].runs, run)
         /\ task'[r].selected = task[r].selected
         /\ Mode[r] # "auto" => At(r, "done")' /\ task'[r].todo = <<>>
<1>. DEFINE mode == IF At(r, "raised") THEN "nl2sql" ELSE "multitool"
            run == Outcome(mode, "failed")
            t == [task[r] EXCEPT !.runs = Append(@, run)]
            u == [t EXCEPT !.todo = <<"keyword">>]
            v == [t EXCEPT !.todo = <<>>,
                         !.adopted = IF Mode[r] = "multi_agent" THEN 0 ELSE Len(t.runs)]
<1>1. run \in Runs /\ ~run.success /\ ~run.blocked
  BY OutcomeIsRun DEF Outcome, RunModes
<1>2. IF Mode[r] = "auto" THEN StartRun(r, u) ELSE Conclude(r, v)
  BY DEF RunRaises
<1>3. TaskRecord(task[r])
  BY DEF Shape
<1>. HIDE DEF run
<1>4. /\ TaskRecord(t) /\ t.runs = Append(task[r].runs, run)
      /\ t.selected = task[r].selected
  BY <1>1, <1>3 DEF TaskRecord, TaskFields
<1>. HIDE DEF t
<1>5. TaskRecord(u) /\ u.runs = t.runs /\ u.selected = t.selected
  BY <1>4 DEF TaskRecord, TaskFields
<1>6. TaskRecord(v) /\ v.runs = t.runs /\ v.selected = t.selected /\ v.todo = <<>>
  BY <1>4 DEF TaskRecord, TaskFields
<1>. HIDE DEF u, v
<1>7. CASE Mode[r] = "auto"
  BY <1>1, <1>2, <1>4, <1>5, <1>7, StartRunMeans DEF TaskRecord
<1>8. CASE Mode[r] # "auto"
  BY <1>1, <1>2, <1>4, <1>6, <1>8, ConcludeMeans DEF TaskRecord
<1>. QED BY <1>7, <1>8

-----------------------------------------------------------------------------
(* AnswerReported.                                                         *)

\* A step is one of a task, or changes no task and no other request's job.
LEMMA StepMeans ==
  ASSUME [Next]_pilotVars
  PROVE  \/ UNCHANGED <<job, task>>
         \/ \E q \in Open : /\ Frame(q) /\ UNCHANGED task
                            /\ PipelineStep(q) \/ EndpointStep(q) \/ ArrivePreflight(q)
                               \/ ArriveCheck(q) \/ (q \in Pilots /\ PilotStep(q))
         \/ \E q \in Open \cap Tasks : TaskStep(q)
<1>1. CASE UNCHANGED pilotVars
  BY <1>1 DEF pilotVars, taskVars, vars
<1>2. CASE Finished
  BY <1>2 DEF Finished, pilotVars, taskVars, vars
<1>3. CASE Environment /\ UNCHANGED <<task, pilot, gate>>
  BY <1>3 DEF Environment
<1>4. ASSUME NEW q \in Open, PipelineStep(q) \/ EndpointStep(q) PROVE Frame(q)
  BY <1>4, PipelineFrame, EndpointFrame
<1>5. ASSUME NEW q \in Open, PilotStep(q) \/ ArrivePreflight(q) \/ ArriveCheck(q) PROVE Frame(q)
  BY <1>5, PilotFrame
<1>. QED BY <1>1, <1>2, <1>3, <1>4, <1>5 DEF Next

\* Shape is kept by every step.
LEMMA ShapeStep ==
  ASSUME Shape, [Next]_pilotVars
  PROVE  Shape'
<1>1. CASE UNCHANGED <<job, task>>
  BY <1>1 DEF Shape, TaskRecord
<1>2. ASSUME NEW q \in Open, Frame(q), UNCHANGED task PROVE Shape'
  BY <1>2 DEF Shape, TaskRecord, Frame
<1>3. ASSUME NEW q \in Tasks, Frame(q), TaskFrame(q), TaskRecord(task'[q]) PROVE Shape'
  BY <1>3 DEF Shape, Frame, TaskFrame, TaskRecord
<1>4. ASSUME NEW q \in Tasks, TaskStep(q) PROVE Shape'
  <2>1. CASE \E run \in Runs : RunEnds(q, run)
    BY <1>3, <2>1, RunEndsMeans
  <2>2. CASE RunRaises(q)
    BY <1>3, <2>2, RunRaisesMeans
  <2>3. CASE Frame(q) /\ TaskFrame(q) /\ TaskRecord(task'[q])
    BY <1>3, <2>3
  <2>. QED BY <1>4, <2>1, <2>2, <2>3, TaskStepMeans DEF RunStep
<1>. QED BY <1>1, <1>2, <1>4, StepMeans

\* What AnswerReported says of one task.
TaskReported(r) ==
  \A i \in 1..Len(task[r].runs) : task[r].runs[i].success =>
    i = Len(task[r].runs) /\ At(r, "done") /\ task[r].adopted = i

\* No run of a task that has not come to its end has succeeded, so that only
\* the run that ends now can have.
LEMMA TaskReportedStep ==
  ASSUME Shape, NEW r \in Tasks, TaskReported(r), ~At(r, "done"), TaskStep(r)
  PROVE  TaskReported(r)'
<1>1. task[r].runs \in Seq(Runs)
      /\ \A i \in 1..Len(task[r].runs) : ~task[r].runs[i].success
  BY DEF Shape, TaskRecord, TaskReported
<1>2. ASSUME NEW run \in Runs, task'[r].runs = Append(task[r].runs, run),
             run.success => At(r, "done")' /\ task'[r].adopted = Len(task'[r].runs)
      PROVE  TaskReported(r)'
  <2>1. SUFFICES ASSUME NEW i \in 1..Len(task'[r].runs), task'[r].runs[i].success
                 PROVE  i = Len(task'[r].runs) /\ At(r, "done")' /\ task'[r].adopted = i
    BY DEF TaskReported
  <2>2. Len(task'[r].runs) = Len(task[r].runs) + 1 /\ Len(task[r].runs) \in Nat
    BY <1>1, <1>2
  <2>3. i = Len(task'[r].runs)
    <3>1. SUFFICES ASSUME i # Len(task'[r].runs) PROVE FALSE
      OBVIOUS
    <3>2. i \in 1..Len(task[r].runs)
      BY <2>2, <3>1
    <3>3. task'[r].runs[i] = task[r].runs[i]
      BY <1>1, <1>2, <3>2
    <3>. QED BY <1>1, <2>1, <3>2, <3>3
  <2>4. run.success
    BY <1>1, <1>2, <2>1, <2>2, <2>3
  <2>. QED BY <1>2, <2>3, <2>4
<1>3. ASSUME NEW run \in Runs, RunEnds(r, run) PROVE TaskReported(r)'
  BY <1>2, <1>3, RunEndsMeans DEF CascadeGoesOn, FallsBack, Concludes
<1>4. ASSUME RunRaises(r) PROVE TaskReported(r)'
  BY <1>2, <1>4, RunRaisesMeans
<1>5. ASSUME task'[r].runs = task[r].runs \/ task'[r].runs = <<>> PROVE TaskReported(r)'
  BY <1>1, <1>5 DEF TaskReported
<1>. QED BY <1>3, <1>4, <1>5, TaskStepMeans DEF RunStep

\* AnswerReported is kept by every step.
LEMMA AnswerReportedStep ==
  ASSUME Shape, AnswerReported, [Next]_pilotVars
  PROVE  AnswerReported'
<1>1. SUFFICES ASSUME NEW r \in Tasks PROVE TaskReported(r)'
  BY DEF AnswerReported, TaskReported
<1>2. TaskReported(r) /\ r \in DOMAIN job /\ r \in DOMAIN task
  BY DEF AnswerReported, TaskReported, Shape, Tasks
<1>3. CASE task'[r] = task[r] /\ job'[r] = job[r]
  BY <1>2, <1>3 DEF TaskReported, At
<1>4. ASSUME NEW q \in Open, Frame(q), UNCHANGED task PROVE TaskReported(r)'
  <2>1. CASE q = r
    <3>1. ~At(r, "done")
      BY <1>4, <2>1 DEF Open, At
    <3>. QED BY <1>2, <1>4, <3>1 DEF TaskReported
  <2>2. CASE q # r
    BY <1>2, <1>3, <1>4, <2>2 DEF Frame
  <2>. QED BY <2>1, <2>2
<1>5. ASSUME NEW q \in Open \cap Tasks, TaskStep(q) PROVE TaskReported(r)'
  <2>1. CASE q = r
    <3>1. ~At(r, "done")
      BY <2>1 DEF Open, At
    <3>. QED BY <1>2, <1>5, <2>1, <3>1, TaskReportedStep
  <2>2. CASE q # r
    <3>1. Frame(q) /\ TaskFrame(q)
      BY <1>5, TaskStepMeans, RunEndsMeans, RunRaisesMeans DEF RunStep
    <3>. QED BY <1>2, <1>3, <2>2, <3>1 DEF Frame, TaskFrame
  <2>. QED BY <2>1, <2>2
<1>. QED BY <1>3, <1>4, <1>5, StepMeans

\* Nothing has been run at the beginning.
LEMMA InitShape ==
  ASSUME Init
  PROVE  Shape /\ \A r \in Tasks : task[r] = NewTask
<1>1. task = [r \in Tasks |-> NewTask]
  BY DEF Init, InitPilots, InitTasks
<1>2. DOMAIN job = Requests
  BY DEF Init, InitPilots, InitTasks, InitRequests
<1>3. DOMAIN NewTask = TaskFields /\ NewTask.runs = <<>>
  BY DEF NewTask, TaskFields
<1>4. TaskRecord(NewTask)
  BY <1>3 DEF TaskRecord
<1>. QED BY <1>1, <1>2, <1>4 DEF Shape

\* A task tries nothing more after a run that has succeeded, and reports it.
THEOREM AnswerReportedAlways == Spec => []AnswerReported
<1>1. Init => Shape /\ AnswerReported
  BY InitShape DEF AnswerReported, NewTask
<1>2. Shape /\ AnswerReported /\ [Next]_pilotVars => (Shape /\ AnswerReported)'
  BY ShapeStep, AnswerReportedStep
<1>. QED BY <1>1, <1>2, PTL DEF Spec

-----------------------------------------------------------------------------
(* GateStops: how far a multi-agent task can be, and what it has left.     *)

JobFields ==
  {"at", "who", "schema", "attempt", "answer", "result", "via", "stored", "case", "again"}

\* Where the job of a multi-agent task can be, and whom it calls the model for.
JobControl(j) ==
  /\ DOMAIN j = JobFields
  /\ j.who \in {"nl2sql", "route"}
  /\ j.at \in {"absent", "new", "refused", "route", "call", "compatible", "answered",
               "generate", "check", "lookup", "record", "store", "made", "raised",
               "multitool", "keyword", "done"}
  /\ j.at \in {"generate", "check", "lookup", "record", "store"} => j.who = "nl2sql"
  /\ j.at = "answered" => j.who = "route"

\* It has not decided on a mode yet.
Routing(j) ==
  \/ j.at \in {"absent", "new", "route", "answered"}
  \/ j.who = "route" /\ j.at \in {"call", "compatible"}

\* What can be left of a cascade.
Remainders ==
  {<<>>, <<"nl2sql">>, <<"multitool">>, <<"keyword">>, <<"multitool", "keyword">>,
   <<"nl2sql", "multitool", "keyword">>}

TaskControl(r) ==
  /\ JobControl(job[r])
  /\ Routing(job[r]) => task[r].runs = <<>>
  /\ task[r].todo \in Remainders
  /\ task[r].todo # <<>> => task[r].selected = "auto"
  /\ job[r].at = "keyword" => task[r].todo = <<>>

\* A run is taken off what is left of a cascade; keyword is the last.
LEMMA TailOfRemainder ==
  ASSUME NEW todo \in Remainders, todo # <<>>
  PROVE  /\ Head(todo) \in RunModes /\ Tail(todo) \in Remainders
         /\ Head(todo) = "keyword" => Tail(todo) = <<>>
<1>1. ASSUME NEW mode \in RunModes, todo = <<mode>>
      PROVE  Head(todo) = mode /\ Tail(todo) = <<>>
  BY <1>1
<1>2. CASE todo = <<"multitool", "keyword">>
  <2>1. Head(todo) = "multitool" /\ Tail(todo) = <<"keyword">>
    BY <1>2
  <2>. QED BY <2>1 DEF Remainders, RunModes
<1>3. CASE todo = <<"nl2sql", "multitool", "keyword">>
  <2>1. Head(todo) = "nl2sql" /\ Tail(todo) = <<"multitool", "keyword">>
    BY <1>3
  <2>. QED BY <2>1 DEF Remainders, RunModes
<1>. QED BY <1>1, <1>2, <1>3 DEF Remainders, RunModes

\* What is left of a cascade at its beginning.
LEMMA CascadeRemains ==
  ASSUME NEW mode \in Selectable
  PROVE  /\ Cascade(mode) \in Remainders /\ Cascade(mode) # <<>>
         /\ Tail(Cascade(mode)) # <<>> => mode = "auto"
BY DEF Cascade, Remainders, Selectable, RunModes

\* A run that starts has a place of its own, and keyword is the last.
LEMMA StartRunControl ==
  ASSUME Shape, NEW r \in Tasks, Mode[r] = "multi_agent", JobControl(job[r]),
         NEW t, t.todo \in Remainders, t.todo # <<>>, StartRun(r, t)
  PROVE  /\ JobControl(job'[r]) /\ ~Routing(job'[r])
         /\ Tail(t.todo) \in Remainders
         /\ job'[r].at = "keyword" => Tail(t.todo) = <<>>
<1>. DEFINE j == [job[r] EXCEPT !.who = "nl2sql", !.at = "generate", !.attempt = 0,
                                !.answer = NoAnswer, !.via = "none"]
            k == [job[r] EXCEPT !.at = Head(t.todo)]
<1>1. r \in DOMAIN job
  BY DEF Shape, Tasks
<1>2. ~PlansWithLLM(r, Head(t.todo))
  BY DEF PlansWithLLM
<1>3. Update(r, IF Head(t.todo) = "nl2sql" THEN j ELSE k)
  BY <1>2 DEF StartRun
<1>4. job'[r] = IF Head(t.todo) = "nl2sql" THEN j ELSE k
  BY <1>1, <1>3 DEF Update
<1>5. JobControl(j) /\ ~Routing(j) /\ j.at # "keyword"
  BY DEF JobControl, JobFields, Routing
<1>6. ASSUME Head(t.todo) \in {"multitool", "keyword"}
      PROVE  JobControl(k) /\ ~Routing(k) /\ k.at = Head(t.todo)
  BY <1>6 DEF JobControl, JobFields, Routing
<1>. HIDE DEF j, k
<1>. QED BY <1>4, <1>5, <1>6, TailOfRemainder DEF RunModes

\* The pipeline keeps a job where the job of a task can be, and does not take it
\* back to where no mode has been decided on.
LEMMA PipelineControl ==
  ASSUME Shape, NEW r \in Tasks, JobControl(job[r]), PipelineStep(r)
  PROVE  /\ JobControl(job'[r]) /\ job'[r].at # "keyword"
         /\ Routing(job'[r]) => Routing(job[r])
<1>. DEFINE Good(j) == /\ JobControl(j) /\ j.at # "keyword"
                       /\ Routing(j) => Routing(job[r])
<1>1. r \in DOMAIN job
  BY DEF Shape, Tasks
<1>2. ASSUME NEW j, Update(r, j) PROVE job'[r] = j
  BY <1>1, <1>2 DEF Update
<1>3. ASSUME NEW p, Goto(r, p) PROVE job'[r] = [job[r] EXCEPT !.at = p]
  BY <1>1, <1>3 DEF Goto
<1>. USE DEF JobControl, JobFields, Routing
<1>4. ASSUME Generate(r) PROVE Good(job'[r])
  <2>1. \/ \E result : job'[r] = [job[r] EXCEPT !.at = "made", !.schema = schema,
                                                !.result = result]
        \/ job'[r] = [job[r] EXCEPT !.at = "check", !.schema = schema]
    BY <1>2, <1>4 DEF Generate
  <2>. QED BY <1>4, <2>1 DEF Generate, At
<1>5. ASSUME GenerateRaises(r) PROVE Good(job'[r])
  <2>1. job'[r] = [job[r] EXCEPT !.at = "raised"] /\ job[r].at = "generate"
    BY <1>3, <1>5 DEF GenerateRaises, At
  <2>. QED BY <2>1
<1>6. /\ job[r].who = "nl2sql" => Good(Without(r)) /\ Good(Failed(r))
      /\ job[r].at \in {"call", "compatible"} => Good(Failed(r))
  BY DEF Without, Failed
<1>7. ASSUME Check(r) PROVE Good(job'[r])
  <2>1. job'[r] = Without(r) \/ job'[r] = [job[r] EXCEPT !.at = "lookup"]
    BY <1>2, <1>3, <1>7 DEF Check
  <2>. QED BY <1>6, <1>7, <2>1 DEF Check, At
<1>8. ASSUME LookupHit(r) PROVE Good(job'[r])
  BY <1>2, <1>8 DEF LookupHit, At
<1>9. ASSUME LookupMiss(r) PROVE Good(job'[r])
  <2>1. job'[r] = Without(r) \/ job'[r] = [job[r] EXCEPT !.at = "call"]
    BY <1>2, <1>3, <1>9 DEF LookupMiss
  <2>. QED BY <1>6, <1>9, <2>1 DEF LookupMiss, At
<1>10. ASSUME NEW usable, NEW cost, NEW loses, Answered(r, usable, cost, loses),
              job[r].at \in {"call", "compatible"}
       PROVE  Good(job'[r])
  <2>. DEFINE j == [job[r] EXCEPT
                      !.at = NextOfAnswer(r, usable),
                      !.answer = [usable |-> usable, cost |-> cost], !.via = "provider",
                      !.result = IF job[r].who # "nl2sql" THEN @
                                 ELSE IF usable THEN Result("llm", TRUE, r, job[r].schema)
                                 ELSE Unavailable(r, job[r].schema)]
  <2>0. Update(r, j)
    BY <1>10 DEF Answered
  <2>1. Update(r, j) /\ DOMAIN j = DOMAIN job[r] /\ j.who = job[r].who
        /\ j.at = NextOfAnswer(r, usable)
    BY <2>0
  <2>. HIDE DEF j
  <2>2. job'[r] = j
    BY <1>2, <2>1
  <2>3. NextOfAnswer(r, usable) = IF job[r].who = "nl2sql" THEN "record" ELSE "answered"
    BY DEF NextOfAnswer
  <2>. QED BY <1>10, <2>1, <2>2, <2>3
<1>11. ASSUME FakeAnswers(r) \/ LiteLLMAnswers(r) \/ OpenAIAnswers(r) \/ CompatibleAnswers(r)
       PROVE  Good(job'[r])
  BY <1>10, <1>11 DEF FakeAnswers, LiteLLMAnswers, OpenAIAnswers, CompatibleAnswers,
       UnpricedAnswer, AnyAnswer, At
<1>12. ASSUME LiteLLMErrs(r) \/ OpenAIErrs(r) \/ CompatibleErrs(r) PROVE Good(job'[r])
  <2>1. \/ job'[r] = Failed(r)
        \/ At(r, "call") /\ job'[r] = [job[r] EXCEPT !.attempt = @ + 1]
        \/ At(r, "call") /\ job'[r] = [job[r] EXCEPT !.at = "compatible"]
    BY <1>2, <1>3, <1>12 DEF LiteLLMErrs, OpenAIErrs, CompatibleErrs, Erred
  <2>2. job[r].at \in {"call", "compatible"}
    BY <1>12 DEF LiteLLMErrs, OpenAIErrs, CompatibleErrs, At
  <2>. QED BY <1>6, <2>1, <2>2 DEF At
<1>13. ASSUME Record(r) PROVE Good(job'[r])
  <2>1. job'[r] = [job[r] EXCEPT !.at = "store"] /\ job[r].at = "record"
    BY <1>3, <1>13 DEF Record, At
  <2>. QED BY <2>1
<1>14. ASSUME Store(r) PROVE Good(job'[r])
  <2>1. job'[r] = [job[r] EXCEPT !.at = "made"] /\ job[r].at = "store"
    BY <1>3, <1>14 DEF Store, At
  <2>. QED BY <2>1
<1>. QED BY <1>4, <1>5, <1>7, <1>8, <1>9, <1>11, <1>12, <1>13, <1>14 DEF PipelineStep

\* No other handler takes a step of such a job.
LEMMA NoOtherHandler ==
  ASSUME NEW r \in Tasks, JobControl(job[r])
  PROVE  ~EndpointStep(r) /\ ~ArrivePreflight(r) /\ ~ArriveCheck(r) /\ r \notin Pilots
<1>1. Kind[r] = "task"
  BY DEF Tasks
<1>2. job[r].at \notin {"opened", "judged", "evaluate"} /\ job[r].who # "eval"
  BY DEF JobControl
<1>3. ~Arrive(r) /\ ~Reply(r) /\ ~ArriveBadCases(r) /\ ~ArriveEval(r) /\ ~OpenStream(r)
      /\ ~FinishStream(r) /\ ~Disconnect(r)
  BY <1>1 DEF Arrive, Reply, ArriveBadCases, ArriveEval, OpenStream, FinishStream, Disconnect
<1>4. ~NextBadCase(r) /\ ~EvalRaises(r) /\ ~EvaluateCase(r) /\ ~CaseEvaluated(r)
      /\ ~ExplainFailure(r) /\ ~AdvanceStream(r)
  BY <1>2 DEF NextBadCase, EvalRaises, EvaluateCase, CaseEvaluated, ExplainFailure,
       AdvanceStream, At
<1>. QED BY <1>1, <1>3, <1>4 DEF EndpointStep, ArrivePreflight, ArriveCheck, Pilots

\* What GateStops says of one task.
TaskStops(r) ==
  \A i \in 1..Len(task[r].runs) :
    task[r].runs[i].blocked =>
      \/ At(r, "done") /\ i = Len(task[r].runs)
      \/ task[r].selected = "auto" /\ task[r].runs[i].mode = "multitool"

\* A job that is done.
LEMMA DoneControl ==
  ASSUME NEW r, job'[r] = [NewJob EXCEPT !.at = "done"]
  PROVE  JobControl(job'[r]) /\ ~Routing(job'[r]) /\ job'[r].at = "done"
BY DEF JobControl, JobFields, Routing, NewJob

\* The blocked runs after one more has ended.
LEMMA BlockedRuns ==
  ASSUME NEW runs \in Seq(Runs), NEW run \in Runs, NEW i \in 1..Len(Append(runs, run)),
         Append(runs, run)[i].blocked
  PROVE  \/ i = Len(Append(runs, run)) /\ Append(runs, run)[i] = run /\ run.blocked
         \/ /\ i \in 1..Len(runs) /\ Append(runs, run)[i] = runs[i] /\ runs[i].blocked
<1>1. Len(Append(runs, run)) = Len(runs) + 1 /\ Len(runs) \in Nat
  OBVIOUS
<1>2. CASE i = Len(runs) + 1
  <2>1. Append(runs, run)[i] = run
    BY <1>2
  <2>. QED BY <1>1, <1>2, <2>1
<1>3. CASE i # Len(runs) + 1
  <2>1. i \in 1..Len(runs)
    BY <1>1, <1>3
  <2>2. Append(runs, run)[i] = runs[i]
    BY <2>1
  <2>. QED BY <2>1, <2>2
<1>. QED BY <1>2, <1>3

\* A run that was blocked, if not the last of its cascade, is one with tools.
LEMMA RunEndsStops ==
  ASSUME Shape, TaskModesAssumption, NEW r \in Tasks, Mode[r] = "multi_agent", TaskControl(r),
         TaskStops(r), ~At(r, "done"), NEW run \in Runs, RunEnds(r, run),
         run.blocked /\ task[r].todo # <<>> => run.mode = "multitool"
  PROVE  TaskControl(r)' /\ TaskStops(r)'
<1>1. /\ TaskRecord(task[r]) /\ task'[r].runs = Append(task[r].runs, run)
      /\ CascadeGoesOn(r, run) \/ FallsBack(r, run) \/ Concludes(r, run)
  BY RunEndsMeans DEF Shape
<1>2. task[r].runs \in Seq(Runs) /\ JobControl(job[r])
  BY <1>1 DEF TaskRecord, TaskControl
<1>3. \A i \in 1..Len(task[r].runs) : task[r].runs[i].blocked =>
        task[r].selected = "auto" /\ task[r].runs[i].mode = "multitool"
  BY DEF TaskStops
<1>4. ASSUME NEW i \in 1..Len(task'[r].runs), task'[r].runs[i].blocked
      PROVE  \/ i = Len(task'[r].runs) /\ task'[r].runs[i] = run /\ run.blocked
             \/ task[r].selected = "auto" /\ task'[r].runs[i].mode = "multitool"
  BY <1>1, <1>2, <1>3, <1>4, BlockedRuns
<1>5. CASE CascadeGoesOn(r, run)
  <2>1. PICK t : DOMAIN t = TaskFields /\ t.todo = task[r].todo /\ StartRun(r, t)
    BY <1>5 DEF CascadeGoesOn
  <2>2. /\ task[r].todo \in Remainders /\ task[r].todo # <<>> /\ task[r].selected = "auto"
        /\ task'[r].selected = "auto" /\ task'[r].todo = Tail(task[r].todo)
    BY <1>5 DEF CascadeGoesOn, TaskControl
  <2>3. /\ JobControl(job'[r]) /\ ~Routing(job'[r]) /\ task'[r].todo \in Remainders
        /\ job'[r].at = "keyword" => task'[r].todo = <<>>
    BY <1>2, <2>1, <2>2, StartRunControl
  <2>4. TaskControl(r)'
    BY <2>2, <2>3 DEF TaskControl
  <2>5. TaskStops(r)'
    BY <1>4, <2>2 DEF TaskStops
  <2>. QED BY <2>4, <2>5
<1>6. CASE FallsBack(r, run)
  <2>. DEFINE mode == SuggestFallback(task[r].selected)
  <2>1. PICK t : DOMAIN t = TaskFields /\ t.todo = Cascade(mode) /\ StartRun(r, t)
    BY <1>6 DEF FallsBack
  <2>2. /\ ~run.blocked /\ task[r].selected # "auto"
        /\ task'[r].selected = mode /\ task'[r].todo = Tail(Cascade(mode))
    BY <1>6 DEF FallsBack
  <2>3. mode \in Selectable
    BY DEF SuggestFallback, Selectable, RunModes
  <2>. HIDE DEF mode
  <2>4. /\ Cascade(mode) \in Remainders /\ Cascade(mode) # <<>>
        /\ Tail(Cascade(mode)) # <<>> => mode = "auto"
    BY <2>3, CascadeRemains
  <2>5. /\ JobControl(job'[r]) /\ ~Routing(job'[r]) /\ task'[r].todo \in Remainders
        /\ job'[r].at = "keyword" => task'[r].todo = <<>>
    BY <1>2, <2>1, <2>2, <2>4, StartRunControl
  <2>6. TaskControl(r)'
    BY <2>2, <2>4, <2>5 DEF TaskControl
  <2>7. TaskStops(r)'
    BY <1>4, <2>2 DEF TaskStops
  <2>. QED BY <2>6, <2>7
<1>7. CASE Concludes(r, run)
  <2>1. /\ JobControl(job'[r]) /\ ~Routing(job'[r]) /\ job'[r].at = "done"
        /\ task'[r].todo = <<>> /\ task'[r].selected = task[r].selected
    BY <1>7, DoneControl DEF Concludes
  <2>2. TaskControl(r)'
    BY <2>1 DEF TaskControl, Remainders
  <2>3. TaskStops(r)'
    BY <1>4, <2>1 DEF TaskStops, At
  <2>. QED BY <2>2, <2>3
<1>. QED BY <1>1, <1>5, <1>6, <1>7

\* A task that decides on a mode has not run anything.
LEMMA SelectStops ==
  ASSUME Shape, NEW r \in Tasks, Mode[r] = "multi_agent", JobControl(job[r]),
         task[r].runs = <<>>, NEW mode \in Selectable, Select(r, mode)
  PROVE  TaskControl(r)' /\ TaskStops(r)'
<1>. DEFINE t == [task[r] EXCEPT !.selected = mode, !.todo = Cascade(mode)]
<1>1. DOMAIN t = TaskFields /\ t.todo = Cascade(mode)
  BY DEF Shape, TaskRecord, TaskFields
<1>2. StartRun(r, t)
  BY DEF Select
<1>. HIDE DEF t
<1>3. /\ Cascade(mode) \in Remainders /\ Cascade(mode) # <<>>
      /\ Tail(Cascade(mode)) # <<>> => mode = "auto"
  BY CascadeRemains
<1>4. /\ task'[r].runs = <<>> /\ task'[r].selected = mode
      /\ task'[r].todo = Tail(Cascade(mode))
  BY SelectMeans
<1>5. /\ JobControl(job'[r]) /\ ~Routing(job'[r]) /\ task'[r].todo \in Remainders
      /\ job'[r].at = "keyword" => task'[r].todo = <<>>
  BY <1>1, <1>2, <1>3, <1>4, StartRunControl
<1>. QED BY <1>3, <1>4, <1>5 DEF TaskControl, TaskStops

\* A step of a multi-agent task keeps it under control.
LEMMA TaskStopsStep ==
  ASSUME Shape, TaskModesAssumption, NEW r \in Tasks, Mode[r] = "multi_agent",
         TaskControl(r), TaskStops(r), ~At(r, "done"), TaskStep(r)
  PROVE  TaskControl(r)' /\ TaskStops(r)'
<1>1. r \in DOMAIN job /\ r \in DOMAIN task
  BY DEF Shape, Tasks
<1>2. JobControl(job[r]) /\ (Routing(job[r]) => task[r].runs = <<>>)
  BY DEF TaskControl
<1>3. ASSUME task'[r] = task[r], JobControl(job'[r]), job'[r].at # "keyword",
             Routing(job'[r]) => task[r].runs = <<>>
      PROVE  TaskControl(r)' /\ TaskStops(r)'
  BY <1>3 DEF TaskControl, TaskStops, At
<1>4. CASE ArriveTask(r)
  <2>1. job[r].at = "new" /\ task'[r] = task[r]
    BY <1>4 DEF ArriveTask, At
  <2>2. \/ job'[r] = [job[r] EXCEPT !.at = "refused"]
        \/ job'[r] = Calling(r, "route")
        \/ job'[r] = [job[r] EXCEPT !.at = "route"]
    BY <1>1, <1>4 DEF ArriveTask, Goto, Update
  <2>3. JobControl(job'[r]) /\ job'[r].at # "keyword"
    <3>1. ASSUME NEW p \in {"refused", "route"}, job'[r] = [job[r] EXCEPT !.at = p]
          PROVE  JobControl(job'[r]) /\ job'[r].at # "keyword"
      BY <1>2, <3>1 DEF JobControl, JobFields
    <3>2. ASSUME job'[r] = Calling(r, "route")
          PROVE  JobControl(job'[r]) /\ job'[r].at # "keyword"
      BY <1>2, <3>2 DEF JobControl, JobFields, Calling
    <3>. QED BY <2>2, <3>1, <3>2
  <2>4. task[r].runs = <<>>
    BY <1>2, <2>1 DEF Routing
  <2>. QED BY <1>3, <2>1, <2>3, <2>4
<1>5. CASE ConcludeRefused(r)
  <2>1. task'[r] = task[r] /\ job'[r] = [NewJob EXCEPT !.at = "done"]
    BY <1>5, ConcludeMeans DEF ConcludeRefused
  <2>. QED BY <1>3, <2>1, DoneControl
<1>6. ~NextRun(r)
  BY <1>2 DEF NextRun, JobControl, At
<1>7. ~Planned(r)
  BY <1>2 DEF Planned, JobControl, At
<1>8. CASE RouteByLLM(r) \/ RouteByRule(r)
  <2>1. Routing(job[r])
    BY <1>8 DEF RouteByLLM, RouteByRule, Routing, At
  <2>2. Rule[Query[r]] \in Selectable
    BY DEF TaskModesAssumption
  <2>3. \E mode \in Selectable : Select(r, mode)
    BY <1>8, <2>2 DEF RouteByLLM, RouteByRule
  <2>. QED BY <1>2, <2>1, <2>3, SelectStops
<1>9. CASE NL2SQLRunEnds(r)
  <2>. DEFINE run == Outcome("nl2sql", IF job[r].result.allowed THEN "answered" ELSE "failed")
  <2>1. run \in Runs /\ ~run.blocked /\ RunEnds(r, run)
    BY <1>9, OutcomeIsRun DEF NL2SQLRunEnds, Outcome, RunModes
  <2>. HIDE DEF run
  <2>. QED BY <2>1, RunEndsStops
<1>10. CASE MultitoolRunEnds(r)
  <2>1. PICK how \in Ways : RunEnds(r, Outcome("multitool", how))
    BY <1>10 DEF MultitoolRunEnds
  <2>2. Outcome("multitool", how) \in Runs /\ Outcome("multitool", how).mode = "multitool"
    BY OutcomeIsRun DEF Outcome, RunModes
  <2>. QED BY <2>1, <2>2, RunEndsStops
<1>11. CASE KeywordRunEnds(r)
  <2>1. PICK how \in Ways : RunEnds(r, Outcome("keyword", how))
    BY <1>11 DEF KeywordRunEnds
  <2>2. Outcome("keyword", how) \in Runs /\ task[r].todo = <<>>
    BY <1>11, OutcomeIsRun DEF KeywordRunEnds, RunModes, TaskControl, At
  <2>. QED BY <2>1, <2>2, RunEndsStops
<1>12. CASE RunRaises(r)
  <2>1. PICK run \in Runs : ~run.blocked /\ task'[r].runs = Append(task[r].runs, run)
    BY <1>12, RunRaisesMeans
  <2>2. task'[r].selected = task[r].selected /\ task'[r].todo = <<>> /\ At(r, "done")'
    BY <1>12, RunRaisesMeans
  <2>3. job'[r] = [NewJob EXCEPT !.at = "done"]
    BY <1>12, <1>1 DEF RunRaises, Conclude, End, Update
  <2>4. JobControl(job'[r]) /\ ~Routing(job'[r]) /\ job'[r].at = "done"
    BY <2>3, DoneControl
  <2>5. TaskControl(r)'
    BY <2>2, <2>4 DEF TaskControl, Remainders
  <2>6. task[r].runs \in Seq(Runs)
    BY DEF Shape, TaskRecord
  <2>7. ASSUME NEW i \in 1..Len(task'[r].runs), task'[r].runs[i].blocked
        PROVE  task[r].selected = "auto" /\ task'[r].runs[i].mode = "multitool"
    <3>1. /\ i \in 1..Len(task[r].runs) /\ task'[r].runs[i] = task[r].runs[i]
          /\ task[r].runs[i].blocked
      BY <2>1, <2>6, <2>7, BlockedRuns
    <3>. QED BY <3>1 DEF TaskStops
  <2>8. TaskStops(r)'
    BY <2>2, <2>7 DEF TaskStops
  <2>. QED BY <2>5, <2>8
<1>. QED BY <1>4, <1>5, <1>6, <1>7, <1>8, <1>9, <1>10, <1>11, <1>12 DEF TaskStep

\* Every multi-agent task is under control.
Orchestrated ==
  \A r \in Tasks : Mode[r] = "multi_agent" => TaskControl(r) /\ TaskStops(r)

\* So does every step of anybody.
LEMMA OrchestratedStep ==
  ASSUME Shape, TaskModesAssumption, Orchestrated, [Next]_pilotVars
  PROVE  Orchestrated'
<1>1. SUFFICES ASSUME NEW r \in Tasks, Mode[r] = "multi_agent"
               PROVE  TaskControl(r)' /\ TaskStops(r)'
  BY DEF Orchestrated
<1>2. /\ TaskControl(r) /\ TaskStops(r) /\ JobControl(job[r])
      /\ r \in DOMAIN job /\ r \in DOMAIN task
  BY <1>1 DEF Orchestrated, Shape, Tasks, TaskControl
<1>3. CASE task'[r] = task[r] /\ job'[r] = job[r]
  BY <1>2, <1>3 DEF TaskControl, TaskStops, At
<1>4. ASSUME NEW q \in Open, Frame(q), UNCHANGED task,
             PipelineStep(q) \/ EndpointStep(q) \/ ArrivePreflight(q)
               \/ ArriveCheck(q) \/ (q \in Pilots /\ PilotStep(q))
      PROVE  TaskControl(r)' /\ TaskStops(r)'
  <2>1. CASE q = r
    <3>1. ~At(r, "done")
      BY <1>4, <2>1 DEF Open, At
    <3>2. PipelineStep(r)
      BY <1>2, <1>4, <2>1, NoOtherHandler
    <3>3. /\ JobControl(job'[r]) /\ job'[r].at # "keyword"
          /\ Routing(job'[r]) => Routing(job[r])
      BY <1>2, <3>2, PipelineControl
    <3>. QED BY <1>2, <1>4, <3>1, <3>3 DEF TaskControl, TaskStops
  <2>2. CASE q # r
    BY <1>2, <1>3, <1>4, <2>2 DEF Frame
  <2>. QED BY <2>1, <2>2
<1>5. ASSUME NEW q \in Open \cap Tasks, TaskStep(q) PROVE TaskControl(r)' /\ TaskStops(r)'
  <2>1. CASE q = r
    <3>1. ~At(r, "done")
      BY <2>1 DEF Open, At
    <3>. QED BY <1>1, <1>2, <1>5, <2>1, <3>1, TaskStopsStep
  <2>2. CASE q # r
    <3>1. Frame(q) /\ TaskFrame(q)
      BY <1>5, TaskStepMeans, RunEndsMeans, RunRaisesMeans DEF RunStep
    <3>. QED BY <1>2, <1>3, <2>2, <3>1 DEF Frame, TaskFrame
  <2>. QED BY <2>1, <2>2
<1>. QED BY <1>3, <1>4, <1>5, StepMeans

\* Every task is under control at the beginning.
LEMMA InitOrchestrated ==
  ASSUME Init
  PROVE  Orchestrated
<1>1. \A r \in Tasks : task[r] = NewTask
  BY InitShape
<1>2. \A r \in Tasks : job[r] = NewJob \/ job[r] = [NewJob EXCEPT !.at = "absent"]
  BY DEF Init, InitPilots, InitTasks, InitRequests, Tasks
<1>3. JobControl(NewJob) /\ JobControl([NewJob EXCEPT !.at = "absent"])
  BY DEF JobControl, JobFields, NewJob
<1>4. NewTask.runs = <<>> /\ NewTask.todo = <<>>
  BY DEF NewTask
<1>5. ASSUME NEW r \in Tasks PROVE TaskControl(r) /\ TaskStops(r)
  <2>1. JobControl(job[r]) /\ job[r].at # "keyword"
    BY <1>2, <1>3 DEF NewJob
  <2>. QED BY <1>1, <1>4, <2>1 DEF TaskControl, TaskStops, Remainders
<1>. QED BY <1>5 DEF Orchestrated

\* A run that the policy stopped is not tried again in another mode.
THEOREM GateStopsAlways == Spec => []GateStops
<1>1. Init => Shape /\ Orchestrated
  BY InitShape, InitOrchestrated
<1>2. Shape /\ Orchestrated /\ [Next]_pilotVars => (Shape /\ Orchestrated)'
  BY ShapeStep, OrchestratedStep, TaskModesAssumption
<1>3. Orchestrated => GateStops
  BY DEF Orchestrated, TaskStops, GateStops
<1>. QED BY <1>1, <1>2, <1>3, PTL DEF Spec

-----------------------------------------------------------------------------
(* What a request that asks a model knows of itself.                       *)

Generating == {"preview", "execute", "stream", "task"}
NoModel == {"mock", "unknown", "unconfigured"}

\* From the reading of the schema to the keeping of the result.
Asking == {"generate", "check", "lookup", "call", "compatible", "record", "store"}

\* Nobody but the generator and the judge comes to the budget and the cache; the
\* generator with the schema it has read and a result for it, the judge with one
\* of the bad cases.
JobKeyed(r, j) ==
  /\ DOMAIN j = JobFields
  /\ j.at \in {"new", "opened"} => j.who = "nl2sql" /\ j.case = 0
  /\ j.at = "opened" => Kind[r] = "stream"
  /\ j.at = "judged" => Kind[r] = "judge" /\ j.case \in 1..Len(BadCases)
  /\ j.at = "generate" => j.who = "nl2sql"
  /\ j.at \in {"check", "lookup", "record", "store"} => j.who \in {"nl2sql", "judge"}
  /\ j.at \in Asking /\ j.who = "nl2sql" => Kind[r] \in Generating
  /\ j.at \in Asking \ {"generate"} /\ j.who = "nl2sql" =>
       Provider[r] \notin NoModel /\ j.schema \in 0..MaxSchema
  /\ j.at \in {"record", "store"} /\ j.who = "nl2sql" =>
       j.result.query = Query[r] /\ j.result.schema = j.schema
  /\ j.at \in Asking /\ j.who = "judge" =>
       Kind[r] = "judge" /\ j.case \in 1..Len(BadCases) /\ j.schema = 0

\* What is left of a cascade are modes, and one at least when a run is due.
TaskKeyed(r) ==
  /\ task[r].todo \in Seq(RunModes)
  /\ job[r].at = "next" => task[r].todo # <<>>

\* An entry is one that the model made for the query and the schema of its key,
\* and it lives as long as it was told to.
EntrySound(k, e) ==
  /\ e.value.at \in Nat
  /\ TTL > 0 => e.expires = e.value.at + TTL
  /\ k[1] = "nl2sql" =>
       /\ e.value.result.by = "llm"
       /\ e.value.result.query = k[2] /\ e.value.result.schema = k[4]

Clock == now \in Nat /\ schema \in 0..MaxSchema
CacheSound ==
  /\ DOMAIN cache = Keys
  /\ \A k \in Keys : cache[k] # NoEntry => EntrySound(k, cache[k])

\* The inductive invariant.
Keyed ==
  /\ Shape /\ Clock /\ CacheSound
  /\ \A r \in Requests : JobKeyed(r, job[r])
  /\ \A r \in Tasks : TaskKeyed(r)

\* A job that has not just had an answer from the cache.
Unserved(r, j) == j.via = "cache" => job[r].via = "cache"

\* What a step that asks no cache makes of a job.
Steps(r, j) == JobKeyed(r, j) /\ Unserved(r, j) /\ j.at # "next"

-----------------------------------------------------------------------------
(* The operators of the requests.                                          *)

\* What takes the place of the model's answer is for the same query and schema.
LEMMA ResultIsFor ==
  ASSUME NEW by, NEW allowed, NEW r, NEW s
  PROVE  Result(by, allowed, r, s).query = Query[r] /\ Result(by, allowed, r, s).schema = s
BY DEF Result

\* So is what the mock makes, or a result that says the model is unavailable.
LEMMA UnavailableIsFor ==
  ASSUME NEW r, NEW s
  PROVE  Unavailable(r, s).query = Query[r] /\ Unavailable(r, s).schema = s
<1>1. \E by, allowed : Unavailable(r, s) = Result(by, allowed, r, s)
  BY DEF Unavailable, Mock
<1>. QED BY <1>1, ResultIsFor

\* Who may ask has a key the cache knows.
LEMMA KeyKnown ==
  ASSUME KeysAssumption, NL2SQLRequestsAssumption, NEW r \in Requests,
         JobKeyed(r, job[r]), job[r].at \in {"lookup", "store"}
  PROVE  /\ CacheKey(r) \in Keys
         /\ CacheKey(r)[1] = job[r].who
         /\ job[r].who = "nl2sql" =>
              CacheKey(r)[2] = Query[r] /\ CacheKey(r)[4] = job[r].schema
<1>1. CacheKey(r) = <<job[r].who, Subject(r), Provider[r], job[r].schema>>
  BY DEF CacheKey
<1>2. CASE job[r].who = "nl2sql"
  <2>1. /\ Kind[r] \in Generating /\ Provider[r] \notin NoModel
        /\ job[r].schema \in 0..MaxSchema
    BY <1>2 DEF JobKeyed, Asking
  <2>2. Subject(r) = Query[r]
    BY <1>2 DEF Subject
  <2>3. <<"nl2sql", Query[r], Provider[r], job[r].schema>> \in Keys
    BY <2>1 DEF KeysAssumption, Generating, NoModel
  <2>. QED BY <1>1, <1>2, <2>2, <2>3
<1>3. CASE job[r].who = "judge"
  <2>1. Kind[r] = "judge" /\ job[r].case \in 1..Len(BadCases) /\ job[r].schema = 0
    BY <1>3 DEF JobKeyed, Asking
  <2>2. Subject(r) = BadCases[job[r].case]
    BY <1>3 DEF Subject
  <2>3. job[r].case \in DOMAIN BadCases /\ 0 \in 0..MaxSchema
    BY <2>1 DEF NL2SQLRequestsAssumption
  <2>4. <<"judge", BadCases[job[r].case], Provider[r], job[r].schema>> \in Keys
    BY <2>1, <2>3 DEF KeysAssumption
  <2>. QED BY <1>1, <1>3, <2>2, <2>4
<1>. QED BY <1>2, <1>3 DEF JobKeyed

\* A step that goes somewhere where nothing is asked of a job that was keyed.
Elsewhere ==
  {"raised", "made", "answered", "evaluate", "refused", "route", "keyword", "multitool",
   "load", "case", "json", "markdown", "done", "gone"}

\* A job that has left the model, or has not come to it, stays keyed.
LEMMA ElsewhereKeyed ==
  ASSUME NEW r, JobKeyed(r, job[r]), NEW p \in Elsewhere
  PROVE  Steps(r, [job[r] EXCEPT !.at = p])
BY DEF JobKeyed, Elsewhere, Steps, Unserved, Asking, JobFields

\* A job that ends is as good as new.
LEMMA EndKeyed ==
  ASSUME NEW r, NEW p \in Elsewhere
  PROVE  Steps(r, [NewJob EXCEPT !.at = p])
BY DEF JobKeyed, Elsewhere, Steps, Unserved, Asking, JobFields, NewJob

\* A caller of the model who has neither budget nor cache is keyed.
LEMMA CallingKeyed ==
  ASSUME NEW r, JobKeyed(r, job[r]), NEW who \in {"route", "plan", "probe", "pilot", "preflight"}
  PROVE  Steps(r, Calling(r, who))
BY DEF JobKeyed, Calling, Steps, Unserved, Asking, JobFields

\* So is whoever goes on without the model.
LEMMA WithoutKeyed ==
  ASSUME NEW r, JobKeyed(r, job[r]), job[r].at \in Asking \ {"generate"}
  PROVE  Steps(r, Without(r)) /\ Steps(r, Failed(r))
<1>1. DOMAIN job[r] = JobFields
  BY DEF JobKeyed
<1>2. CASE job[r].who = "judge"
  BY <1>1, <1>2 DEF JobKeyed, Without, Failed, JudgeUnavailable, Steps, Unserved, Asking,
       JobFields
<1>3. CASE job[r].who = "nl2sql"
  <2>. DEFINE u == Unavailable(r, job[r].schema)
              j == [job[r] EXCEPT !.at = "made", !.result = u]
  <2>1. u.query = Query[r] /\ u.schema = job[r].schema
    BY UnavailableIsFor
  <2>2. Without(r) = j /\ Failed(r) = [j EXCEPT !.at = "store"]
    BY <1>3 DEF Without, Failed
  <2>. HIDE DEF u
  <2>3. Steps(r, j)
    BY <1>1, <1>3 DEF JobKeyed, Steps, Unserved, Asking, JobFields
  <2>4. Steps(r, [j EXCEPT !.at = "store"])
    BY <1>1, <1>3, <2>1 DEF JobKeyed, Steps, Unserved, Asking, JobFields
  <2>. QED BY <2>2, <2>3, <2>4
<1>4. CASE job[r].who \notin {"judge", "nl2sql"}
  <2>1. Without(r) = [job[r] EXCEPT !.at = "answered"] /\ Failed(r) = Without(r)
    BY <1>4 DEF Without, Failed
  <2>2. "answered" \in Elsewhere
    BY DEF Elsewhere
  <2>3. Steps(r, [job[r] EXCEPT !.at = "answered"])
    BY <2>2, ElsewhereKeyed
  <2>. QED BY <2>1, <2>3, Zenon
<1>. QED BY <1>2, <1>3, <1>4

-----------------------------------------------------------------------------
(* A step keeps the jobs keyed.                                            *)

\* What a handler makes of a job is what its request gets.
LEMMA Gets ==
  ASSUME DOMAIN job = Requests, NEW r \in Requests
  PROVE  /\ \A j : Update(r, j) => job'[r] = j
         /\ \A p : Goto(r, p) => job'[r] = [job[r] EXCEPT !.at = p]
         /\ \A p : End(r, p) => job'[r] = [NewJob EXCEPT !.at = p]
BY DEF Update, Goto, End

\* A step of the pipeline does; only a hit has its answer from the cache.
LEMMA PipelineKeyed ==
  ASSUME DOMAIN job = Requests, Clock, NEW r \in Requests, JobKeyed(r, job[r]),
         PipelineStep(r)
  PROVE  /\ JobKeyed(r, job'[r]) /\ job'[r].at # "next"
         /\ Unserved(r, job'[r]) \/ LookupHit(r)
<1>. DEFINE Good(j) == /\ JobKeyed(r, j) /\ j.at # "next"
                       /\ Unserved(r, j) \/ LookupHit(r)
<1>0. /\ \A j : Steps(r, j) => Good(j)
      /\ DOMAIN job[r] = JobFields
  BY DEF Steps, JobKeyed
<1>1. CASE Generate(r)
  <2>1. job[r].at = "generate" /\ Kind[r] \in Generating /\ job[r].who = "nl2sql"
    BY <1>1 DEF Generate, At, JobKeyed, Asking
  <2>. DEFINE made(result) ==
                [job[r] EXCEPT !.at = "made", !.schema = schema, !.result = result]
              check == [job[r] EXCEPT !.at = "check", !.schema = schema]
  <2>2. (\E result : job'[r] = made(result))
        \/ (job'[r] = check /\ Provider[r] \notin NoModel)
    <3>1. \/ Update(r, made(Mock("mock", r, schema)))
          \/ Update(r, made(Result("llm", FALSE, r, schema)))
          \/ Update(r, made(Unavailable(r, schema)))
          \/ Update(r, check) /\ Provider[r] \notin NoModel
      BY <1>1 DEF Generate, NoModel
    <3>. HIDE DEF made, check
    <3>. QED BY <3>1, Gets, Zenon
  <2>3. ASSUME NEW result
        PROVE  Steps(r, [job[r] EXCEPT !.at = "made", !.schema = schema, !.result = result])
    BY <1>0 DEF Steps, JobKeyed, Unserved, Asking, JobFields
  <2>4. CASE Provider[r] \notin NoModel
    <3>1. Steps(r, [job[r] EXCEPT !.at = "check", !.schema = schema])
      BY <1>0, <2>1, <2>4 DEF Steps, JobKeyed, Unserved, Asking, JobFields, Clock
    <3>. QED BY <1>0, <2>2, <2>3, <3>1
  <2>. QED BY <1>0, <2>2, <2>3, <2>4
<1>2. CASE GenerateRaises(r)
  <2>1. job'[r] = [job[r] EXCEPT !.at = "raised"]
    BY <1>2, Gets DEF GenerateRaises
  <2>2. Steps(r, [job[r] EXCEPT !.at = "raised"])
    BY ElsewhereKeyed DEF Elsewhere
  <2>. QED BY <1>0, <2>1, <2>2, Zenon
<1>3. ASSUME job[r].at = "check" PROVE Steps(r, [job[r] EXCEPT !.at = "lookup"])
  BY <1>0, <1>3 DEF Steps, JobKeyed, Unserved, Asking, JobFields
<1>4. CASE Check(r)
  <2>1. job[r].at = "check"
    BY <1>4 DEF Check, At
  <2>2. job'[r] = [job[r] EXCEPT !.at = "lookup"] \/ job'[r] = Without(r)
    BY <1>4, Gets DEF Check
  <2>3. Steps(r, Without(r)) /\ Steps(r, [job[r] EXCEPT !.at = "lookup"])
    BY <1>3, <2>1, WithoutKeyed DEF Asking
  <2>. QED BY <1>0, <2>2, <2>3, Zenon
<1>5. CASE LookupHit(r)
  <2>. DEFINE kept == cache[CacheKey(r)].value
  <2>1. job[r].at = "lookup"
    BY <1>5 DEF LookupHit, At
  <2>2. job'[r] = [job[r] EXCEPT !.at = IF job[r].who = "judge" THEN "judged" ELSE "made",
                              !.result = kept.result, !.via = "cache",
                              !.stored = kept.at]
    BY <1>5, Gets DEF LookupHit
  <2>. HIDE DEF kept
  <2>3. JobKeyed(r, job'[r]) /\ job'[r].at # "next"
    BY <1>0, <2>1, <2>2 DEF JobKeyed, Asking, JobFields
  <2>. QED BY <1>5, <2>3
<1>6. CASE LookupMiss(r)
  <2>1. job[r].at = "lookup"
    BY <1>6 DEF LookupMiss, At
  <2>2. job'[r] = [job[r] EXCEPT !.at = "call"] \/ job'[r] = Without(r)
    BY <1>6, Gets DEF LookupMiss
  <2>3. Steps(r, [job[r] EXCEPT !.at = "call"])
    BY <1>0, <2>1 DEF Steps, JobKeyed, Unserved, Asking, JobFields
  <2>4. Steps(r, Without(r))
    BY <2>1, WithoutKeyed DEF Asking
  <2>. QED BY <1>0, <2>2, <2>3, <2>4, Zenon
<1>7. ASSUME NEW usable, NEW cost, NEW loses, Answered(r, usable, cost, loses),
             job[r].at \in {"call", "compatible"}
      PROVE  Steps(r, job'[r])
  <2>. DEFINE result == IF job[r].who # "nl2sql" THEN job[r].result
                        ELSE IF usable THEN Result("llm", TRUE, r, job[r].schema)
                        ELSE Unavailable(r, job[r].schema)
              at == NextOfAnswer(r, usable)
              answer == [usable |-> usable, cost |-> cost]
  <2>1. job'[r] = [job[r] EXCEPT !.at = at, !.answer = answer, !.via = "provider",
                                 !.result = result]
    BY <1>7, Gets DEF Answered
  <2>2. job[r].who = "nl2sql" =>
          result.query = Query[r] /\ result.schema = job[r].schema
    <3>1. job[r].who = "nl2sql" =>
            \/ result = Result("llm", TRUE, r, job[r].schema)
            \/ result = Unavailable(r, job[r].schema)
      OBVIOUS
    <3>. HIDE DEF result
    <3>2. CASE result = Result("llm", TRUE, r, job[r].schema)
      BY <3>2 DEF Result
    <3>3. CASE result = Unavailable(r, job[r].schema)
      BY <3>3, UnavailableIsFor
    <3>. QED BY <3>1, <3>2, <3>3
  <2>3. /\ job[r].who = "nl2sql" => at = "record"
        /\ job[r].who = "judge" => at \in {"record", "judged"}
        /\ job[r].who \notin {"nl2sql", "judge"} => at = "answered"
    BY DEF NextOfAnswer
  <2>. HIDE DEF result, at, answer
  <2>4. Unserved(r, job'[r]) /\ DOMAIN job'[r] = JobFields
    BY <1>0, <2>1 DEF Unserved, JobFields
  <2>5. /\ job'[r].at = at /\ job'[r].result = result
        /\ job'[r].who = job[r].who /\ job'[r].case = job[r].case
        /\ job'[r].schema = job[r].schema
    BY <1>0, <2>1 DEF JobFields
  <2>. QED BY <1>0, <1>7, <2>2, <2>3, <2>4, <2>5 DEF Steps, JobKeyed, Asking
<1>8. CASE FakeAnswers(r) \/ LiteLLMAnswers(r) \/ OpenAIAnswers(r) \/ CompatibleAnswers(r)
  <2>1. Steps(r, job'[r])
    BY <1>7, <1>8 DEF FakeAnswers, LiteLLMAnswers, OpenAIAnswers, CompatibleAnswers,
         UnpricedAnswer, AnyAnswer, At
  <2>. QED BY <1>0, <2>1
<1>9. CASE LiteLLMErrs(r) \/ OpenAIErrs(r) \/ CompatibleErrs(r)
  <2>1. \/ job'[r] = Failed(r)
        \/ At(r, "call") /\ job'[r] = [job[r] EXCEPT !.attempt = @ + 1]
        \/ At(r, "call") /\ job'[r] = [job[r] EXCEPT !.at = "compatible"]
    BY <1>9, Gets DEF LiteLLMErrs, OpenAIErrs, CompatibleErrs, Erred
  <2>2. job[r].at \in {"call", "compatible"}
    BY <1>9 DEF LiteLLMErrs, OpenAIErrs, CompatibleErrs, At
  <2>3. Steps(r, Failed(r))
    BY <2>2, WithoutKeyed DEF Asking
  <2>4. ASSUME At(r, "call")
        PROVE  /\ Steps(r, [job[r] EXCEPT !.attempt = @ + 1])
               /\ Steps(r, [job[r] EXCEPT !.at = "compatible"])
    BY <1>0, <2>4 DEF Steps, JobKeyed, Unserved, Asking, JobFields, At
  <2>. QED BY <1>0, <2>1, <2>3, <2>4, Zenon
<1>10. CASE Record(r)
  <2>1. job'[r] = [job[r] EXCEPT !.at = "store"] /\ job[r].at = "record"
    BY <1>10, Gets DEF Record, At
  <2>2. Steps(r, [job[r] EXCEPT !.at = "store"])
    BY <1>0, <2>1 DEF Steps, JobKeyed, Unserved, Asking, JobFields
  <2>. QED BY <1>0, <2>1, <2>2, Zenon
<1>11. CASE Store(r)
  <2>1. /\ job[r].at = "store"
        /\ job'[r] = [job[r] EXCEPT !.at = IF job[r].who = "judge" THEN "judged" ELSE "made"]
    BY <1>11, Gets DEF Store, At
  <2>2. Steps(r, job'[r])
    BY <1>0, <2>1 DEF Steps, JobKeyed, Unserved, Asking, JobFields
  <2>. QED BY <1>0, <2>2
<1>. QED BY <1>1, <1>2, <1>4, <1>5, <1>6, <1>8, <1>9, <1>10, <1>11 DEF PipelineStep

\* A judge turns to the next of the bad cases.
LEMMA JudgeKeyed ==
  ASSUME DOMAIN job = Requests, NEW r \in Requests, Kind[r] = "judge",
         JudgeCase(r), job[r].case + 1 \in 1..Len(BadCases)
  PROVE  Steps(r, job'[r])
<1>1. job'[r] = [NewJob EXCEPT !.who = "judge", !.case = job[r].case + 1,
                               !.at = IF FakeJudges(r) THEN "judged" ELSE "check"]
  BY Gets DEF JudgeCase
<1>. QED BY <1>1 DEF Steps, JobKeyed, Unserved, Asking, JobFields, NewJob

\* The endpoints keep the jobs keyed, too.
LEMMA EndpointKeyed ==
  ASSUME NL2SQLRequestsAssumption, DOMAIN job = Requests, NEW r \in Requests,
         JobKeyed(r, job[r]), EndpointStep(r)
  PROVE  Steps(r, job'[r])
<1>0. DOMAIN job[r] = JobFields
  BY DEF JobKeyed
<1>1. ASSUME NEW p \in Elsewhere, job'[r] = [job[r] EXCEPT !.at = p]
      PROVE  Steps(r, job'[r])
  BY <1>1, ElsewhereKeyed
<1>2. ASSUME job[r].at \in {"new", "opened"}, job'[r] = [job[r] EXCEPT !.at = "generate"],
             Kind[r] \in Generating
      PROVE  Steps(r, job'[r])
  BY <1>0, <1>2 DEF Steps, JobKeyed, Unserved, Asking, JobFields
<1>3. CASE Arrive(r)
  <2>1. job[r].at = "new" /\ Kind[r] \in Generating
    BY <1>3 DEF Arrive, At, Generating
  <2>2. \/ job'[r] = [job[r] EXCEPT !.at = "made"]
        \/ job'[r] = [job[r] EXCEPT !.at = "generate"]
    BY <1>3, Gets DEF Arrive, Blocked
  <2>. QED BY <1>1, <1>2, <2>1, <2>2 DEF Elsewhere
<1>4. CASE Reply(r) \/ FinishStream(r) \/ Disconnect(r)
  <2>1. \E p \in Elsewhere : job'[r] = [NewJob EXCEPT !.at = p]
    BY <1>4, Gets DEF Reply, FinishStream, Disconnect, Elsewhere
  <2>. QED BY <2>1, EndKeyed
<1>5. CASE ArriveBadCases(r)
  <2>1. Kind[r] = "judge" /\ JudgeCase(r) /\ job[r].case = 0
    BY <1>5 DEF ArriveBadCases, JobKeyed, At
  <2>2. 0 + 1 \in 1..Len(BadCases)
    BY DEF NL2SQLRequestsAssumption
  <2>. QED BY <2>1, <2>2, JudgeKeyed
<1>6. CASE NextBadCase(r)
  <2>1. Kind[r] = "judge" /\ JudgeCase(r) /\ job[r].case \in 1..Len(BadCases)
        /\ job[r].case < Len(BadCases)
    BY <1>6 DEF NextBadCase, JobKeyed, At
  <2>2. Len(BadCases) \in Nat
    BY DEF NL2SQLRequestsAssumption
  <2>3. job[r].case + 1 \in 1..Len(BadCases)
    BY <2>1, <2>2
  <2>. QED BY <2>1, <2>3, JudgeKeyed
<1>7. CASE ArriveEval(r)
  <2>1. job'[r] = [job[r] EXCEPT !.who = "eval",
                              !.at = IF Generator(r) THEN "evaluate" ELSE "made"]
    BY <1>7, Gets DEF ArriveEval
  <2>. QED BY <1>0, <2>1 DEF Steps, JobKeyed, Unserved, Asking, JobFields
<1>8. CASE EvaluateCase(r)
  <2>. DEFINE next == job[r].case + 1
              p == IF Makes(Provider[r]) /\ Cases[r][next] = "normal"
                   THEN "call" ELSE "evaluate"
  <2>1. job'[r] = [NewJob EXCEPT !.who = "eval", !.case = next, !.at = p]
    BY <1>8, Gets DEF EvaluateCase
  <2>2. p \in {"call", "evaluate"}
    OBVIOUS
  <2>. HIDE DEF next, p
  <2>. QED BY <2>1, <2>2 DEF Steps, JobKeyed, Unserved, Asking, JobFields, NewJob
<1>9. CASE ExplainFailure(r)
  <2>1. job'[r] = [job[r] EXCEPT !.at = "call", !.attempt = 0, !.again = TRUE]
        /\ job[r].who = "eval"
    BY <1>9, Gets DEF ExplainFailure
  <2>. QED BY <1>0, <2>1 DEF Steps, JobKeyed, Unserved, Asking, JobFields
<1>10. CASE EvalRaises(r) \/ CaseEvaluated(r)
  <2>1. \E p \in Elsewhere : job'[r] = [job[r] EXCEPT !.at = p]
    BY <1>10, Gets DEF EvalRaises, CaseEvaluated, Elsewhere
  <2>. QED BY <1>1, <2>1
<1>11. CASE OpenStream(r)
  <2>1. job[r].at = "new" /\ Kind[r] = "stream"
    BY <1>11 DEF OpenStream, At
  <2>2. \/ job'[r] = [job[r] EXCEPT !.at = "made"]
        \/ job'[r] = [job[r] EXCEPT !.at = "opened"]
    BY <1>11, Gets DEF OpenStream, Blocked
  <2>3. Steps(r, [job[r] EXCEPT !.at = "opened"])
    BY <1>0, <2>1 DEF Steps, JobKeyed, Unserved, Asking, JobFields
  <2>4. Steps(r, [job[r] EXCEPT !.at = "made"])
    BY ElsewhereKeyed DEF Elsewhere
  <2>. QED BY <2>2, <2>3, <2>4, Zenon
<1>12. CASE AdvanceStream(r)
  <2>1. job[r].at = "opened" /\ Kind[r] = "stream"
    BY <1>12 DEF AdvanceStream, At, JobKeyed
  <2>2. job'[r] = [job[r] EXCEPT !.at = "generate"]
    BY <1>12, Gets DEF AdvanceStream
  <2>. QED BY <1>2, <2>1, <2>2 DEF Generating
<1>. QED BY <1>3, <1>4, <1>5, <1>6, <1>7, <1>8, <1>9, <1>10, <1>11, <1>12 DEF EndpointStep

\* So do the pilots, which know no cache, and the checks of the settings.
LEMMA PilotKeyed ==
  ASSUME DOMAIN job = Requests, NEW r \in Requests, JobKeyed(r, job[r]),
         PilotStep(r) \/ ArrivePreflight(r) \/ ArriveCheck(r)
  PROVE  Steps(r, job'[r])
<1>0. DOMAIN job[r] = JobFields
  BY DEF JobKeyed
<1>. DEFINE Goes == \/ \E p \in Elsewhere : job'[r] = [job[r] EXCEPT !.at = p]
                    \/ \E p \in Elsewhere : job'[r] = [NewJob EXCEPT !.at = p]
                    \/ job'[r] = Calling(r, "probe") \/ job'[r] = Calling(r, "pilot")
                    \/ job'[r] = Calling(r, "preflight")
<1>1. Goes => Steps(r, job'[r])
  <2>1. /\ Steps(r, Calling(r, "probe")) /\ Steps(r, Calling(r, "pilot"))
        /\ Steps(r, Calling(r, "preflight"))
    BY CallingKeyed
  <2>2. ASSUME NEW p \in Elsewhere
        PROVE  Steps(r, [job[r] EXCEPT !.at = p]) /\ Steps(r, [NewJob EXCEPT !.at = p])
    BY ElsewhereKeyed, EndKeyed
  <2>. QED BY <2>1, <2>2, Zenon
<1>2. CASE StartPilot(r)
  <2>1. Goes
    BY <1>2, Gets DEF StartPilot, Exit, Elsewhere
  <2>. QED BY <1>1, <2>1
<1>3. CASE ProbeEnds(r)
  <2>1. Goes
    BY <1>3, Gets DEF ProbeEnds, Exit, Elsewhere
  <2>. QED BY <1>1, <2>1
<1>4. CASE Load(r)
  <2>1. \/ job'[r] = [NewJob EXCEPT !.at = "done"]
        \/ job'[r] = [job[r] EXCEPT !.at = "case", !.schema = schema]
    BY <1>4, Gets DEF Load, Exit
  <2>2. Steps(r, [job[r] EXCEPT !.at = "case", !.schema = schema])
    BY <1>0 DEF Steps, JobKeyed, Unserved, Asking, JobFields
  <2>3. Steps(r, [NewJob EXCEPT !.at = "done"])
    BY EndKeyed DEF Elsewhere
  <2>. QED BY <2>1, <2>2, <2>3, Zenon
<1>5. CASE DangerousCase(r) \/ CaseEnds(r) \/ NormalCase(r)
  <2>1. Goto(r, "case") \/ Update(r, Calling(r, "pilot"))
    BY <1>5 DEF DangerousCase, CaseEnds, NormalCase, AskModel, Put
  <2>2. job'[r] = [job[r] EXCEPT !.at = "case"] \/ job'[r] = Calling(r, "pilot")
    BY <2>1, Gets
  <2>3. Goes
    BY <2>2 DEF Elsewhere
  <2>. QED BY <1>1, <2>3
<1>6. CASE Evaluated(r) \/ WriteJson(r) \/ WriteMarkdown(r)
  <2>1. Goes
    BY <1>6, Gets DEF Evaluated, WriteJson, WriteMarkdown, Writes, Exit, Elsewhere
  <2>. QED BY <1>1, <2>1
<1>7. CASE ArrivePreflight(r)
  <2>1. \/ job'[r] = Calling(r, "preflight")
        \/ job'[r] = [job[r] EXCEPT !.who = "preflight", !.at = "answered"]
    BY <1>7, Gets DEF ArrivePreflight
  <2>2. Steps(r, [job[r] EXCEPT !.who = "preflight", !.at = "answered"])
    BY <1>0 DEF Steps, JobKeyed, Unserved, Asking, JobFields
  <2>3. Steps(r, Calling(r, "preflight"))
    BY CallingKeyed
  <2>. QED BY <2>1, <2>2, <2>3, Zenon
<1>8. CASE ArriveCheck(r)
  <2>1. Goes
    BY <1>8, Gets DEF ArriveCheck, Elsewhere
  <2>. QED BY <1>1, <2>1
<1>. QED BY <1>2, <1>3, <1>4, <1>5, <1>6, <1>7, <1>8 DEF PilotStep

-----------------------------------------------------------------------------
(* The tasks.                                                              *)

\* The cascade of a mode consists of modes.
LEMMA CascadeModes ==
  ASSUME NEW mode \in Selectable
  PROVE  Cascade(mode) \in Seq(RunModes) /\ Cascade(mode) # <<>>
<1>1. CASE mode = "auto"
  <2>1. Cascade(mode) = <<"nl2sql", "multitool", "keyword">>
    BY <1>1 DEF Cascade
  <2>. QED BY <2>1 DEF RunModes
<1>2. CASE mode # "auto"
  <2>1. Cascade(mode) = <<mode>> /\ mode \in RunModes
    BY <1>2 DEF Cascade, Selectable
  <2>. QED BY <2>1
<1>. QED BY <1>1, <1>2

\* A task that starts a run has one mode less to try, and its job is keyed: if
\* it is to ask, it is on its way to read the schema.
LEMMA StartRunKeyed ==
  ASSUME Shape, NEW r \in Tasks, JobKeyed(r, job[r]),
         NEW t, DOMAIN t = TaskFields, t.todo \in Seq(RunModes), t.todo # <<>>, StartRun(r, t)
  PROVE  Steps(r, job'[r]) /\ TaskKeyed(r)'
<1>. DEFINE j == [job[r] EXCEPT !.who = "nl2sql", !.at = "generate", !.attempt = 0,
                                !.answer = NoAnswer, !.via = "none"]
            k == [job[r] EXCEPT !.at = Head(t.todo)]
<1>1. r \in Requests /\ DOMAIN job = Requests /\ Kind[r] = "task" /\ DOMAIN job[r] = JobFields
  BY DEF Shape, Tasks, JobKeyed
<1>2. /\ Head(t.todo) \in RunModes /\ Tail(t.todo) \in Seq(RunModes)
      /\ task'[r].todo = Tail(t.todo)
  <2>1. task'[r].todo = Tail(t.todo)
    BY StartRunMeans
  <2>2. Head(t.todo) \in RunModes /\ Tail(t.todo) \in Seq(RunModes)
    OBVIOUS
  <2>. QED BY <2>1, <2>2
<1>3. \/ job'[r] = j \/ job'[r] = Calling(r, "plan")
      \/ Head(t.todo) # "nl2sql" /\ job'[r] = k
  BY <1>1, Gets DEF StartRun
<1>4. Steps(r, j)
  BY <1>1 DEF Steps, JobKeyed, Unserved, Asking, JobFields, Generating
<1>5. Steps(r, Calling(r, "plan"))
  BY CallingKeyed
<1>6. ASSUME Head(t.todo) # "nl2sql" PROVE Steps(r, k)
  <2>1. Head(t.todo) \in Elsewhere
    BY <1>2, <1>6 DEF RunModes, Elsewhere
  <2>. QED BY <2>1, ElsewhereKeyed
<1>. HIDE DEF j, k
<1>7. Steps(r, job'[r])
  BY <1>3, <1>4, <1>5, <1>6
<1>. QED BY <1>2, <1>7 DEF TaskKeyed, Steps

\* A run that has ended is followed by one that is due, or by the end.
LEMMA RunEndsKeyed ==
  ASSUME Shape, NEW r \in Tasks, JobKeyed(r, job[r]), TaskKeyed(r),
         NEW run \in Runs, RunEnds(r, run)
  PROVE  Steps(r, job'[r]) /\ TaskKeyed(r)'
<1>1. CASE CascadeGoesOn(r, run)
  <2>1. PICK t : DOMAIN t = TaskFields /\ t.todo = task[r].todo /\ StartRun(r, t)
    BY <1>1 DEF CascadeGoesOn
  <2>2. t.todo \in Seq(RunModes) /\ t.todo # <<>>
    BY <1>1, <2>1 DEF CascadeGoesOn, TaskKeyed
  <2>. QED BY <2>1, <2>2, StartRunKeyed
<1>2. CASE FallsBack(r, run)
  <2>. DEFINE mode == SuggestFallback(task[r].selected)
  <2>1. PICK t : DOMAIN t = TaskFields /\ t.todo = Cascade(mode) /\ StartRun(r, t)
    BY <1>2 DEF FallsBack
  <2>2. mode \in Selectable
    BY DEF SuggestFallback, Selectable, RunModes
  <2>. HIDE DEF mode
  <2>3. t.todo \in Seq(RunModes) /\ t.todo # <<>>
    BY <2>1, <2>2, CascadeModes
  <2>. QED BY <2>1, <2>3, StartRunKeyed
<1>3. CASE Concludes(r, run)
  <2>1. Steps(r, job'[r])
    BY <1>3, EndKeyed DEF Concludes, Elsewhere
  <2>2. task'[r].todo = <<>> /\ job'[r].at # "next"
    BY <1>3, <2>1 DEF Concludes, Steps
  <2>. QED BY <2>1, <2>2 DEF TaskKeyed
<1>. QED BY <1>1, <1>2, <1>3, RunEndsMeans

\* A mode that is decided on has its first run.
LEMMA SelectKeyed ==
  ASSUME Shape, NEW r \in Tasks, JobKeyed(r, job[r]), NEW mode \in Selectable,
         Select(r, mode)
  PROVE  Steps(r, job'[r]) /\ TaskKeyed(r)'
<1>. DEFINE t == [task[r] EXCEPT !.selected = mode, !.todo = Cascade(mode)]
<1>1. DOMAIN t = TaskFields /\ t.todo = Cascade(mode)
  BY DEF Shape, TaskRecord, TaskFields
<1>2. StartRun(r, t)
  BY DEF Select
<1>. HIDE DEF t
<1>3. t.todo \in Seq(RunModes) /\ t.todo # <<>>
  BY <1>1, CascadeModes
<1>. QED BY <1>1, <1>2, <1>3, StartRunKeyed

\* A run that raised is followed by the keywords, or by the end.
LEMMA RunRaisesKeyed ==
  ASSUME Shape, NEW r \in Tasks, JobKeyed(r, job[r]), RunRaises(r)
  PROVE  Steps(r, job'[r]) /\ TaskKeyed(r)'
<1>. DEFINE mode == IF At(r, "raised") THEN "nl2sql" ELSE "multitool"
            t == [task[r] EXCEPT !.runs = Append(@, Outcome(mode, "failed"))]
            u == [t EXCEPT !.todo = <<"keyword">>]
            v == [t EXCEPT !.todo = <<>>,
                         !.adopted = IF Mode[r] = "multi_agent" THEN 0 ELSE Len(t.runs)]
<1>1. IF Mode[r] = "auto" THEN StartRun(r, u) ELSE Conclude(r, v)
  BY DEF RunRaises
<1>2. DOMAIN t = TaskFields
  BY DEF Shape, TaskRecord, TaskFields
<1>. HIDE DEF t
<1>3. DOMAIN u = TaskFields /\ u.todo = <<"keyword">> /\ v.todo = <<>>
  BY <1>2 DEF TaskFields
<1>. HIDE DEF u, v
<1>4. CASE Mode[r] = "auto"
  <2>1. u.todo \in Seq(RunModes) /\ u.todo # <<>>
    BY <1>3 DEF RunModes
  <2>. QED BY <1>1, <1>3, <1>4, <2>1, StartRunKeyed
<1>5. CASE Mode[r] # "auto"
  <2>1. task'[r] = v /\ job'[r] = [NewJob EXCEPT !.at = "done"]
    BY <1>1, <1>5, ConcludeMeans
  <2>2. Steps(r, job'[r])
    BY <2>1, EndKeyed DEF Elsewhere
  <2>3. task'[r].todo = <<>> /\ job'[r].at # "next"
    BY <1>3, <2>1, <2>2 DEF Steps
  <2>. QED BY <2>2, <2>3 DEF TaskKeyed
<1>. QED BY <1>4, <1>5

\* A step of a task keeps its job keyed and its cascade one of modes.
LEMMA TaskStepKeyed ==
  ASSUME Shape, TaskModesAssumption, NEW r \in Tasks, JobKeyed(r, job[r]), TaskKeyed(r),
         TaskStep(r)
  PROVE  JobKeyed(r, job'[r]) /\ Unserved(r, job'[r]) /\ TaskKeyed(r)'
<1>1. r \in Requests /\ DOMAIN job = Requests /\ r \in DOMAIN task
      /\ DOMAIN job[r] = JobFields /\ DOMAIN task[r] = TaskFields
  BY DEF Shape, Tasks, JobKeyed, TaskRecord
<1>2. ASSUME task' = task, Steps(r, job'[r])
      PROVE  Steps(r, job'[r]) /\ TaskKeyed(r)'
  BY <1>2 DEF TaskKeyed, Steps
<1>3. ASSUME Steps(r, job'[r]) /\ TaskKeyed(r)'
      PROVE  JobKeyed(r, job'[r]) /\ Unserved(r, job'[r]) /\ TaskKeyed(r)'
  BY <1>3 DEF Steps
<1>4. CASE ArriveTask(r)
  <2>. DEFINE t == [NewTask EXCEPT !.selected = Mode[r], !.todo = Cascade(Mode[r])]
  <2>1. \/ task' = task /\ job'[r] = [job[r] EXCEPT !.at = "refused"]
        \/ task' = task /\ job'[r] = [job[r] EXCEPT !.at = "route"]
        \/ task' = task /\ job'[r] = Calling(r, "route")
        \/ /\ Mode[r] # "multi_agent" /\ task' = [task EXCEPT ![r] = t]
           /\ job'[r] = [job[r] EXCEPT !.at = "next"]
    BY <1>1, <1>4, Gets DEF ArriveTask
  <2>2. /\ Steps(r, [job[r] EXCEPT !.at = "refused"]) /\ Steps(r, [job[r] EXCEPT !.at = "route"])
        /\ Steps(r, Calling(r, "route"))
    BY ElsewhereKeyed, CallingKeyed DEF Elsewhere
  <2>3. CASE /\ Mode[r] # "multi_agent" /\ task' = [task EXCEPT ![r] = t]
             /\ job'[r] = [job[r] EXCEPT !.at = "next"]
    <3>1. t.todo = Cascade(Mode[r])
      BY DEF NewTask
    <3>2. Mode[r] \in Selectable
      BY <2>3 DEF TaskModesAssumption
    <3>3. task'[r] = t
      BY <1>1, <2>3
    <3>. HIDE DEF t
    <3>4. TaskKeyed(r)'
      BY <3>1, <3>2, <3>3, CascadeModes DEF TaskKeyed
    <3>5. JobKeyed(r, job'[r]) /\ Unserved(r, job'[r])
      BY <1>1, <2>3 DEF JobKeyed, Unserved, Asking, JobFields
    <3>. QED BY <3>4, <3>5
  <2>4. CASE /\ task' = task
             /\ \/ job'[r] = [job[r] EXCEPT !.at = "refused"]
                \/ job'[r] = [job[r] EXCEPT !.at = "route"]
                \/ job'[r] = Calling(r, "route")
    <3>1. Steps(r, job'[r])
      BY <2>2, <2>4, Zenon
    <3>. QED BY <1>2, <1>3, <2>4, <3>1
  <2>. QED BY <2>1, <2>3, <2>4
<1>5. CASE ConcludeRefused(r)
  <2>1. task'[r] = task[r] /\ job'[r] = [NewJob EXCEPT !.at = "done"]
    BY <1>5, ConcludeMeans DEF ConcludeRefused
  <2>2. Steps(r, job'[r])
    BY <2>1, EndKeyed DEF Elsewhere
  <2>3. TaskKeyed(r)'
    BY <2>1, <2>2 DEF TaskKeyed, Steps
  <2>. QED BY <1>3, <2>2, <2>3
<1>6. CASE NextRun(r)
  <2>1. StartRun(r, task[r]) /\ task[r].todo # <<>> /\ task[r].todo \in Seq(RunModes)
    BY <1>6 DEF NextRun, TaskKeyed, At
  <2>. QED BY <1>1, <1>3, <2>1, StartRunKeyed
<1>7. CASE RouteByLLM(r) \/ RouteByRule(r)
  <2>1. Rule[Query[r]] \in Selectable
    BY DEF TaskModesAssumption
  <2>2. \E mode \in Selectable : Select(r, mode)
    BY <1>7, <2>1 DEF RouteByLLM, RouteByRule
  <2>. QED BY <1>3, <2>2, SelectKeyed
<1>8. CASE Planned(r)
  <2>1. task' = task /\ job'[r] = [job[r] EXCEPT !.at = "keyword"]
    BY <1>1, <1>8, Gets DEF Planned
  <2>2. Steps(r, [job[r] EXCEPT !.at = "keyword"])
    BY ElsewhereKeyed DEF Elsewhere
  <2>3. Steps(r, job'[r])
    BY <2>1, <2>2, Zenon
  <2>. QED BY <1>2, <1>3, <2>1, <2>3
<1>9. CASE NL2SQLRunEnds(r) \/ MultitoolRunEnds(r) \/ KeywordRunEnds(r)
  <2>1. \E run \in Runs : RunEnds(r, run)
    BY <1>9, OutcomeIsRun DEF NL2SQLRunEnds, MultitoolRunEnds, KeywordRunEnds, RunModes
  <2>. QED BY <1>3, <2>1, RunEndsKeyed
<1>10. CASE RunRaises(r)
  BY <1>3, <1>10, RunRaisesKeyed
<1>. QED BY <1>4, <1>5, <1>6, <1>7, <1>8, <1>9, <1>10 DEF TaskStep

-----------------------------------------------------------------------------
(* The cache.                                                              *)

\* What a step of the pipeline does with the clock, the schema and the cache: a
\* miss drops an entry, and what is worth it is kept.
LEMMA PipelineCache ==
  ASSUME NEW r, PipelineStep(r)
  PROVE  /\ UNCHANGED <<now, schema>>
         /\ \/ UNCHANGED cache
            \/ LookupMiss(r) /\ cache' = [cache EXCEPT ![CacheKey(r)] = NoEntry]
            \/ /\ Store(r) /\ WorthKeeping(r)
               /\ Keep(CacheKey(r), [result |-> job[r].result, at |-> now])
<1>1. CASE Generate(r) \/ GenerateRaises(r) \/ Check(r) \/ LiteLLMErrs(r)
           \/ OpenAIErrs(r) \/ CompatibleErrs(r)
  BY <1>1 DEF Generate, GenerateRaises, Check, LiteLLMErrs, OpenAIErrs, CompatibleErrs, shared
<1>2. CASE FakeAnswers(r) \/ LiteLLMAnswers(r) \/ OpenAIAnswers(r) \/ CompatibleAnswers(r)
  BY <1>2 DEF FakeAnswers, LiteLLMAnswers, OpenAIAnswers, CompatibleAnswers, shared
<1>3. CASE LookupHit(r)
  BY <1>3 DEF LookupHit, Hit
<1>4. CASE LookupMiss(r)
  BY <1>4 DEF LookupMiss, Miss
<1>5. CASE Record(r)
  BY <1>5 DEF Record
<1>6. CASE Store(r)
  BY <1>6 DEF Store
<1>. QED BY <1>1, <1>2, <1>3, <1>4, <1>5, <1>6 DEF PipelineStep

\* The others leave all of them alone.
LEMMA NoCache ==
  ASSUME NEW r,
         EndpointStep(r) \/ TaskStep(r) \/ PilotStep(r) \/ ArrivePreflight(r) \/ ArriveCheck(r)
  PROVE  UNCHANGED <<now, schema, cache>>
<1>1. CASE EndpointStep(r)
  BY <1>1 DEF EndpointStep, Arrive, Reply, ArriveBadCases, NextBadCase, ArriveEval,
       EvalRaises, EvaluateCase, CaseEvaluated, ExplainFailure, OpenStream, AdvanceStream,
       FinishStream, Disconnect, shared
<1>2. CASE TaskStep(r)
  BY <1>2 DEF TaskStep, ArriveTask, ConcludeRefused, NextRun, RouteByLLM, RouteByRule,
       Planned, NL2SQLRunEnds, RunRaises, MultitoolRunEnds, KeywordRunEnds, Only, shared
<1>3. CASE PilotStep(r)
  BY <1>3 DEF PilotStep, StartPilot, ProbeEnds, Load, DangerousCase, NormalCase, CaseEnds,
       Evaluated, WriteJson, WriteMarkdown, Writes, Others, shared
<1>4. CASE ArrivePreflight(r) \/ ArriveCheck(r)
  BY <1>4 DEF ArrivePreflight, ArriveCheck, shared
<1>. QED BY <1>1, <1>2, <1>3, <1>4

\* A step of the pipeline keeps the entries sound.
LEMMA PipelineSound ==
  ASSUME KeysAssumption, NL2SQLRequestsAssumption, LLMBudgetAssumption, Clock, CacheSound,
         NEW r \in Requests, JobKeyed(r, job[r]), PipelineStep(r)
  PROVE  Clock' /\ CacheSound'
<1>1. Clock'
  BY PipelineCache DEF Clock
<1>2. CASE UNCHANGED cache
  BY <1>1, <1>2 DEF CacheSound, EntrySound
<1>3. CASE LookupMiss(r) /\ cache' = [cache EXCEPT ![CacheKey(r)] = NoEntry]
  <2>1. ASSUME NEW k \in Keys PROVE cache'[k] = NoEntry \/ cache'[k] = cache[k]
    BY <1>3 DEF CacheSound
  <2>2. DOMAIN cache' = Keys
    BY <1>3 DEF CacheSound
  <2>. QED BY <1>1, <2>1, <2>2 DEF CacheSound, EntrySound
<1>4. CASE /\ Store(r) /\ WorthKeeping(r)
           /\ Keep(CacheKey(r), [result |-> job[r].result, at |-> now])
  <2>. DEFINE value == [result |-> job[r].result, at |-> now]
              e == Entry(value, IF TTL = 0 THEN 0 ELSE now + TTL)
  <2>1. job[r].at = "store"
    BY <1>4 DEF Store, At
  <2>2. /\ CacheKey(r) \in Keys /\ CacheKey(r)[1] = job[r].who
        /\ job[r].who = "nl2sql" =>
             CacheKey(r)[2] = Query[r] /\ CacheKey(r)[4] = job[r].schema
    BY <2>1, KeyKnown
  <2>3. job[r].who = "nl2sql" =>
          /\ job[r].result.by = "llm"
          /\ job[r].result.query = Query[r] /\ job[r].result.schema = job[r].schema
    BY <1>4, <2>1 DEF JobKeyed, WorthKeeping
  <2>4. /\ e.value.at = now /\ e.value.result = job[r].result
        /\ TTL > 0 => e.expires = now + TTL
    BY DEF Entry, LLMBudgetAssumption
  <2>5. \/ cache' = cache \/ cache' = [cache EXCEPT ![CacheKey(r)] = e]
    BY <1>4 DEF Keep
  <2>. HIDE DEF e
  <2>6. EntrySound(CacheKey(r), e)
    BY <2>2, <2>3, <2>4 DEF EntrySound, Clock
  <2>7. CASE cache' = [cache EXCEPT ![CacheKey(r)] = e]
    <3>1. ASSUME NEW k \in Keys PROVE cache'[k] = IF k = CacheKey(r) THEN e ELSE cache[k]
      BY <2>7 DEF CacheSound
    <3>2. DOMAIN cache' = Keys
      BY <2>7 DEF CacheSound
    <3>. QED BY <1>1, <2>6, <3>1, <3>2 DEF CacheSound
  <2>. QED BY <1>2, <2>5, <2>7
<1>. QED BY <1>2, <1>3, <1>4, PipelineCache

\* A hit is on an entry that has not expired, for the query and the schema of
\* whoever asks.
LEMMA HitHonest ==
  ASSUME KeysAssumption, NL2SQLRequestsAssumption, LLMBudgetAssumption, Clock, CacheSound,
         DOMAIN job = Requests, NEW r \in Requests, JobKeyed(r, job[r]), LookupHit(r)
  PROVE  /\ TTL > 0 => now <= job'[r].stored + TTL
         /\ job'[r].who = "nl2sql" =>
              /\ job'[r].result.by = "llm"
              /\ job'[r].result.query = Query[r]
              /\ job'[r].result.schema = job'[r].schema
<1>. DEFINE e == cache[CacheKey(r)]
<1>1. job[r].at = "lookup" /\ DOMAIN job[r] = JobFields
  BY DEF LookupHit, At, JobKeyed
<1>2. e # NoEntry /\ (e.expires = 0 \/ e.expires >= now)
  BY DEF LookupHit, Hit, Fresh
<1>3. job'[r] = [job[r] EXCEPT !.at = IF job[r].who = "judge" THEN "judged" ELSE "made",
                              !.result = e.value.result, !.via = "cache",
                              !.stored = e.value.at]
  BY Gets DEF LookupHit
<1>4. /\ CacheKey(r) \in Keys /\ CacheKey(r)[1] = job[r].who
      /\ job[r].who = "nl2sql" =>
           CacheKey(r)[2] = Query[r] /\ CacheKey(r)[4] = job[r].schema
  BY <1>1, KeyKnown
<1>5. EntrySound(CacheKey(r), e)
  BY <1>2, <1>4 DEF CacheSound
<1>. HIDE DEF e
<1>6. /\ job'[r].result = e.value.result /\ job'[r].stored = e.value.at
      /\ job'[r].who = job[r].who /\ job'[r].schema = job[r].schema
  BY <1>1, <1>3 DEF JobFields
<1>7. TTL > 0 => now <= job'[r].stored + TTL
  BY <1>2, <1>5, <1>6 DEF EntrySound, Clock, LLMBudgetAssumption
<1>. QED BY <1>4, <1>5, <1>6, <1>7 DEF EntrySound

-----------------------------------------------------------------------------
(* CacheHonest.                                                            *)

\* A step: what it does to the jobs, the tasks and the cache, and who has an
\* answer from the cache.
Honest(r) ==
  job'[r].via = "cache" /\ job[r].via # "cache" =>
    /\ TTL > 0 => now <= job'[r].stored + TTL
    /\ job'[r].who = "nl2sql" =>
         /\ job'[r].result.by = "llm"
         /\ job'[r].result.query = Query[r]
         /\ job'[r].result.schema = job'[r].schema

\* Every step keeps everything keyed, and nobody gets what is not his.
LEMMA KeyedStep ==
  ASSUME KeysAssumption, NL2SQLRequestsAssumption, LLMBudgetAssumption, TaskModesAssumption,
         Keyed, [Next]_pilotVars
  PROVE  Keyed' /\ \A r \in Requests : Honest(r)
<1>1. /\ Shape /\ Clock /\ CacheSound /\ DOMAIN job = Requests
      /\ \A r \in Requests : JobKeyed(r, job[r])
      /\ \A r \in Tasks : r \in Requests /\ TaskKeyed(r)
  BY DEF Keyed, Shape, Tasks
<1>2. Shape'
  BY <1>1, ShapeStep
<1>3. ASSUME UNCHANGED <<job, task>>, Clock', CacheSound'
      PROVE  Keyed' /\ \A r \in Requests : Honest(r)
  BY <1>1, <1>2, <1>3 DEF Keyed, TaskKeyed, Honest, JobKeyed
<1>4. CASE UNCHANGED pilotVars
  BY <1>1, <1>3, <1>4 DEF pilotVars, taskVars, vars, shared, Clock, CacheSound, EntrySound
<1>5. CASE Finished
  BY <1>1, <1>3, <1>5 DEF Finished, pilotVars, taskVars, vars, shared, Clock, CacheSound,
       EntrySound
<1>6. CASE Environment /\ UNCHANGED <<task, pilot, gate>>
  <2>1. Clock'
    BY <1>1, <1>6 DEF Environment, Tick, Clock, shared, NL2SQLRequestsAssumption
  <2>2. UNCHANGED <<cache, job, task>>
    BY <1>6 DEF Environment, shared
  <2>. QED BY <1>1, <1>3, <2>1, <2>2 DEF CacheSound, EntrySound
<1>7. ASSUME NEW q \in Requests, Frame(q), UNCHANGED task, Clock', CacheSound',
             JobKeyed(q, job'[q]), job'[q].at # "next", Honest(q)
      PROVE  Keyed' /\ \A r \in Requests : Honest(r)
  <2>1. ASSUME NEW r \in Requests PROVE JobKeyed(r, job'[r]) /\ Honest(r)
    <3>1. CASE r = q
      BY <1>7, <3>1
    <3>2. CASE r # q
      BY <1>1, <1>7, <3>2 DEF Frame, Honest
    <3>. QED BY <3>1, <3>2
  <2>2. ASSUME NEW r \in Tasks PROVE TaskKeyed(r)'
    <3>1. CASE r = q
      BY <1>1, <1>7, <3>1 DEF TaskKeyed
    <3>2. CASE r # q
      BY <1>1, <1>7, <3>2 DEF Frame, TaskKeyed
    <3>. QED BY <3>1, <3>2
  <2>. QED BY <1>2, <1>7, <2>1, <2>2 DEF Keyed, JobKeyed
<1>8. ASSUME NEW q \in Requests, Unserved(q, job'[q]) PROVE Honest(q)
  BY <1>8 DEF Unserved, Honest
<1>9. ASSUME NEW q \in Requests, UNCHANGED <<now, schema, cache>> PROVE Clock' /\ CacheSound'
  BY <1>1, <1>9 DEF Clock, CacheSound, EntrySound
<1>10. ASSUME NEW q \in Open, PipelineStep(q), UNCHANGED task
       PROVE  Keyed' /\ \A r \in Requests : Honest(r)
  <2>1. q \in Requests /\ JobKeyed(q, job[q]) /\ Frame(q)
    BY <1>1, <1>10, PipelineFrame DEF Open
  <2>2. /\ JobKeyed(q, job'[q]) /\ job'[q].at # "next"
        /\ Unserved(q, job'[q]) \/ LookupHit(q)
    BY <1>1, <1>10, <2>1, PipelineKeyed
  <2>3. LookupHit(q) => Honest(q)
    BY <1>1, <2>1, HitHonest DEF Honest
  <2>4. Clock' /\ CacheSound'
    BY <1>1, <1>10, <2>1, PipelineSound
  <2>. QED BY <1>7, <1>8, <1>10, <2>1, <2>2, <2>3, <2>4
<1>11. ASSUME NEW q \in Open, EndpointStep(q), UNCHANGED task
       PROVE  Keyed' /\ \A r \in Requests : Honest(r)
  <2>1. q \in Requests /\ JobKeyed(q, job[q]) /\ Frame(q)
    BY <1>1, <1>11, EndpointFrame DEF Open
  <2>2. Steps(q, job'[q])
    BY <1>1, <1>11, <2>1, EndpointKeyed
  <2>. QED BY <1>7, <1>8, <1>9, <1>11, <2>1, <2>2, NoCache DEF Steps
<1>12. ASSUME NEW q \in Open, PilotStep(q) \/ ArrivePreflight(q) \/ ArriveCheck(q),
              UNCHANGED task
       PROVE  Keyed' /\ \A r \in Requests : Honest(r)
  <2>1. q \in Requests /\ JobKeyed(q, job[q]) /\ Frame(q)
    BY <1>1, <1>12, PilotFrame DEF Open
  <2>2. Steps(q, job'[q])
    BY <1>1, <1>12, <2>1, PilotKeyed
  <2>. QED BY <1>7, <1>8, <1>9, <1>12, <2>1, <2>2, NoCache DEF Steps
<1>13. ASSUME NEW q \in Tasks, TaskStep(q)
       PROVE  Keyed' /\ \A r \in Requests : Honest(r)
  <2>1. Frame(q) /\ TaskFrame(q)
    BY <1>1, <1>13, TaskStepMeans, RunEndsMeans, RunRaisesMeans DEF RunStep
  <2>2. JobKeyed(q, job'[q]) /\ Unserved(q, job'[q]) /\ TaskKeyed(q)'
    BY <1>1, <1>13, TaskStepKeyed
  <2>3. Clock' /\ CacheSound'
    BY <1>1, <1>9, <1>13, NoCache
  <2>4. ASSUME NEW r \in Requests PROVE JobKeyed(r, job'[r]) /\ Honest(r)
    <3>1. CASE r = q
      BY <1>8, <2>2, <3>1
    <3>2. CASE r # q
      BY <1>1, <2>1, <3>2 DEF Frame, Honest
    <3>. QED BY <3>1, <3>2
  <2>5. ASSUME NEW r \in Tasks PROVE TaskKeyed(r)'
    <3>1. CASE r = q
      BY <2>2, <3>1
    <3>2. CASE r # q
      <4>1. job'[r] = job[r] /\ task'[r] = task[r]
        BY <1>1, <2>1, <3>2 DEF Frame, TaskFrame, Shape
      <4>. QED BY <1>1, <4>1 DEF TaskKeyed
    <3>. QED BY <3>1, <3>2
  <2>. QED BY <1>2, <2>3, <2>4, <2>5 DEF Keyed, JobKeyed
<1>. QED BY <1>4, <1>5, <1>6, <1>10, <1>11, <1>12, <1>13 DEF Next

\* At the beginning nobody has asked, and the cache is empty.
LEMMA InitKeyed ==
  ASSUME NL2SQLRequestsAssumption, Init
  PROVE  Keyed
<1>1. Shape /\ \A r \in Tasks : task[r] = NewTask
  BY InitShape
<1>2. \A r \in Requests : job[r] = NewJob \/ job[r] = [NewJob EXCEPT !.at = "absent"]
  BY DEF Init, InitPilots, InitTasks, InitRequests
<1>3. Clock /\ CacheSound
  BY DEF Init, InitPilots, InitTasks, InitRequests, InitBudget, Clock, CacheSound,
     NL2SQLRequestsAssumption
<1>4. ASSUME NEW r \in Requests PROVE JobKeyed(r, job[r]) /\ job[r].at # "next"
  <2>1. JobKeyed(r, NewJob) /\ JobKeyed(r, [NewJob EXCEPT !.at = "absent"])
    BY DEF JobKeyed, JobFields, NewJob, Asking
  <2>2. NewJob.at # "next" /\ [NewJob EXCEPT !.at = "absent"].at # "next"
    BY DEF NewJob
  <2>. QED BY <1>2, <2>1, <2>2
<1>5. ASSUME NEW r \in Tasks PROVE TaskKeyed(r)
  <2>1. NewTask.todo = <<>> /\ r \in Requests
    BY DEF NewTask, Tasks
  <2>2. task[r].todo = <<>>
    BY <1>1, <2>1
  <2>3. task[r].todo \in Seq(RunModes)
    BY <2>2
  <2>. QED BY <1>4, <2>1, <2>3 DEF TaskKeyed
<1>. QED BY <1>1, <1>3, <1>4, <1>5 DEF Keyed

\* A result that comes from the cache is one the model made for the query and the
\* schema of whoever gets it, and is not older than the entries live.
THEOREM CacheHonestAlways == Spec => CacheHonest
<1>1. Init => Keyed
  BY InitKeyed, NL2SQLRequestsAssumption
<1>2. Keyed /\ [Next]_pilotVars => Keyed'
  BY KeyedStep, KeysAssumption, NL2SQLRequestsAssumption, LLMBudgetAssumption,
     TaskModesAssumption
<1>3. Keyed /\ [Next]_pilotVars =>
        [\A r \in Requests :
           job'[r].via = "cache" /\ job[r].via # "cache" =>
             /\ TTL > 0 => now <= job'[r].stored + TTL
             /\ job'[r].who = "nl2sql" =>
                  /\ job'[r].result.by = "llm"
                  /\ job'[r].result.query = Query[r]
                  /\ job'[r].result.schema = job'[r].schema]_pilotVars
  BY KeyedStep, KeysAssumption, NL2SQLRequestsAssumption, LLMBudgetAssumption,
     TaskModesAssumption DEF Honest
<1>. QED BY <1>1, <1>2, <1>3, PTL DEF Spec, CacheHonest

-----------------------------------------------------------------------------
(* Types: the jobs.                                                        *)

\* A job is one of the jobs; what is put down is an answer.
JobTyped(j) == j \in Jobs /\ (j.at = "record" => j.answer # NoAnswer)

\* A request begins with no result, which is one of the results.
LEMMA NoResultTyped == NoResult \in Results
BY DEF Results

\* What the generator returns is a result.
LEMMA ResultTyped ==
  ASSUME NEW by \in {"llm", "mock", "mock_fallback"}, NEW allowed \in BOOLEAN,
         NEW r \in Requests, NEW s \in 0..MaxSchema
  PROVE  Result(by, allowed, r, s) \in Results
BY DEF Result, Results

\* So is what takes the place of an answer.
LEMMA UnavailableTyped ==
  ASSUME NEW r \in Requests, NEW s \in 0..MaxSchema
  PROVE  Unavailable(r, s) \in Results
<1>1. (Query[r] \in Templated) \in BOOLEAN
  OBVIOUS
<1>. QED BY <1>1, ResultTyped DEF Unavailable, Mock

\* A new job, and one that has just ended.
LEMMA NewJobTyped ==
  ASSUME NL2SQLRequestsAssumption, LLMBudgetAssumption
  PROVE  NewJob \in Jobs /\ \A p \in Points \ {"record"} : JobTyped([NewJob EXCEPT !.at = p])
<1>1. /\ 0 \in 0..MaxSchema /\ 0 \in 0..MaxRetries /\ 0 \in 0..MaxTime
      /\ NoAnswer \in Answers /\ NoResult \in Results
  BY NoResultTyped DEF NL2SQLRequestsAssumption, LLMBudgetAssumption, Answers
<1>2. "new" \in Points /\ "nl2sql" \in Callers
  BY DEF Points, Callers
<1>3. NewJob \in Jobs
  BY <1>1, <1>2 DEF NewJob, Jobs
<1>4. ASSUME NEW p \in Points \ {"record"}
      PROVE  [NewJob EXCEPT !.at = p] \in Jobs /\ [NewJob EXCEPT !.at = p].at # "record"
  BY <1>3, <1>4 DEF Jobs
<1>. QED BY <1>3, <1>4 DEF JobTyped

\* Going on, and what a job may be given on the way.
LEMMA Moves ==
  ASSUME NEW j \in Jobs
  PROVE  /\ \A p \in Points \ {"record"} : JobTyped([j EXCEPT !.at = p])
         /\ \A p \in Points \ {"record"}, s \in 0..MaxSchema :
              JobTyped([j EXCEPT !.at = p, !.schema = s])
         /\ \A p \in Points \ {"record"}, s \in 0..MaxSchema, result \in Results :
              JobTyped([j EXCEPT !.at = p, !.schema = s, !.result = result])
         /\ \A p \in Points \ {"record"}, result \in Results :
              JobTyped([j EXCEPT !.at = p, !.result = result])
         /\ \A p \in Points \ {"record"}, who \in Callers :
              JobTyped([j EXCEPT !.who = who, !.at = p])
<1>1. ASSUME NEW p \in Points \ {"record"} PROVE JobTyped([j EXCEPT !.at = p])
  BY DEF JobTyped, Jobs
<1>2. ASSUME NEW p \in Points \ {"record"}, NEW s \in 0..MaxSchema
      PROVE  JobTyped([j EXCEPT !.at = p, !.schema = s])
  BY DEF JobTyped, Jobs
<1>3. ASSUME NEW p \in Points \ {"record"}, NEW s \in 0..MaxSchema, NEW result \in Results
      PROVE  JobTyped([j EXCEPT !.at = p, !.schema = s, !.result = result])
  BY DEF JobTyped, Jobs
<1>4. ASSUME NEW p \in Points \ {"record"}, NEW result \in Results
      PROVE  JobTyped([j EXCEPT !.at = p, !.result = result])
  BY DEF JobTyped, Jobs
<1>5. ASSUME NEW p \in Points \ {"record"}, NEW who \in Callers
      PROVE  JobTyped([j EXCEPT !.who = who, !.at = p])
  BY DEF JobTyped, Jobs
<1>. QED BY <1>1, <1>2, <1>3, <1>4, <1>5

\* Whoever calls the model anew.
LEMMA CallingTyped ==
  ASSUME NL2SQLRequestsAssumption, NEW r, JobTyped(job[r]), NEW who \in Callers
  PROVE  JobTyped(Calling(r, who))
<1>1. 0 \in 0..MaxRetries /\ NoAnswer \in Answers /\ "call" \in Points
  BY DEF NL2SQLRequestsAssumption, Answers, Points
<1>. QED BY <1>1 DEF Calling, JobTyped, Jobs

\* Whoever goes on without it.
LEMMA WithoutTyped ==
  ASSUME NEW r \in Requests, JobTyped(job[r])
  PROVE  JobTyped(Without(r)) /\ JobTyped(Failed(r))
<1>. DEFINE u == Unavailable(r, job[r].schema)
            k == [job[r] EXCEPT !.at = "made", !.result = u]
<1>1. job[r] \in Jobs /\ job[r].schema \in 0..MaxSchema
  BY DEF JobTyped, Jobs
<1>2. u \in Results
  BY <1>1, UnavailableTyped
<1>3. {"made", "judged", "answered", "store"} \subseteq Points \ {"record"}
  BY DEF Points
<1>. HIDE DEF u
<1>4. JobTyped(k) /\ k \in Jobs
  BY <1>1, <1>2, <1>3, Moves DEF JobTyped
<1>5. JobTyped([k EXCEPT !.at = "store"])
  BY <1>3, <1>4, Moves
<1>6. /\ JobTyped([job[r] EXCEPT !.at = "judged"])
      /\ JobTyped([job[r] EXCEPT !.at = "answered"])
  BY <1>1, <1>3, Moves
<1>7. /\ Without(r) \in {k, [job[r] EXCEPT !.at = "judged"], [job[r] EXCEPT !.at = "answered"]}
      /\ Failed(r) \in {Without(r), [k EXCEPT !.at = "store"]}
  BY DEF Without, Failed, JudgeUnavailable, u
<1>. HIDE DEF k
<1>. QED BY <1>4, <1>5, <1>6, <1>7

-----------------------------------------------------------------------------
(* Types: the pipeline.                                                    *)

CacheTyped ==
  \A k \in DOMAIN cache : cache[k] # NoEntry =>
    cache[k].value \in Values /\ cache[k].expires \in 0..(MaxTime + TTL)
LedgerTyped ==
  /\ spent \in [Scopes -> Nat]
  /\ told \in [Callers -> Nat] /\ lost \in [Accounts -> Nat] /\ recorded \in [Callers -> Nat]

\* An answer is usable or not, and costs what an answer may cost, told or not.
LEMMA AnswersAre ==
  ASSUME NEW r,
         FakeAnswers(r) \/ LiteLLMAnswers(r) \/ OpenAIAnswers(r) \/ CompatibleAnswers(r)
  PROVE  \E usable \in BOOLEAN, cost \in Costs \cup {0}, loses \in Costs \cup {0} :
           Answered(r, usable, cost, loses)
<1>1. Usefulness \subseteq BOOLEAN
  BY DEF Usefulness, Usable
<1>2. CASE FakeAnswers(r)
  BY <1>2 DEF FakeAnswers
<1>3. CASE OpenAIAnswers(r) \/ CompatibleAnswers(r)
  <2>1. \E loses \in Costs, usable \in Usefulness : Answered(r, usable, 0, loses)
    BY <1>3 DEF OpenAIAnswers, CompatibleAnswers, UnpricedAnswer, AnyAnswer
  <2>. QED BY <1>1, <2>1
<1>4. CASE LiteLLMAnswers(r)
  <2>1. \E cost \in Costs, usable \in Usefulness :
          Answered(r, usable, cost, 0) \/ Answered(r, usable, 0, cost)
    BY <1>4 DEF LiteLLMAnswers, AnyAnswer
  <2>. QED BY <1>1, <2>1
<1>. QED BY <1>2, <1>3, <1>4

\* An answer of the model.
LEMMA AnsweredTyped ==
  ASSUME NL2SQLRequestsAssumption, DOMAIN job = Requests, NEW r \in Requests,
         JobTyped(job[r]), NEW usable \in BOOLEAN, NEW cost \in Costs \cup {0},
         NEW loses, Answered(r, usable, cost, loses)
  PROVE  JobTyped(job'[r])
<1>. DEFINE at == NextOfAnswer(r, usable)
            answer == [usable |-> usable, cost |-> cost]
            result == IF job[r].who # "nl2sql" THEN job[r].result
                      ELSE IF usable THEN Result("llm", TRUE, r, job[r].schema)
                      ELSE Unavailable(r, job[r].schema)
            j == [job[r] EXCEPT !.at = at, !.answer = answer, !.via = "provider",
                                !.result = result]
<1>1. job[r] \in Jobs /\ job[r].schema \in 0..MaxSchema /\ job[r].who \in Callers
      /\ job[r].result \in Results
  BY DEF JobTyped, Jobs
<1>2. job'[r] = j
  <2>1. Update(r, j)
    BY DEF Answered
  <2>. HIDE DEF j
  <2>. QED BY <2>1, Gets
<1>3. at \in Points
  BY DEF NextOfAnswer, Points
<1>4. answer \in Answers /\ answer # NoAnswer
  <2>1. cost \in Nat
    BY DEF NL2SQLRequestsAssumption
  <2>2. answer \in [usable : BOOLEAN, cost : Nat]
    BY <2>1
  <2>3. answer \in [usable : BOOLEAN, cost : Costs \cup {0}]
    OBVIOUS
  <2>. QED BY <2>2, <2>3 DEF NL2SQLRequestsAssumption, Answers
<1>5. result \in Results
  BY <1>1, ResultTyped, UnavailableTyped
<1>. HIDE DEF at, answer, result
<1>6. j \in Jobs /\ j.answer = answer
  BY <1>1, <1>3, <1>4, <1>5 DEF Jobs
<1>. HIDE DEF j
<1>. QED BY <1>2, <1>4, <1>6 DEF JobTyped

\* What is not told is lost to its caller.
LEMMA UntoldTyped ==
  ASSUME NL2SQLRequestsAssumption, LedgerTyped, NEW r, NEW loses \in Costs \cup {0},
         Untold(r, loses)
  PROVE  lost' \in [Accounts -> Nat]
<1>1. loses \in Nat /\ lost \in [Accounts -> Nat]
  BY DEF NL2SQLRequestsAssumption, LedgerTyped
<1>2. \A w \in Accounts : lost[w] + loses \in Nat /\ lost[w] \in Nat
  BY <1>1
<1>. QED BY <1>2 DEF Untold

\* What an answer costs is charged to its caller, told or not.
LEMMA AnsweredCharges ==
  ASSUME NL2SQLRequestsAssumption, LedgerTyped, NEW r, JobTyped(job[r]),
         NEW usable, NEW cost \in Costs \cup {0}, NEW loses \in Costs \cup {0},
         Answered(r, usable, cost, loses)
  PROVE  told' \in [Callers -> Nat] /\ lost' \in [Accounts -> Nat]
<1>1. cost \in Nat /\ told \in [Callers -> Nat]
  BY DEF NL2SQLRequestsAssumption, LedgerTyped
<1>2. told' = [told EXCEPT ![job[r].who] = @ + cost] /\ Untold(r, loses)
  BY DEF Answered, Charge
<1>3. job[r].who \in Callers
  BY DEF JobTyped, Jobs
<1>. QED BY <1>1, <1>2, <1>3, UntoldTyped

\* A failed attempt costs what is not told, and nothing else.
LEMMA ErredCharges ==
  ASSUME NL2SQLRequestsAssumption, LedgerTyped, NEW r,
         LiteLLMErrs(r) \/ OpenAIErrs(r) \/ CompatibleErrs(r)
  PROVE  UNCHANGED <<spent, told, recorded>> /\ lost' \in [Accounts -> Nat]
<1>1. UNCHANGED <<spent, recorded>> /\ \E e : Wasted(r, e)
  BY DEF LiteLLMErrs, OpenAIErrs, CompatibleErrs, shared
<1>2. UNCHANGED told /\ \E loses \in Costs \cup {0} : Untold(r, loses)
  BY <1>1 DEF Wasted
<1>. QED BY <1>1, <1>2, UntoldTyped

\* A failed attempt is not one too many.
LEMMA ErredTyped ==
  ASSUME NL2SQLRequestsAssumption, DOMAIN job = Requests, NEW r \in Requests,
         JobTyped(job[r]), job[r].at # "record", NEW e, Erred(r, e)
  PROVE  JobTyped(job'[r])
<1>1. CASE Retries(r, e)
  <2>1. job'[r] = [job[r] EXCEPT !.attempt = @ + 1]
    BY <1>1, Gets DEF Erred
  <2>2. job[r] \in Jobs /\ job[r].attempt \in 0..MaxRetries
    BY DEF JobTyped, Jobs
  <2>3. Attempts(r) <= MaxRetries /\ MaxRetries \in Nat /\ Attempts(r) \in Nat
    BY DEF Attempts, NL2SQLRequestsAssumption
  <2>4. job[r].attempt + 1 \in 0..MaxRetries
    BY <1>1, <2>2, <2>3 DEF Retries
  <2>. QED BY <2>1, <2>2, <2>4 DEF JobTyped, Jobs
<1>2. CASE ~Retries(r, e)
  BY <1>2, Gets, WithoutTyped DEF Erred
<1>. QED BY <1>1, <1>2

\* What comes out of the cache is what was put into it.
LEMMA HitTyped ==
  ASSUME DOMAIN job = Requests, NEW r \in Requests, JobTyped(job[r]), CacheTyped,
         CacheKey(r) \in DOMAIN cache, LookupHit(r)
  PROVE  JobTyped(job'[r])
<1>. DEFINE kept == cache[CacheKey(r)].value
            at == IF job[r].who = "judge" THEN "judged" ELSE "made"
<1>1. job'[r] = [job[r] EXCEPT !.at = at, !.result = kept.result, !.via = "cache",
                               !.stored = kept.at]
  BY Gets DEF LookupHit
<1>2. kept \in Values
  BY DEF LookupHit, Hit, Fresh, CacheTyped
<1>3. kept.result \in Results /\ kept.at \in 0..MaxTime
  BY <1>2 DEF Values
<1>4. at \in Points /\ at # "record"
  BY DEF Points
<1>5. job[r] \in Jobs
  BY DEF JobTyped
<1>. HIDE DEF kept, at
<1>. DEFINE j == [job[r] EXCEPT !.at = at, !.result = kept.result, !.via = "cache",
                                !.stored = kept.at]
<1>6. j \in Jobs /\ j.at = at
  <2>. DEFINE result == kept.result
              stored == kept.at
  <2>1. result \in Results /\ stored \in 0..MaxTime
    BY <1>3
  <2>. HIDE DEF result, stored
  <2>2. /\ [job[r] EXCEPT !.at = at, !.result = result, !.via = "cache", !.stored = stored] \in Jobs
        /\ [job[r] EXCEPT !.at = at, !.result = result, !.via = "cache", !.stored = stored].at = at
    BY <1>4, <1>5, <2>1 DEF Jobs
  <2>. QED BY <2>2 DEF result, stored
<1>7. job'[r] \in Jobs /\ job'[r].at = at
  <2>1. job'[r] = j
    BY <1>1
  <2>. HIDE DEF j
  <2>. QED BY <1>6, <2>1
<1>. QED BY <1>4, <1>7 DEF JobTyped

\* A step of the pipeline makes a job of a job.
LEMMA PipelineTyped ==
  ASSUME NL2SQLRequestsAssumption, DOMAIN job = Requests, NEW r \in Requests,
         JobTyped(job[r]), CacheTyped, LedgerTyped, schema \in 0..MaxSchema,
         At(r, "lookup") => CacheKey(r) \in DOMAIN cache, PipelineStep(r)
  PROVE  JobTyped(job'[r])
<1>0. job[r] \in Jobs
  BY DEF JobTyped
<1>1. {"made", "check", "raised", "lookup", "call", "compatible", "store", "judged"}
        \subseteq Points \ {"record"}
  BY DEF Points
<1>9. \A p \in {"made", "raised", "lookup", "call", "compatible", "store", "judged"} :
        JobTyped([job[r] EXCEPT !.at = p])
  BY <1>0, <1>1, Moves
<1>2. CASE Generate(r)
  <2>. DEFINE made(result) ==
                [job[r] EXCEPT !.at = "made", !.schema = schema, !.result = result]
              check == [job[r] EXCEPT !.at = "check", !.schema = schema]
              mock == Mock("mock", r, schema)
              none == Result("llm", FALSE, r, schema)
              other == Unavailable(r, schema)
  <2>1. \/ Update(r, made(mock)) \/ Update(r, made(none)) \/ Update(r, made(other))
        \/ Update(r, check)
    BY <1>2 DEF Generate
  <2>2. mock \in Results /\ none \in Results /\ other \in Results
    <3>1. (Query[r] \in Templated) \in BOOLEAN
      OBVIOUS
    <3>. QED BY <3>1, ResultTyped, UnavailableTyped DEF Mock
  <2>. HIDE DEF mock, none, other
  <2>3. JobTyped(made(mock)) /\ JobTyped(made(none)) /\ JobTyped(made(other)) /\ JobTyped(check)
    BY <1>0, <1>1, <2>2, Moves
  <2>. HIDE DEF made, check
  <2>. QED BY <2>1, <2>3, Gets
<1>3. CASE GenerateRaises(r)
  <2>1. job'[r] = [job[r] EXCEPT !.at = "raised"]
    BY <1>3, Gets DEF GenerateRaises
  <2>2. JobTyped([job[r] EXCEPT !.at = "raised"])
    BY <1>9
  <2>. QED BY <2>1, <2>2, Zenon
<1>4. CASE Check(r) \/ LookupMiss(r)
  <2>1. \/ job'[r] = Without(r)
        \/ \E p \in {"lookup", "call"} : job'[r] = [job[r] EXCEPT !.at = p]
    BY <1>4, Gets DEF Check, LookupMiss
  <2>2. JobTyped(Without(r))
    BY WithoutTyped
  <2>3. \A p \in {"lookup", "call"} : JobTyped([job[r] EXCEPT !.at = p])
    BY <1>9
  <2>. QED BY <2>1, <2>2, <2>3, Zenon
<1>5. CASE LookupHit(r)
  BY <1>5, HitTyped DEF LookupHit
<1>6. CASE FakeAnswers(r) \/ LiteLLMAnswers(r) \/ OpenAIAnswers(r) \/ CompatibleAnswers(r)
  <2>1. PICK usable \in BOOLEAN, cost \in Costs \cup {0}, loses \in Costs \cup {0} :
          Answered(r, usable, cost, loses)
    BY <1>6, AnswersAre
  <2>. QED BY <2>1, AnsweredTyped, Zenon
<1>7. CASE LiteLLMErrs(r) \/ OpenAIErrs(r) \/ CompatibleErrs(r)
  <2>1. \/ \E e : Erred(r, e)
        \/ job'[r] = Failed(r)
        \/ job'[r] = [job[r] EXCEPT !.at = "compatible"]
    BY <1>7, Gets DEF LiteLLMErrs, OpenAIErrs, CompatibleErrs
  <2>2. job[r].at # "record"
    BY <1>7 DEF LiteLLMErrs, OpenAIErrs, CompatibleErrs, At
  <2>3. (\E e : Erred(r, e)) => JobTyped(job'[r])
    BY <2>2, ErredTyped
  <2>4. JobTyped(Failed(r)) /\ JobTyped([job[r] EXCEPT !.at = "compatible"])
    BY <1>9, WithoutTyped
  <2>. QED BY <2>1, <2>3, <2>4, Zenon
<1>8. CASE Record(r) \/ Store(r)
  <2>1. \E p \in {"store", "judged", "made"} : job'[r] = [job[r] EXCEPT !.at = p]
    BY <1>8, Gets DEF Record, Store
  <2>2. \A p \in {"store", "judged", "made"} : JobTyped([job[r] EXCEPT !.at = p])
    BY <1>9
  <2>. QED BY <2>1, <2>2, Zenon
<1>. QED BY <1>2, <1>3, <1>4, <1>5, <1>6, <1>7, <1>8 DEF PipelineStep

\* The accounts stay numbers.
LEMMA PipelineLedger ==
  ASSUME NL2SQLRequestsAssumption, DOMAIN job = Requests, NEW r \in Requests,
         JobTyped(job[r]), LedgerTyped, PipelineStep(r)
  PROVE  LedgerTyped'
<1>1. CASE UNCHANGED <<spent, told, lost, recorded>>
  BY <1>1 DEF LedgerTyped
<1>2. CASE FakeAnswers(r) \/ LiteLLMAnswers(r) \/ OpenAIAnswers(r) \/ CompatibleAnswers(r)
  <2>2. \E usable \in BOOLEAN, cost \in Costs \cup {0}, loses \in Costs \cup {0} :
          Answered(r, usable, cost, loses)
    BY <1>2, AnswersAre
  <2>3. UNCHANGED <<spent, recorded>>
    BY <1>2 DEF FakeAnswers, LiteLLMAnswers, OpenAIAnswers, CompatibleAnswers, shared
  <2>4. told' \in [Callers -> Nat] /\ lost' \in [Accounts -> Nat]
    BY <2>2, AnsweredCharges
  <2>. QED BY <2>3, <2>4 DEF LedgerTyped
<1>3. CASE Record(r)
  <2>. DEFINE cost == job[r].answer.cost
              who == job[r].who
              scope == ScopeOf(now)
  <2>1. cost \in Nat
    <3>1. job[r].answer \in [usable : BOOLEAN, cost : Costs \cup {0}]
      BY <1>3 DEF Record, At, JobTyped, Jobs, Answers
    <3>2. cost \in Costs \cup {0} /\ Costs \subseteq Nat
      BY <3>1 DEF NL2SQLRequestsAssumption
    <3>. HIDE DEF cost
    <3>. QED BY <3>2
  <2>2. /\ spent' = spent \/ spent' = [spent EXCEPT ![scope] = @ + cost]
        /\ recorded' = recorded \/ recorded' = [recorded EXCEPT ![who] = @ + cost]
        /\ UNCHANGED <<told, lost>>
    BY <1>3 DEF Record, RecordUsage
  <2>. HIDE DEF cost, who, scope
  <2>3. ASSUME NEW S, NEW f \in [S -> Nat], NEW g, NEW x, g = [f EXCEPT ![x] = @ + cost]
        PROVE  g \in [S -> Nat]
    <3>1. g = [s \in S |-> IF s = x THEN f[s] + cost ELSE f[s]]
      BY <2>3
    <3>2. \A s \in S : f[s] + cost \in Nat /\ f[s] \in Nat
      BY <2>1
    <3>. QED BY <3>1, <3>2
  <2>4. spent' \in [Scopes -> Nat] /\ recorded' \in [Callers -> Nat]
    BY <2>2, <2>3 DEF LedgerTyped
  <2>. QED BY <2>2, <2>4 DEF LedgerTyped
<1>4. CASE Generate(r) \/ GenerateRaises(r) \/ Check(r)
  BY <1>1, <1>4 DEF Generate, GenerateRaises, Check, shared
<1>5. CASE LookupHit(r) \/ LookupMiss(r) \/ Store(r)
  BY <1>1, <1>5 DEF LookupHit, LookupMiss, Store
<1>6. CASE LiteLLMErrs(r) \/ OpenAIErrs(r) \/ CompatibleErrs(r)
  BY <1>6, ErredCharges DEF LedgerTyped
<1>. QED BY <1>2, <1>3, <1>4, <1>5, <1>6 DEF PipelineStep

\* What is kept is a result, and the instant it is kept at.
LEMMA PipelineCacheTyped ==
  ASSUME LLMBudgetAssumption, NEW r \in Requests, JobTyped(job[r]), CacheTyped,
         now \in 0..MaxTime, PipelineStep(r)
  PROVE  CacheTyped'
<1>. DEFINE value == [result |-> job[r].result, at |-> now]
            expires == IF TTL = 0 THEN 0 ELSE now + TTL
            key == CacheKey(r)
<1>1. value \in Values /\ expires \in 0..(MaxTime + TTL)
  BY DEF JobTyped, Jobs, Values, LLMBudgetAssumption
<1>2. \/ cache' = cache \/ cache' = [cache EXCEPT ![key] = NoEntry]
      \/ cache' = [cache EXCEPT ![key] = Entry(value, expires)]
  BY PipelineCache DEF Keep
<1>3. Entry(value, expires).value = value /\ Entry(value, expires).expires = expires
  BY DEF Entry
<1>. HIDE DEF value, expires, key
<1>4. ASSUME NEW k \in DOMAIN cache', cache'[k] # NoEntry
      PROVE  cache'[k].value \in Values /\ cache'[k].expires \in 0..(MaxTime + TTL)
  <2>1. k \in DOMAIN cache /\ (cache'[k] = cache[k] \/ cache'[k] = NoEntry
                               \/ cache'[k] = Entry(value, expires))
    BY <1>2, <1>4
  <2>. QED BY <1>1, <1>3, <1>4, <2>1 DEF CacheTyped
<1>. QED BY <1>4 DEF CacheTyped

-----------------------------------------------------------------------------
(* Types: the endpoints and the pilots.                                    *)

\* A job that begins anew with a case.
LEMMA CaseTyped ==
  ASSUME NL2SQLRequestsAssumption, LLMBudgetAssumption, NEW who \in Callers, NEW n \in Nat,
         NEW p \in Points \ {"record"}
  PROVE  JobTyped([NewJob EXCEPT !.who = who, !.case = n, !.at = p])
<1>1. NewJob \in Jobs
  BY NewJobTyped
<1>2. ASSUME NEW j \in Jobs PROVE JobTyped([j EXCEPT !.who = who, !.case = n, !.at = p])
  BY DEF JobTyped, Jobs
<1>. QED BY <1>1, <1>2

\* A step of an endpoint makes a job of a job.
LEMMA EndpointTyped ==
  ASSUME NL2SQLRequestsAssumption, LLMBudgetAssumption, DOMAIN job = Requests,
         NEW r \in Requests, JobTyped(job[r]), EndpointStep(r)
  PROVE  JobTyped(job'[r])
<1>0. job[r] \in Jobs /\ job[r].case + 1 \in Nat /\ {"judge", "eval"} \subseteq Callers
  BY DEF JobTyped, Jobs, Callers
<1>1. {"made", "generate", "opened", "raised", "evaluate", "done", "gone", "judged", "check",
       "call"} \subseteq Points \ {"record"}
  BY DEF Points
<1>2. \A p \in {"made", "generate", "opened", "raised", "evaluate"} :
        JobTyped([job[r] EXCEPT !.at = p])
  BY <1>0, <1>1, Moves
<1>3. CASE Arrive(r) \/ OpenStream(r) \/ AdvanceStream(r) \/ EvalRaises(r) \/ CaseEvaluated(r)
  <2>1. \E p \in {"made", "generate", "opened", "raised", "evaluate"} :
          job'[r] = [job[r] EXCEPT !.at = p]
    BY <1>3, Gets DEF Arrive, OpenStream, AdvanceStream, EvalRaises, CaseEvaluated, Blocked
  <2>. QED BY <1>2, <2>1, Zenon
<1>4. CASE Reply(r) \/ FinishStream(r) \/ Disconnect(r)
  <2>1. \E p \in {"done", "gone"} : job'[r] = [NewJob EXCEPT !.at = p]
    BY <1>4, Gets DEF Reply, FinishStream, Disconnect
  <2>2. \A p \in {"done", "gone"} : JobTyped([NewJob EXCEPT !.at = p])
    BY <1>1, NewJobTyped
  <2>. QED BY <2>1, <2>2, Zenon
<1>5. CASE ArriveBadCases(r) \/ NextBadCase(r)
  <2>. DEFINE p == IF FakeJudges(r) THEN "judged" ELSE "check"
              n == job[r].case + 1
  <2>1. job'[r] = [NewJob EXCEPT !.who = "judge", !.case = n, !.at = p]
    BY <1>5, Gets DEF ArriveBadCases, NextBadCase, JudgeCase
  <2>2. p \in Points \ {"record"} /\ n \in Nat
    BY <1>0, <1>1
  <2>. HIDE DEF p, n
  <2>3. JobTyped([NewJob EXCEPT !.who = "judge", !.case = n, !.at = p])
    BY <1>0, <2>2, CaseTyped
  <2>. QED BY <2>1, <2>3, Zenon
<1>6. CASE EvaluateCase(r)
  <2>. DEFINE n == job[r].case + 1
              p == IF Makes(Provider[r]) /\ Cases[r][n] = "normal" THEN "call" ELSE "evaluate"
  <2>1. job'[r] = [NewJob EXCEPT !.who = "eval", !.case = n, !.at = p]
    BY <1>6, Gets DEF EvaluateCase
  <2>2. p \in Points \ {"record"} /\ n \in Nat
    BY <1>0, <1>1
  <2>. HIDE DEF p, n
  <2>3. JobTyped([NewJob EXCEPT !.who = "eval", !.case = n, !.at = p])
    BY <1>0, <2>2, CaseTyped
  <2>. QED BY <2>1, <2>3, Zenon
<1>7. CASE ArriveEval(r)
  <2>. DEFINE p == IF Generator(r) THEN "evaluate" ELSE "made"
  <2>1. job'[r] = [job[r] EXCEPT !.who = "eval", !.at = p]
    BY <1>7, Gets DEF ArriveEval
  <2>2. p \in Points \ {"record"}
    BY <1>1
  <2>. HIDE DEF p
  <2>3. JobTyped([job[r] EXCEPT !.who = "eval", !.at = p])
    BY <1>0, <2>2, Moves
  <2>. QED BY <2>1, <2>3, Zenon
<1>8. CASE ExplainFailure(r)
  <2>1. job'[r] = [job[r] EXCEPT !.at = "call", !.attempt = 0, !.again = TRUE]
    BY <1>8, Gets DEF ExplainFailure
  <2>2. 0 \in 0..MaxRetries /\ "call" \in Points
    BY <1>1 DEF NL2SQLRequestsAssumption
  <2>3. job'[r] \in Jobs /\ job'[r].at = "call"
    <3>. DEFINE k == [job[r] EXCEPT !.at = "call", !.attempt = 0]
    <3>1. k \in Jobs /\ k.at = "call" /\ job'[r] = [k EXCEPT !.again = TRUE]
      BY <1>0, <2>1, <2>2 DEF Jobs
    <3>. HIDE DEF k
    <3>2. [k EXCEPT !.again = TRUE] \in Jobs /\ [k EXCEPT !.again = TRUE].at = "call"
      BY <3>1 DEF Jobs
    <3>. QED BY <3>1, <3>2, Zenon
  <2>. QED BY <2>3 DEF JobTyped
<1>. QED BY <1>3, <1>4, <1>5, <1>6, <1>7, <1>8 DEF EndpointStep

\* A pilot and its records.
PilotTyped == pilot \in [Pilots -> PilotStates]

\* A step of a pilot, a preflight or a check makes a job of a job.
LEMMA PilotJobTyped ==
  ASSUME NL2SQLRequestsAssumption, LLMBudgetAssumption, DOMAIN job = Requests,
         NEW r \in Requests, JobTyped(job[r]), schema \in 0..MaxSchema,
         PilotStep(r) \/ ArrivePreflight(r) \/ ArriveCheck(r)
  PROVE  JobTyped(job'[r])
<1>0. job[r] \in Jobs /\ {"probe", "pilot", "preflight"} \subseteq Callers
  BY DEF JobTyped, Callers
<1>1. {"load", "case", "json", "markdown", "done", "answered"} \subseteq Points \ {"record"}
  BY DEF Points
<1>2. JobTyped([NewJob EXCEPT !.at = "done"])
  BY <1>1, NewJobTyped
<1>3. \A p \in {"load", "case", "json", "markdown"} : JobTyped([job[r] EXCEPT !.at = p])
  BY <1>0, <1>1, Moves
<1>4. \A who \in {"probe", "pilot", "preflight"} : JobTyped(Calling(r, who))
  BY <1>0, CallingTyped
<1>5. JobTyped([job[r] EXCEPT !.at = "case", !.schema = schema])
  BY <1>0, <1>1, Moves
<1>6. JobTyped([job[r] EXCEPT !.who = "preflight", !.at = "answered"])
  BY <1>0, <1>1, Moves
<1>7. \/ job'[r] = [NewJob EXCEPT !.at = "done"]
      \/ \E p \in {"load", "case", "json", "markdown"} : job'[r] = [job[r] EXCEPT !.at = p]
      \/ \E who \in {"probe", "pilot", "preflight"} : job'[r] = Calling(r, who)
      \/ job'[r] = [job[r] EXCEPT !.at = "case", !.schema = schema]
      \/ job'[r] = [job[r] EXCEPT !.who = "preflight", !.at = "answered"]
  <2>1. CASE StartPilot(r)
    BY <2>1, Gets DEF StartPilot, Exit
  <2>2. CASE ProbeEnds(r) \/ Load(r)
    BY <2>2, Gets DEF ProbeEnds, Load, Exit
  <2>3. CASE DangerousCase(r) \/ CaseEnds(r)
    <3>1. Goto(r, "case")
      BY <2>3 DEF DangerousCase, CaseEnds, Put
    <3>. QED BY <3>1, Gets
  <2>7. CASE NormalCase(r)
    BY <2>7, Gets DEF NormalCase, AskModel
  <2>4. CASE Evaluated(r) \/ WriteJson(r) \/ WriteMarkdown(r)
    BY <2>4, Gets DEF Evaluated, WriteJson, WriteMarkdown, Writes, Exit
  <2>5. CASE ArrivePreflight(r)
    BY <2>5, Gets DEF ArrivePreflight
  <2>6. CASE ArriveCheck(r)
    BY <2>6, Gets DEF ArriveCheck
  <2>. QED BY <2>1, <2>2, <2>3, <2>4, <2>5, <2>6, <2>7 DEF PilotStep
<1>. QED BY <1>2, <1>3, <1>4, <1>5, <1>6, <1>7, Zenon

Records == [called : BOOLEAN, fallback : BOOLEAN, passed : BOOLEAN, cost : Costs \cup {0}]
Exits == {"none", "ok", "refused", "failed", "raised"}

\* What a pilot may be given.
LEMMA PilotGets ==
  ASSUME PilotTyped, NEW r \in Pilots
  PROVE  /\ \A code \in Exits : [pilot EXCEPT ![r].exit = code] \in [Pilots -> PilotStates]
         /\ \A c \in Records :
              [pilot EXCEPT ![r].records = Append(@, c)] \in [Pilots -> PilotStates]
         /\ \A file \in {"json", "markdown"}, code \in Exits :
              [pilot EXCEPT ![r].files = @ \cup {file}, ![r].exit = code]
                \in [Pilots -> PilotStates]
<1>. DEFINE p == pilot[r]
<1>1. p \in PilotStates /\ p.records \in Seq(Records) /\ p.files \in SUBSET {"json", "markdown"}
  BY DEF PilotTyped, PilotStates, Records
<1>2. ASSUME NEW q \in PilotStates, NEW pilots, pilots = [pilot EXCEPT ![r] = q]
      PROVE  pilots \in [Pilots -> PilotStates]
  BY <1>2 DEF PilotTyped
<1>3. ASSUME NEW code \in Exits
      PROVE  [pilot EXCEPT ![r].exit = code] \in [Pilots -> PilotStates]
  <2>1. [p EXCEPT !.exit = code] \in PilotStates
    BY <1>1, <1>3 DEF PilotStates, Exits
  <2>. QED BY <1>2, <2>1
<1>4. ASSUME NEW c \in Records
      PROVE  [pilot EXCEPT ![r].records = Append(@, c)] \in [Pilots -> PilotStates]
  <2>. DEFINE more == Append(p.records, c)
  <2>1. more \in Seq(Records)
    BY <1>1, <1>4
  <2>. HIDE DEF more
  <2>2. [p EXCEPT !.records = more] \in PilotStates
    BY <1>1, <2>1 DEF PilotStates, Records
  <2>. QED BY <1>2, <2>2 DEF more
<1>5. ASSUME NEW file \in {"json", "markdown"}, NEW code \in Exits
      PROVE  [pilot EXCEPT ![r].files = @ \cup {file}, ![r].exit = code] \in [Pilots -> PilotStates]
  <2>. DEFINE files == p.files \cup {file}
  <2>1. files \in SUBSET {"json", "markdown"}
    BY <1>1, <1>5
  <2>. HIDE DEF files
  <2>2. [p EXCEPT !.files = files, !.exit = code] \in PilotStates
    BY <1>1, <1>5, <2>1 DEF PilotStates, Exits
  <2>. DEFINE pilots == [pilot EXCEPT ![r].files = @ \cup {file}, ![r].exit = code]
  <2>3. pilots = [pilot EXCEPT ![r] = [p EXCEPT !.files = files, !.exit = code]]
    BY DEF files, PilotTyped
  <2>. HIDE DEF pilots, p
  <2>4. pilots \in [Pilots -> PilotStates]
    BY <1>2, <2>2, <2>3
  <2>. QED BY <2>4 DEF pilots
<1>. QED BY <1>3, <1>4, <1>5

\* A step of a pilot keeps the pilots what they are.
LEMMA PilotStepTyped ==
  ASSUME NEW r \in Pilots, JobTyped(job[r]), PilotTyped, PilotStep(r)
  PROVE  PilotTyped'
<1>1. pilot[r].exit \in Exits
  BY DEF PilotTyped, PilotStates, Exits
<1>2. CASE UNCHANGED pilot
  BY <1>2 DEF PilotTyped
<1>3. ASSUME NEW code \in Exits, pilot' = [pilot EXCEPT ![r].exit = code] PROVE PilotTyped'
  BY <1>3, PilotGets DEF PilotTyped
<1>4. ASSUME NEW c \in Records, Put(r, c) PROVE PilotTyped'
  BY <1>4, PilotGets DEF Put, PilotTyped
<1>5. CASE StartPilot(r) \/ ProbeEnds(r) \/ Load(r)
  BY <1>2, <1>3, <1>5 DEF StartPilot, ProbeEnds, Load, Exit, Exits
<1>6. CASE DangerousCase(r)
  <2>1. PICK passed \in BOOLEAN : Put(r, Case(FALSE, FALSE, passed, 0))
    BY <1>6 DEF DangerousCase
  <2>2. Case(FALSE, FALSE, passed, 0) \in Records
    BY DEF Case, Records
  <2>. QED BY <1>4, <2>1, <2>2
<1>7. CASE CaseEnds(r)
  <2>. DEFINE cost == IF job[r].answer = NoAnswer THEN 0 ELSE job[r].answer.cost
              fallback == ~Served(r)
  <2>1. PICK passed \in BOOLEAN : Put(r, Case(TRUE, fallback, passed, cost))
    BY <1>7 DEF CaseEnds
  <2>2. cost \in Costs \cup {0}
    BY DEF JobTyped, Jobs, Answers
  <2>3. fallback \in BOOLEAN
    OBVIOUS
  <2>. HIDE DEF cost, fallback
  <2>4. Case(TRUE, fallback, passed, cost) \in Records
    BY <2>1, <2>2, <2>3 DEF Case, Records
  <2>. QED BY <1>4, <2>1, <2>4
<1>8. CASE NormalCase(r) \/ Evaluated(r)
  BY <1>2, <1>8 DEF NormalCase, Evaluated
<1>9. CASE WriteJson(r) \/ WriteMarkdown(r)
  <2>1. \/ \E file \in {"json", "markdown"}, code \in Exits :
             pilot' = [pilot EXCEPT ![r].files = @ \cup {file}, ![r].exit = code]
        \/ pilot' = [pilot EXCEPT ![r].exit = "raised"]
    BY <1>1, <1>9 DEF WriteJson, WriteMarkdown, Writes, Exit, Exits
  <2>2. "raised" \in Exits
    BY DEF Exits
  <2>3. ASSUME NEW file \in {"json", "markdown"}, NEW code \in Exits,
               pilot' = [pilot EXCEPT ![r].files = @ \cup {file}, ![r].exit = code]
        PROVE  PilotTyped'
    <3>1. [pilot EXCEPT ![r].files = @ \cup {file}, ![r].exit = code] \in [Pilots -> PilotStates]
      BY PilotGets
    <3>2. pilot' \in [Pilots -> PilotStates]
      BY <2>3, <3>1, Zenon
    <3>. QED BY <3>2 DEF PilotTyped
  <2>. QED BY <1>3, <2>1, <2>2, <2>3
<1>. QED BY <1>5, <1>6, <1>7, <1>8, <1>9 DEF PilotStep

-----------------------------------------------------------------------------
(* Types: what the other steps leave alone.                                *)

\* Nobody else spends or records, and who holds the loop is a request.
LEMMA NoLedger ==
  ASSUME NEW r,
         EndpointStep(r) \/ TaskStep(r) \/ PilotStep(r) \/ ArrivePreflight(r) \/ ArriveCheck(r)
  PROVE  UNCHANGED <<spent, told, lost, recorded>>
<1>1. CASE EndpointStep(r)
  BY <1>1 DEF EndpointStep, Arrive, Reply, ArriveBadCases, NextBadCase, ArriveEval,
       EvalRaises, EvaluateCase, CaseEvaluated, ExplainFailure, OpenStream, AdvanceStream,
       FinishStream, Disconnect, shared
<1>2. CASE TaskStep(r)
  BY <1>2 DEF TaskStep, ArriveTask, ConcludeRefused, NextRun, RouteByLLM, RouteByRule,
       Planned, NL2SQLRunEnds, RunRaises, MultitoolRunEnds, KeywordRunEnds, Only, shared
<1>3. CASE PilotStep(r)
  BY <1>3 DEF PilotStep, StartPilot, ProbeEnds, Load, DangerousCase, NormalCase, CaseEnds,
       Evaluated, WriteJson, WriteMarkdown, Writes, Others, shared
<1>4. CASE ArrivePreflight(r) \/ ArriveCheck(r)
  BY <1>4 DEF ArrivePreflight, ArriveCheck, shared
<1>. QED BY <1>1, <1>2, <1>3, <1>4

\* A step takes the loop for its own request, leaves it, or lets it go.
LEMMA LoopGoes ==
  ASSUME NEW r,
         PipelineStep(r) \/ EndpointStep(r) \/ TaskStep(r) \/ PilotStep(r)
           \/ ArrivePreflight(r) \/ ArriveCheck(r)
  PROVE  loop' \in {loop, r, Idle}
<1>1. CASE PipelineStep(r)
  BY <1>1 DEF PipelineStep, Generate, GenerateRaises, Check, LookupHit, LookupMiss, FakeAnswers,
     LiteLLMAnswers, LiteLLMErrs, OpenAIAnswers, OpenAIErrs, CompatibleAnswers, CompatibleErrs,
     Record, Store
<1>2. CASE EndpointStep(r)
  BY <1>2 DEF EndpointStep, Arrive, Reply, ArriveBadCases, NextBadCase, ArriveEval,
       EvalRaises, EvaluateCase, CaseEvaluated, ExplainFailure, OpenStream, AdvanceStream,
       FinishStream, Disconnect, Take
<1>3. CASE TaskStep(r)
  <2>1. ASSUME NEW t, StartRun(r, t) \/ Conclude(r, t) PROVE loop' \in {loop, Idle}
    BY <2>1 DEF StartRun, Conclude
  <2>2. ASSUME NEW run, RunEnds(r, run) PROVE loop' \in {loop, Idle}
    BY <2>1, <2>2 DEF RunEnds
  <2>3. CASE ArriveTask(r)
    BY <2>3 DEF ArriveTask, Take
  <2>4. CASE ConcludeRefused(r) \/ NextRun(r) \/ RouteByLLM(r) \/ RouteByRule(r) \/ RunRaises(r)
    BY <2>1, <2>4 DEF ConcludeRefused, NextRun, RouteByLLM, RouteByRule, Select, RunRaises
  <2>5. CASE Planned(r)
    BY <2>5 DEF Planned
  <2>6. CASE NL2SQLRunEnds(r) \/ MultitoolRunEnds(r) \/ KeywordRunEnds(r)
    BY <2>2, <2>6 DEF NL2SQLRunEnds, MultitoolRunEnds, KeywordRunEnds
  <2>. QED BY <1>3, <2>3, <2>4, <2>5, <2>6 DEF TaskStep
<1>4. CASE PilotStep(r)
  BY <1>4 DEF PilotStep, StartPilot, ProbeEnds, Load, DangerousCase, NormalCase, CaseEnds,
       Evaluated, WriteJson, WriteMarkdown, Writes, Others
<1>5. CASE ArrivePreflight(r) \/ ArriveCheck(r)
  BY <1>5 DEF ArrivePreflight, ArriveCheck, Take
<1>. QED BY <1>1, <1>2, <1>3, <1>4, <1>5

GateTyped == gate # NoAnswer => DOMAIN gate = {"settings", "errors"}

\* The gate answers with what it has found.
LEMMA GateTypedStep ==
  ASSUME GateTyped, [Next]_pilotVars
  PROVE  GateTyped'
<1>1. CASE gate' = gate
  BY <1>1 DEF GateTyped
<1>2. ASSUME NEW r \in Open, ArriveCheck(r) PROVE GateTyped'
  <2>1. PICK s \in Deployments : gate' = [settings |-> s, errors |-> DeploymentErrors(s)]
    BY <1>2 DEF ArriveCheck
  <2>. QED BY <2>1 DEF GateTyped
<1>3. ASSUME NEW r \in Open, ArrivePreflight(r) \/ PilotStep(r) PROVE gate' = gate
  BY <1>3 DEF ArrivePreflight, PilotStep, StartPilot, ProbeEnds, Load, DangerousCase,
     NormalCase, CaseEnds, Evaluated, WriteJson, WriteMarkdown, Writes, Others
<1>. QED BY <1>1, <1>2, <1>3 DEF Next, Finished, pilotVars

-----------------------------------------------------------------------------
(* Types: the tasks, and how many runs one can come to.                    *)

\* Before a task has decided on a mode, while it does, while it plans a keyword
\* run, and while a run goes on.
Consults(j, who) == j.who = who /\ j.at \in {"call", "compatible", "answered"}
Early(j) == j.at \in {"new", "absent", "refused", "next"}
Routes(j) == j.at = "route" \/ Consults(j, "route")
Plans(j) == j.at = "keyword" \/ Consults(j, "plan")
Executes(j) ==
  \/ j.at \in {"generate", "check", "lookup", "record", "store", "made", "raised", "multitool"}
  \/ j.who = "nl2sql" /\ j.at \in {"call", "compatible"}

\* The runs of a task: those of a cascade, and of the fallback from a single mode.
Longest(t) == IF t.fallback THEN 4 ELSE IF t.selected = "auto" THEN 3 ELSE 1

\* What is left of the kernel's cascade.
CascadeLeft ==
  {<<>>, <<"keyword">>, <<"multitool", "keyword">>, <<"nl2sql", "multitool", "keyword">>}

TaskFits(r, j, t) ==
  /\ t \in TaskStates
  /\ Early(j) \/ Routes(j) \/ Plans(j) \/ Executes(j) \/ j.at = "done"
  /\ Routes(j) => Mode[r] = "multi_agent"
  /\ Early(j) \/ Routes(j) => t.runs = <<>> /\ ~t.fallback /\ t.adopted = 0
  /\ j.at = "next" => t.selected \in Selectable /\ t.todo = Cascade(t.selected)
  /\ Plans(j) \/ Executes(j) => Len(t.runs) + Len(t.todo) < Longest(t)
  /\ Mode[r] = "auto" => t.todo \in CascadeLeft /\ (Executes(j) => t.todo # <<>>)

\* Where the pipeline takes the call of a model: that of a task back to the task,
\* a query on its way.
LEMMA PipelineMoves ==
  ASSUME DOMAIN job = Requests, NEW r \in Requests, JobKeyed(r, job[r]), PipelineStep(r)
  PROVE  /\ job'[r].who = job[r].who
         /\ job[r].who \in {"route", "plan"} =>
              /\ job[r].at \in {"call", "compatible"}
              /\ job'[r].at \in {"call", "compatible", "answered"}
         /\ job[r].who = "nl2sql" =>
              job'[r].at \in {"check", "lookup", "call", "compatible", "record", "store",
                              "made", "raised"}
<1>. DEFINE Good(j) ==
       /\ j.who = job[r].who
       /\ job[r].who \in {"route", "plan"} =>
            job[r].at \in {"call", "compatible"} /\ j.at \in {"call", "compatible", "answered"}
       /\ job[r].who = "nl2sql" =>
            j.at \in {"check", "lookup", "call", "compatible", "record", "store", "made", "raised"}
<1>0. /\ DOMAIN job[r] = JobFields
      /\ job[r].at \in {"generate", "check", "lookup", "record", "store"}
           => job[r].who \in {"nl2sql", "judge"}
  BY DEF JobKeyed
<1>1. ASSUME NEW p, NEW j, j.who = job[r].who, j.at = p,
             \/ job[r].who \in {"nl2sql", "judge"}
                /\ p \in {"check", "lookup", "call", "record", "store", "made", "raised"}
             \/ p = "compatible" /\ job[r].at \in {"call", "compatible"}
             \/ p = "judged" /\ job[r].who = "judge"
      PROVE  Good(j)
  BY <1>1
<1>2. CASE Generate(r)
  <2>1. \E j : /\ Update(r, j)
               /\ \/ \E result : j = [job[r] EXCEPT !.at = "made", !.schema = schema, !.result = result]
                  \/ j = [job[r] EXCEPT !.at = "check", !.schema = schema]
    BY <1>2 DEF Generate
  <2>2. \/ \E result : job'[r] = [job[r] EXCEPT !.at = "made", !.schema = schema, !.result = result]
        \/ job'[r] = [job[r] EXCEPT !.at = "check", !.schema = schema]
    BY <2>1, Gets
  <2>3. job'[r].who = job[r].who /\ job'[r].at \in {"made", "check"}
    BY <1>0, <2>2 DEF JobFields
  <2>4. job[r].who \in {"nl2sql", "judge"}
    BY <1>0, <1>2 DEF Generate, At
  <2>. QED BY <1>1, <2>3, <2>4
<1>3. CASE GenerateRaises(r)
  <2>1. job'[r] = [job[r] EXCEPT !.at = "raised"] /\ job[r].who \in {"nl2sql", "judge"}
    BY <1>0, <1>3, Gets DEF GenerateRaises, At
  <2>2. job'[r].who = job[r].who /\ job'[r].at = "raised"
    BY <1>0, <2>1 DEF JobFields
  <2>. QED BY <1>1, <2>1, <2>2
<1>4. /\ job[r].at \in {"check", "lookup", "call", "compatible"} => Good(Without(r))
      /\ job[r].at \in {"call", "compatible"} => Good(Failed(r))
  <2>1. CASE job[r].who = "nl2sql"
    <3>. DEFINE j == [job[r] EXCEPT !.at = "made", !.result = Unavailable(r, job[r].schema)]
                k == [j EXCEPT !.at = "store"]
    <3>1. Without(r) = j /\ Failed(r) = k
      BY <2>1 DEF Without, Failed
    <3>2. /\ DOMAIN j = JobFields /\ j.who = job[r].who /\ j.at = "made"
      BY <1>0 DEF JobFields
    <3>. HIDE DEF j
    <3>3. k.who = job[r].who /\ k.at = "store"
      BY <3>2 DEF JobFields
    <3>. HIDE DEF k
    <3>. QED BY <2>1, <3>1, <3>2, <3>3
  <2>2. CASE job[r].who # "nl2sql"
    <3>1. /\ Failed(r) = Without(r) /\ Without(r).who = job[r].who
          /\ Without(r).at = IF job[r].who = "judge" THEN "judged" ELSE "answered"
      BY <1>0, <2>2 DEF Without, Failed, JudgeUnavailable, JobFields
    <3>. QED BY <1>0, <2>2, <3>1
  <2>. QED BY <2>1, <2>2
<1>5. CASE Check(r) \/ LookupMiss(r)
  <2>1. job[r].at \in {"check", "lookup"} /\ job[r].who \in {"nl2sql", "judge"}
    BY <1>0, <1>5 DEF Check, LookupMiss, At
  <2>2. \/ job'[r] = Without(r)
        \/ \E p \in {"lookup", "call"} : job'[r] = [job[r] EXCEPT !.at = p]
    BY <1>5, Gets DEF Check, LookupMiss
  <2>3. CASE \E p \in {"lookup", "call"} : job'[r] = [job[r] EXCEPT !.at = p]
    <3>1. job'[r].who = job[r].who /\ job'[r].at \in {"lookup", "call"}
      BY <1>0, <2>3 DEF JobFields
    <3>. QED BY <1>1, <2>1, <3>1
  <2>4. CASE job'[r] = Without(r)
    <3>1. Good(Without(r))
      BY <1>4, <2>1
    <3>. QED BY <2>4, <3>1
  <2>. QED BY <2>2, <2>3, <2>4
<1>6. CASE LookupHit(r)
  <2>. DEFINE kept == cache[CacheKey(r)].value
              at == IF job[r].who = "judge" THEN "judged" ELSE "made"
  <2>1. job'[r] = [job[r] EXCEPT !.at = at, !.result = kept.result, !.via = "cache",
                                 !.stored = kept.at]
    BY <1>6, Gets DEF LookupHit
  <2>2. job[r].who \in {"nl2sql", "judge"} /\ at \in {"made", "judged"}
        /\ (job[r].who = "nl2sql" => at = "made")
    BY <1>0, <1>6 DEF LookupHit, At
  <2>. HIDE DEF kept, at
  <2>3. job'[r].who = job[r].who /\ job'[r].at = at
    BY <1>0, <2>1 DEF JobFields
  <2>. QED BY <2>2, <2>3
<1>7. CASE FakeAnswers(r) \/ LiteLLMAnswers(r) \/ OpenAIAnswers(r) \/ CompatibleAnswers(r)
  <2>1. PICK usable, cost, loses : Answered(r, usable, cost, loses)
    BY <1>7, AnswersAre
  <2>2. job[r].at \in {"call", "compatible"}
    BY <1>7 DEF FakeAnswers, LiteLLMAnswers, OpenAIAnswers, CompatibleAnswers, At
  <2>. DEFINE result == IF job[r].who # "nl2sql" THEN job[r].result
                        ELSE IF usable THEN Result("llm", TRUE, r, job[r].schema)
                        ELSE Unavailable(r, job[r].schema)
              at == NextOfAnswer(r, usable)
              answer == [usable |-> usable, cost |-> cost]
  <2>3. job'[r] = [job[r] EXCEPT !.at = at, !.answer = answer, !.via = "provider",
                                 !.result = result]
    BY <2>1, Gets DEF Answered
  <2>4. /\ job[r].who = "nl2sql" => at = "record"
        /\ job[r].who \in {"route", "plan"} => at = "answered"
    BY DEF NextOfAnswer
  <2>. HIDE DEF result, at, answer
  <2>5. job'[r].who = job[r].who /\ job'[r].at = at
    BY <1>0, <2>3 DEF JobFields
  <2>. QED BY <2>2, <2>4, <2>5
<1>8. CASE LiteLLMErrs(r) \/ OpenAIErrs(r) \/ CompatibleErrs(r)
  <2>1. \/ job'[r] = Failed(r)
        \/ At(r, "call") /\ job'[r] = [job[r] EXCEPT !.attempt = @ + 1]
        \/ At(r, "call") /\ job'[r] = [job[r] EXCEPT !.at = "compatible"]
    BY <1>8, Gets DEF LiteLLMErrs, OpenAIErrs, CompatibleErrs, Erred
  <2>2. job[r].at \in {"call", "compatible"}
    BY <1>8 DEF LiteLLMErrs, OpenAIErrs, CompatibleErrs, At
  <2>3. CASE job'[r] = Failed(r)
    <3>1. Good(Failed(r))
      BY <1>4, <2>2
    <3>. QED BY <2>3, <3>1
  <2>4. CASE \/ At(r, "call") /\ job'[r] = [job[r] EXCEPT !.attempt = @ + 1]
             \/ At(r, "call") /\ job'[r] = [job[r] EXCEPT !.at = "compatible"]
    <3>1. job'[r].who = job[r].who /\ job'[r].at \in {"call", "compatible"}
      BY <1>0, <2>4 DEF JobFields, At
    <3>. QED BY <2>2, <3>1
  <2>. QED BY <2>1, <2>3, <2>4
<1>9. CASE Record(r) \/ Store(r)
  <2>1. job[r].who \in {"nl2sql", "judge"}
    BY <1>0, <1>9 DEF Record, Store, At
  <2>2. \E p \in {"store", "judged", "made"} :
          /\ job'[r] = [job[r] EXCEPT !.at = p] /\ (p = "judged" => job[r].who = "judge")
    BY <1>9, Gets DEF Record, Store
  <2>3. /\ job'[r].who = job[r].who /\ job'[r].at \in {"store", "judged", "made"}
        /\ job'[r].at = "judged" => job[r].who = "judge"
    BY <1>0, <2>2 DEF JobFields
  <2>. QED BY <2>1, <2>3
<1>. QED BY <1>2, <1>3, <1>5, <1>6, <1>7, <1>8, <1>9 DEF PipelineStep

\* The pipeline takes a task no further than it may go.
LEMMA PipelineFits ==
  ASSUME DOMAIN job = Requests, NEW r \in Tasks, JobKeyed(r, job[r]),
         NEW t, TaskFits(r, job[r], t), PipelineStep(r)
  PROVE  TaskFits(r, job'[r], t)
<1>0. r \in Requests /\ Kind[r] = "task"
  BY DEF Tasks
<1>1. job[r].at \in Asking
  BY DEF PipelineStep, Generate, GenerateRaises, Check, LookupHit, LookupMiss, FakeAnswers,
     LiteLLMAnswers, LiteLLMErrs, OpenAIAnswers, OpenAIErrs, CompatibleAnswers, CompatibleErrs,
     Record, Store, At, Asking
<1>2. job[r].who \in {"nl2sql", "route", "plan"}
  <2>1. CASE job[r].at \in {"call", "compatible"}
    BY <2>1 DEF TaskFits, Early, Routes, Plans, Executes, Consults
  <2>2. CASE job[r].at \notin {"call", "compatible"}
    BY <1>0, <1>1, <2>2 DEF JobKeyed, Asking
  <2>. QED BY <2>1, <2>2
<1>3. /\ job'[r].who = job[r].who
      /\ job[r].who \in {"route", "plan"} =>
           /\ job[r].at \in {"call", "compatible"}
           /\ job'[r].at \in {"call", "compatible", "answered"}
      /\ job[r].who = "nl2sql" =>
           job'[r].at \in {"check", "lookup", "call", "compatible", "record", "store",
                           "made", "raised"}
  BY <1>0, PipelineMoves
<1>4. CASE job[r].who = "route"
  <2>1. Routes(job[r]) /\ Routes(job'[r]) /\ ~Early(job'[r])
        /\ ~Plans(job'[r]) /\ ~Executes(job'[r])
    BY <1>3, <1>4 DEF Routes, Early, Plans, Executes, Consults
  <2>2. job'[r].at # "next"
    BY <2>1 DEF Early
  <2>. QED BY <2>1, <2>2 DEF TaskFits
<1>5. CASE job[r].who = "plan"
  <2>1. Plans(job[r]) /\ Plans(job'[r]) /\ ~Early(job'[r]) /\ ~Routes(job'[r])
        /\ ~Executes(job'[r])
    BY <1>3, <1>5 DEF Routes, Early, Plans, Executes, Consults
  <2>2. job'[r].at # "next"
    BY <2>1 DEF Early
  <2>. QED BY <2>1, <2>2 DEF TaskFits
<1>6. CASE job[r].who = "nl2sql"
  <2>1. Executes(job[r])
    BY <1>1, <1>6 DEF Executes, Asking
  <2>2. Executes(job'[r]) /\ ~Early(job'[r]) /\ ~Routes(job'[r]) /\ ~Plans(job'[r])
    BY <1>3, <1>6 DEF Routes, Early, Plans, Executes, Consults
  <2>3. job'[r].at # "next"
    BY <2>2 DEF Early
  <2>. QED BY <2>1, <2>2, <2>3 DEF TaskFits
<1>. QED BY <1>2, <1>4, <1>5, <1>6

\* Where a run that starts goes: a keyword run may be planned, the others go on.
LEMMA StartRunGoes ==
  ASSUME NL2SQLRequestsAssumption, DOMAIN job = Requests, NEW r \in Requests, JobTyped(job[r]),
         NEW t, Head(t.todo) \in RunModes, StartRun(r, t)
  PROVE  /\ JobTyped(job'[r]) /\ ~Early(job'[r]) /\ ~Routes(job'[r])
         /\ IF Head(t.todo) = "keyword" THEN Plans(job'[r]) /\ ~Executes(job'[r])
                                        ELSE Executes(job'[r]) /\ ~Plans(job'[r])
<1>. DEFINE mode == Head(t.todo)
            j == [job[r] EXCEPT !.who = "nl2sql", !.at = "generate", !.attempt = 0,
                                !.answer = NoAnswer, !.via = "none"]
            k == [job[r] EXCEPT !.at = mode]
            Fine(i) == /\ JobTyped(i) /\ ~Early(i) /\ ~Routes(i)
                       /\ IF mode = "keyword" THEN Plans(i) /\ ~Executes(i)
                                              ELSE Executes(i) /\ ~Plans(i)
<1>0. job[r] \in Jobs /\ 0 \in 0..MaxRetries /\ NoAnswer \in Answers
  BY DEF JobTyped, NL2SQLRequestsAssumption, Answers
<1>1. \/ mode = "nl2sql" /\ job'[r] = j
      \/ mode = "keyword" /\ job'[r] = Calling(r, "plan")
      \/ mode # "nl2sql" /\ job'[r] = k
  BY Gets DEF StartRun, PlansWithLLM
<1>2. JobTyped(j) /\ j.at = "generate" /\ j.who = "nl2sql"
  <2>1. "generate" \in Points /\ "nl2sql" \in Callers
    BY DEF Points, Callers
  <2>2. j \in Jobs /\ j.at = "generate" /\ j.who = "nl2sql"
    BY <1>0, <2>1 DEF Jobs
  <2>. HIDE DEF j
  <2>. QED BY <2>2 DEF JobTyped
<1>3. JobTyped(Calling(r, "plan")) /\ Calling(r, "plan").at = "call"
      /\ Calling(r, "plan").who = "plan"
  <2>1. "plan" \in Callers
    BY DEF Callers
  <2>2. JobTyped(Calling(r, "plan"))
    BY <2>1, CallingTyped
  <2>. QED BY <1>0, <2>2 DEF Calling, Jobs
<1>4. ASSUME mode # "nl2sql" PROVE JobTyped(k) /\ k.at = mode /\ mode \in {"multitool", "keyword"}
  <2>1. mode \in {"multitool", "keyword"} /\ mode \in Points \ {"record"}
    BY <1>4 DEF RunModes, Points
  <2>. HIDE DEF mode
  <2>2. JobTyped([job[r] EXCEPT !.at = mode]) /\ [job[r] EXCEPT !.at = mode].at = mode
    BY <1>0, <2>1, Moves DEF Jobs
  <2>. QED BY <2>1, <2>2
<1>. HIDE DEF j, k, mode
<1>5. ASSUME NEW i, JobTyped(i),
             \/ mode = "nl2sql" /\ i.at = "generate" /\ i.who = "nl2sql"
             \/ mode = "keyword" /\ i.at = "call" /\ i.who = "plan"
             \/ mode \in {"multitool", "keyword"} /\ i.at = mode
      PROVE  Fine(i)
  BY <1>5 DEF Early, Routes, Plans, Executes, Consults
<1>6. Fine(job'[r])
  BY <1>1, <1>2, <1>3, <1>4, <1>5
<1>. QED BY <1>6 DEF mode

\* A task that starts a run has one to try less.
LEMMA StartRunFits ==
  ASSUME NL2SQLRequestsAssumption, Shape, NEW r \in Tasks, JobTyped(job[r]),
         NEW t \in TaskStates, t.todo # <<>>, Len(t.runs) + Len(t.todo) <= Longest(t),
         Mode[r] = "auto" => t.todo \in CascadeLeft, StartRun(r, t)
  PROVE  JobTyped(job'[r]) /\ TaskFits(r, job'[r], task'[r])
<1>. DEFINE u == [t EXCEPT !.todo = Tail(@)]
<1>1. r \in Requests /\ DOMAIN job = Requests /\ DOMAIN t = TaskFields
      /\ t.todo \in Seq(RunModes) /\ t.runs \in Seq(Runs) /\ t.fallback \in BOOLEAN
  BY DEF Shape, Tasks, TaskStates, TaskFields
<1>2. /\ Head(t.todo) \in RunModes /\ Tail(t.todo) \in Seq(RunModes)
      /\ Len(Tail(t.todo)) = Len(t.todo) - 1 /\ Len(t.todo) \in Nat /\ Len(t.runs) \in Nat
  BY <1>1
<1>3. task'[r] = u
  BY <1>1, StartRunMeans
<1>4. u \in TaskStates /\ u.todo = Tail(t.todo) /\ u.runs = t.runs /\ Longest(u) = Longest(t)
  BY <1>2 DEF TaskStates, Longest
<1>. HIDE DEF u
<1>5. /\ JobTyped(job'[r]) /\ ~Early(job'[r]) /\ ~Routes(job'[r])
      /\ IF Head(t.todo) = "keyword" THEN Plans(job'[r]) /\ ~Executes(job'[r])
                                     ELSE Executes(job'[r]) /\ ~Plans(job'[r])
  BY <1>1, <1>2, StartRunGoes
<1>6. Longest(t) \in Nat
  BY DEF Longest
<1>7. Len(u.runs) + Len(u.todo) < Longest(u)
  <2>0. ASSUME NEW a \in Nat, NEW b \in Nat, NEW c \in Nat, NEW d, d = b - 1, a + b <= c
        PROVE  a + d < c
    BY <2>0
  <2>1. Len(t.runs) + Len(Tail(t.todo)) < Longest(t)
    BY <1>2, <1>6, <2>0
  <2>. QED BY <1>4, <2>1
<1>8. ASSUME t.todo \in CascadeLeft
      PROVE  u.todo \in CascadeLeft /\ (Head(t.todo) # "keyword" => u.todo # <<>>)
  <2>1. CASE t.todo = <<"keyword">>
    <3>1. Head(t.todo) = "keyword" /\ Tail(t.todo) = <<>>
      BY <2>1
    <3>. QED BY <1>4, <3>1 DEF CascadeLeft
  <2>2. CASE t.todo = <<"multitool", "keyword">>
    <3>1. Tail(t.todo) = <<"keyword">>
      BY <2>2
    <3>. QED BY <1>4, <3>1 DEF CascadeLeft
  <2>3. CASE t.todo = <<"nl2sql", "multitool", "keyword">>
    <3>1. Tail(t.todo) = <<"multitool", "keyword">>
      BY <2>3
    <3>. QED BY <1>4, <3>1 DEF CascadeLeft
  <2>. QED BY <1>8, <2>1, <2>2, <2>3 DEF CascadeLeft
<1>9. job'[r].at # "next"
  BY <1>5 DEF Early
<1>. QED BY <1>3, <1>4, <1>5, <1>7, <1>8, <1>9 DEF TaskFits

\* A task that concludes has nothing more to fit.
LEMMA ConcludeFits ==
  ASSUME NL2SQLRequestsAssumption, LLMBudgetAssumption, Shape, NEW r \in Tasks,
         NEW t \in TaskStates, Mode[r] = "auto" => t.todo \in CascadeLeft, Conclude(r, t)
  PROVE  JobTyped(job'[r]) /\ TaskFits(r, job'[r], task'[r])
<1>1. task'[r] = t /\ job'[r] = [NewJob EXCEPT !.at = "done"] /\ job'[r].at = "done"
  BY ConcludeMeans DEF At
<1>2. job'[r].who = "nl2sql"
  BY <1>1 DEF NewJob
<1>3. JobTyped(job'[r])
  <2>1. "done" \in Points \ {"record"}
    BY DEF Points
  <2>. QED BY <1>1, <2>1, NewJobTyped
<1>4. ~Early(job'[r]) /\ ~Routes(job'[r]) /\ ~Plans(job'[r]) /\ ~Executes(job'[r])
  BY <1>1, <1>2 DEF Early, Routes, Plans, Executes, Consults
<1>. QED BY <1>1, <1>3, <1>4 DEF TaskFits

\* A run that has ended: the task has had one more, and may go on with another.
LEMMA RunAdded ==
  ASSUME NEW t \in TaskStates, NEW run \in Runs, Len(t.runs) + Len(t.todo) < Longest(t)
  PROVE  LET u == [t EXCEPT !.runs = Append(@, run)] IN
         /\ u \in TaskStates /\ u.todo = t.todo /\ u.selected = t.selected
         /\ u.fallback = t.fallback /\ u.adopted = t.adopted
         /\ Len(u.runs) = Len(t.runs) + 1 /\ Len(u.runs) + Len(u.todo) <= Longest(u)
         /\ Len(u.runs) \in 1..4
<1>. DEFINE more == Append(t.runs, run)
            u == [t EXCEPT !.runs = more]
<1>1. t.runs \in Seq(Runs) /\ t.todo \in Seq(RunModes)
  BY DEF TaskStates
<1>2. /\ more \in Seq(Runs) /\ Len(more) = Len(t.runs) + 1 /\ Len(t.runs) \in Nat
      /\ Len(t.todo) \in Nat
  BY <1>1
<1>. HIDE DEF more
<1>3. /\ u \in TaskStates /\ u.todo = t.todo /\ u.selected = t.selected
      /\ u.fallback = t.fallback /\ u.adopted = t.adopted /\ u.runs = more
  BY <1>2 DEF TaskStates
<1>. HIDE DEF u
<1>4. Longest(u) = Longest(t) /\ Longest(t) \in 1..4
  BY <1>3 DEF Longest
<1>5. ASSUME NEW a \in Nat, NEW b \in Nat, NEW c \in 1..4, NEW d, d = a + 1, a + b < c
      PROVE  d + b <= c /\ d \in 1..4
  BY <1>5
<1>6. Len(more) + Len(t.todo) <= Longest(t) /\ Len(more) \in 1..4
  BY <1>2, <1>4, <1>5
<1>7. Len(u.runs) + Len(u.todo) <= Longest(u) /\ Len(u.runs) \in 1..4
      /\ Len(u.runs) = Len(t.runs) + 1
  BY <1>2, <1>3, <1>4, <1>6
<1>. QED BY <1>3, <1>7 DEF u, more

\* The modes of a cascade are three at the most.
LEMMA CascadeLength ==
  ASSUME NEW mode \in Selectable
  PROVE  /\ Len(Cascade(mode)) \in 1..3
         /\ Len(Cascade(mode)) <= IF mode = "auto" THEN 3 ELSE 1
         /\ mode = "auto" => Cascade(mode) \in CascadeLeft
<1>1. CASE mode = "auto"
  <2>1. Cascade(mode) = <<"nl2sql", "multitool", "keyword">>
    BY <1>1 DEF Cascade
  <2>2. Len(Cascade(mode)) = 3
    BY <2>1
  <2>. QED BY <1>1, <2>1, <2>2 DEF CascadeLeft
<1>2. CASE mode # "auto"
  <2>1. Cascade(mode) = <<mode>>
    BY <1>2 DEF Cascade
  <2>2. Len(Cascade(mode)) = 1
    BY <2>1
  <2>. QED BY <1>2, <2>2
<1>. QED BY <1>1, <1>2

\* The end of a run leaves the task with no more to do than it may.
LEMMA RunEndsFits ==
  ASSUME NL2SQLRequestsAssumption, LLMBudgetAssumption, Shape, NEW r \in Tasks,
         JobTyped(job[r]), TaskFits(r, job[r], task[r]), Plans(job[r]) \/ Executes(job[r]),
         NEW run \in Runs, RunEnds(r, run)
  PROVE  JobTyped(job'[r]) /\ TaskFits(r, job'[r], task'[r])
<1>. DEFINE t == [task[r] EXCEPT !.runs = Append(@, run)]
            reported == [t EXCEPT !.todo = <<>>,
                           !.adopted = IF Adopt(t, run) THEN Len(t.runs) ELSE @]
            mode == SuggestFallback(t.selected)
            u == [reported EXCEPT !.selected = mode, !.fallback = TRUE, !.todo = Cascade(mode)]
<1>1. /\ task[r] \in TaskStates /\ Len(task[r].runs) + Len(task[r].todo) < Longest(task[r])
      /\ Mode[r] = "auto" => task[r].todo \in CascadeLeft
  BY DEF TaskFits
<1>2. /\ t \in TaskStates /\ t.todo = task[r].todo /\ t.selected = task[r].selected
      /\ t.fallback = task[r].fallback /\ Len(t.runs) = Len(task[r].runs) + 1
      /\ Len(t.runs) + Len(t.todo) <= Longest(t) /\ Len(t.runs) \in 1..4
  BY <1>1, RunAdded
<1>3. \/ ~run.success /\ t.todo # <<>> /\ StartRun(r, t)
      \/ /\ Mode[r] = "multi_agent" /\ ~t.fallback
         /\ FallbackAllowed(r, run) /\ StartRun(r, u)
      \/ Conclude(r, reported)
  BY DEF RunEnds
<1>. HIDE DEF t
<1>4. reported \in TaskStates /\ reported.todo = <<>> /\ reported.runs = t.runs
  <2>. DEFINE n == IF Adopt(t, run) THEN Len(t.runs) ELSE t.adopted
  <2>1. n \in 0..4 /\ <<>> \in Seq(RunModes)
    BY <1>2 DEF TaskStates
  <2>2. reported = [t EXCEPT !.todo = <<>>, !.adopted = n]
    BY <1>2 DEF TaskStates
  <2>. HIDE DEF n, reported
  <2>. QED BY <1>2, <2>1, <2>2 DEF TaskStates
<1>5. <<>> \in CascadeLeft
  BY DEF CascadeLeft
<1>. HIDE DEF reported
<1>6. CASE ~run.success /\ t.todo # <<>> /\ StartRun(r, t)
  BY <1>1, <1>2, <1>6, StartRunFits
<1>7. CASE Conclude(r, reported)
  BY <1>4, <1>5, <1>7, ConcludeFits
<1>8. CASE /\ Mode[r] = "multi_agent" /\ ~t.fallback
           /\ FallbackAllowed(r, run) /\ StartRun(r, u)
  <2>1. mode \in Selectable
    BY DEF SuggestFallback, Selectable, RunModes
  <2>. HIDE DEF mode
  <2>2. Cascade(mode) \in Seq(RunModes) /\ Cascade(mode) # <<>> /\ Len(Cascade(mode)) \in 1..3
    BY <2>1, CascadeModes, CascadeLength
  <2>3. u \in TaskStates /\ u.todo = Cascade(mode) /\ u.runs = t.runs /\ u.fallback
    BY <1>4, <2>1, <2>2 DEF TaskStates
  <2>. HIDE DEF u
  <2>4. Longest(u) = 4 /\ Longest(t) = 1
    BY <1>2, <1>8, <2>3 DEF Longest, FallbackAllowed
  <2>5. Len(t.runs) = 1
    <3>1. Len(t.todo) \in Nat
      BY <1>2 DEF TaskStates
    <3>2. ASSUME NEW a \in 1..4, NEW b \in Nat, a + b <= 1 PROVE a = 1
      BY <3>2
    <3>3. Len(t.runs) + Len(t.todo) <= 1
      BY <1>2, <2>4
    <3>. QED BY <1>2, <3>1, <3>2, <3>3
  <2>6. Len(u.runs) + Len(u.todo) <= Longest(u)
    <3>1. ASSUME NEW n \in 1..3 PROVE 1 + n <= 4
      OBVIOUS
    <3>2. 1 + Len(Cascade(mode)) <= 4
      BY <2>2, <3>1
    <3>. QED BY <2>3, <2>4, <2>5, <3>2
  <2>. QED BY <1>8, <2>2, <2>3, <2>6, StartRunFits
<1>. QED BY <1>3, <1>6, <1>7, <1>8

\* So does a run that raised.
LEMMA RunRaisesFits ==
  ASSUME NL2SQLRequestsAssumption, LLMBudgetAssumption, Shape, NEW r \in Tasks,
         JobTyped(job[r]), TaskFits(r, job[r], task[r]), RunRaises(r)
  PROVE  JobTyped(job'[r]) /\ TaskFits(r, job'[r], task'[r])
<1>. DEFINE mode == IF At(r, "raised") THEN "nl2sql" ELSE "multitool"
            run == Outcome(mode, "failed")
            t == [task[r] EXCEPT !.runs = Append(@, run)]
            u == [t EXCEPT !.todo = <<"keyword">>]
            v == [t EXCEPT !.todo = <<>>,
                         !.adopted = IF Mode[r] = "multi_agent" THEN 0 ELSE Len(t.runs)]
<1>0. Executes(job[r])
  BY DEF RunRaises, Executes, At
<1>1. /\ task[r] \in TaskStates /\ Len(task[r].runs) + Len(task[r].todo) < Longest(task[r])
      /\ Mode[r] = "auto" => task[r].todo \in CascadeLeft /\ task[r].todo # <<>>
  BY <1>0 DEF TaskFits
<1>2. run \in Runs
  BY OutcomeIsRun DEF RunModes
<1>3. IF Mode[r] = "auto" THEN StartRun(r, u) ELSE Conclude(r, v)
  BY DEF RunRaises
<1>. HIDE DEF run
<1>4. /\ t \in TaskStates /\ t.todo = task[r].todo /\ Len(t.runs) \in 1..4
      /\ Len(t.runs) + Len(t.todo) <= Longest(t)
  BY <1>1, <1>2, RunAdded
<1>. HIDE DEF t
<1>5. CASE Mode[r] = "auto"
  <2>1. <<"keyword">> \in Seq(RunModes) /\ <<"keyword">> # <<>> /\ Len(<<"keyword">>) = 1
        /\ <<"keyword">> \in CascadeLeft
    BY DEF RunModes, CascadeLeft
  <2>2. u \in TaskStates /\ u.todo = <<"keyword">> /\ u.runs = t.runs /\ Longest(u) = Longest(t)
    BY <1>4, <2>1 DEF TaskStates, Longest
  <2>. HIDE DEF u
  <2>3. Len(t.todo) \in Nat \ {0}
    BY <1>1, <1>4, <1>5 DEF TaskStates
  <2>4. Longest(t) \in Nat
    BY DEF Longest
  <2>5. Len(u.runs) + Len(u.todo) <= Longest(u)
    <3>1. ASSUME NEW a \in 1..4, NEW b \in Nat \ {0}, NEW c \in Nat, a + b <= c PROVE a + 1 <= c
      BY <3>1
    <3>2. Len(t.runs) + 1 <= Longest(t)
      BY <1>4, <2>3, <2>4, <3>1
    <3>. QED BY <2>1, <2>2, <3>2
  <2>. QED BY <1>3, <1>5, <2>1, <2>2, <2>5, StartRunFits
<1>6. CASE Mode[r] # "auto"
  <2>. DEFINE n == IF Mode[r] = "multi_agent" THEN 0 ELSE Len(t.runs)
  <2>1. n \in 0..4 /\ <<>> \in Seq(RunModes)
    BY <1>4
  <2>. HIDE DEF n
  <2>2. [t EXCEPT !.todo = <<>>, !.adopted = n] \in TaskStates
    BY <1>4, <2>1 DEF TaskStates
  <2>3. v \in TaskStates
    BY <2>2 DEF n
  <2>. HIDE DEF v
  <2>. QED BY <1>3, <1>6, <2>3, ConcludeFits
<1>. QED BY <1>5, <1>6

\* The first run of a mode.
LEMMA FirstRunFits ==
  ASSUME NL2SQLRequestsAssumption, Shape, NEW r \in Tasks, JobTyped(job[r]),
         NEW t \in TaskStates, NEW mode \in Selectable, t.selected = mode,
         t.todo = Cascade(mode), t.runs = <<>>, ~t.fallback,
         Mode[r] = "auto" => t.todo \in CascadeLeft, StartRun(r, t)
  PROVE  JobTyped(job'[r]) /\ TaskFits(r, job'[r], task'[r])
<1>1. /\ Len(t.todo) \in Nat /\ t.todo # <<>>
      /\ Len(t.todo) <= IF mode = "auto" THEN 3 ELSE 1
  BY CascadeModes, CascadeLength
<1>2. Longest(t) = IF mode = "auto" THEN 3 ELSE 1
  BY DEF Longest
<1>3. Len(t.runs) = 0
  OBVIOUS
<1>4. ASSUME NEW n \in Nat PROVE 0 + n = n
  OBVIOUS
<1>5. Len(t.runs) + Len(t.todo) <= Longest(t)
  BY <1>1, <1>2, <1>3, <1>4
<1>. QED BY <1>1, <1>5, StartRunFits

\* So the mode that a task decides on.
LEMMA SelectFits ==
  ASSUME NL2SQLRequestsAssumption, Shape, NEW r \in Tasks, JobTyped(job[r]),
         TaskFits(r, job[r], task[r]), Routes(job[r]), NEW mode \in Selectable, Select(r, mode)
  PROVE  JobTyped(job'[r]) /\ TaskFits(r, job'[r], task'[r])
<1>. DEFINE t == [task[r] EXCEPT !.selected = mode, !.todo = Cascade(mode)]
<1>1. /\ task[r] \in TaskStates /\ task[r].runs = <<>> /\ ~task[r].fallback
      /\ Mode[r] = "multi_agent"
  BY DEF TaskFits
<1>2. Cascade(mode) \in Seq(RunModes)
  BY CascadeModes
<1>3. /\ t \in TaskStates /\ t.selected = mode /\ t.todo = Cascade(mode)
      /\ t.runs = task[r].runs /\ t.fallback = task[r].fallback
  BY <1>1, <1>2 DEF TaskStates
<1>4. StartRun(r, t)
  BY DEF Select
<1>. HIDE DEF t
<1>. QED BY <1>1, <1>3, <1>4, FirstRunFits

\* A task arrives.
LEMMA ArriveFits ==
  ASSUME NL2SQLRequestsAssumption, TaskModesAssumption, Shape, NEW r \in Tasks,
         JobTyped(job[r]), TaskFits(r, job[r], task[r]), ArriveTask(r)
  PROVE  JobTyped(job'[r]) /\ TaskFits(r, job'[r], task'[r])
<1>. DEFINE t == [NewTask EXCEPT !.selected = Mode[r], !.todo = Cascade(Mode[r])]
            waits(p) == [job[r] EXCEPT !.at = p]
<1>1. r \in Requests /\ DOMAIN job = Requests /\ DOMAIN task = Tasks /\ job[r] \in Jobs
  BY DEF Shape, Tasks, JobTyped
<1>2. \/ task' = task /\ job'[r] = waits("refused")
      \/ /\ Mode[r] = "multi_agent" /\ task' = task
         /\ job'[r] = waits("route") \/ job'[r] = Calling(r, "route")
      \/ /\ Mode[r] # "multi_agent" /\ task'[r] = t /\ job'[r] = waits("next")
  BY <1>1, Gets DEF ArriveTask
<1>3. \A p \in {"refused", "route", "next"} : JobTyped(waits(p)) /\ waits(p).at = p
  <2>1. {"refused", "route", "next"} \subseteq Points \ {"record"}
    BY DEF Points
  <2>2. \A p \in {"refused", "route", "next"} : waits(p).at = p
    BY <1>1 DEF Jobs
  <2>. QED BY <1>1, <2>1, <2>2, Moves
<1>4. JobTyped(Calling(r, "route")) /\ Consults(Calling(r, "route"), "route")
      /\ Calling(r, "route").at = "call" /\ Calling(r, "route").who = "route"
  <2>1. "route" \in Callers
    BY DEF Callers
  <2>2. JobTyped(Calling(r, "route"))
    BY <2>1, CallingTyped
  <2>. QED BY <1>1, <2>2 DEF Calling, Consults, Jobs
<1>. HIDE DEF waits
<1>5. task[r] \in TaskStates /\ task[r].runs = <<>> /\ ~task[r].fallback /\ task[r].adopted = 0
  <2>1. Early(job[r])
    BY DEF ArriveTask, Early, At
  <2>. QED BY <2>1 DEF TaskFits
<1>6. CASE task' = task /\ job'[r] = waits("refused")
  <2>1. JobTyped(job'[r]) /\ job'[r].at = "refused"
    BY <1>3, <1>6
  <2>2. Early(job'[r]) /\ ~Routes(job'[r]) /\ ~Plans(job'[r]) /\ ~Executes(job'[r])
    BY <2>1 DEF Early, Routes, Plans, Executes, Consults
  <2>. QED BY <1>5, <1>6, <2>1, <2>2 DEF TaskFits
<1>7. CASE /\ Mode[r] = "multi_agent" /\ task' = task
           /\ job'[r] = waits("route") \/ job'[r] = Calling(r, "route")
  <2>1. JobTyped(job'[r])
        /\ (job'[r].at = "route" \/ (job'[r].at = "call" /\ job'[r].who = "route"))
    BY <1>3, <1>4, <1>7
  <2>2. Routes(job'[r]) /\ ~Early(job'[r]) /\ ~Plans(job'[r]) /\ ~Executes(job'[r])
    BY <2>1 DEF Early, Routes, Plans, Executes, Consults
  <2>3. job'[r].at # "next"
    BY <2>1
  <2>. QED BY <1>5, <1>7, <2>1, <2>2, <2>3 DEF TaskFits
<1>8. CASE /\ Mode[r] # "multi_agent" /\ task'[r] = t /\ job'[r] = waits("next")
  <2>1. JobTyped(job'[r]) /\ job'[r].at = "next"
    BY <1>3, <1>8
  <2>2. Early(job'[r]) /\ ~Routes(job'[r]) /\ ~Plans(job'[r]) /\ ~Executes(job'[r])
    BY <2>1 DEF Early, Routes, Plans, Executes, Consults
  <2>3. Mode[r] \in Selectable
    BY <1>8 DEF TaskModesAssumption
  <2>4. Cascade(Mode[r]) \in Seq(RunModes) /\ (Mode[r] = "auto" => Cascade(Mode[r]) \in CascadeLeft)
    BY <2>3, CascadeModes, CascadeLength
  <2>5. <<>> \in Seq(Runs) /\ 0 \in 0..4
    OBVIOUS
  <2>6. /\ t \in TaskStates /\ t.selected = Mode[r] /\ t.todo = Cascade(Mode[r])
        /\ t.runs = <<>> /\ ~t.fallback /\ t.adopted = 0
    BY <2>3, <2>4, <2>5 DEF NewTask, TaskStates
  <2>. HIDE DEF t
  <2>. QED BY <1>8, <2>1, <2>2, <2>3, <2>4, <2>6 DEF TaskFits
<1>. QED BY <1>2, <1>6, <1>7, <1>8

\* Every step of a task keeps it what it is, and within its runs.
LEMMA TaskStepFits ==
  ASSUME NL2SQLRequestsAssumption, LLMBudgetAssumption, TaskModesAssumption, Shape,
         NEW r \in Tasks, JobTyped(job[r]), TaskFits(r, job[r], task[r]),
         TaskStep(r)
  PROVE  JobTyped(job'[r]) /\ TaskFits(r, job'[r], task'[r])
<1>0. r \in Requests /\ DOMAIN job = Requests /\ task[r] \in TaskStates /\ job[r] \in Jobs
  BY DEF Shape, Tasks, TaskFits, JobTyped
<1>1. CASE ArriveTask(r)
  BY <1>1, ArriveFits
<1>2. CASE ConcludeRefused(r)
  <2>1. Conclude(r, task[r]) /\ (Mode[r] = "auto" => task[r].todo \in CascadeLeft)
    BY <1>2 DEF ConcludeRefused, TaskFits
  <2>. QED BY <1>0, <2>1, ConcludeFits
<1>3. CASE NextRun(r)
  <2>1. job[r].at = "next" /\ Early(job[r]) /\ StartRun(r, task[r])
    BY <1>3 DEF NextRun, At, Early
  <2>2. /\ task[r].selected \in Selectable /\ task[r].todo = Cascade(task[r].selected)
        /\ task[r].runs = <<>> /\ ~task[r].fallback
        /\ Mode[r] = "auto" => task[r].todo \in CascadeLeft
    BY <2>1 DEF TaskFits
  <2>. QED BY <1>0, <2>1, <2>2, FirstRunFits
<1>4. CASE RouteByLLM(r) \/ RouteByRule(r)
  <2>1. Routes(job[r])
    BY <1>4 DEF RouteByLLM, RouteByRule, Routes, Consults, At
  <2>2. Rule[Query[r]] \in Selectable
    BY DEF TaskModesAssumption
  <2>3. \E mode \in Selectable : Select(r, mode)
    BY <1>4, <2>2 DEF RouteByLLM, RouteByRule
  <2>. QED BY <2>1, <2>3, SelectFits
<1>5. CASE Planned(r)
  <2>1. task' = task /\ job'[r] = [job[r] EXCEPT !.at = "keyword"]
    BY <1>0, <1>5, Gets DEF Planned
  <2>2. "keyword" \in Points \ {"record"}
    BY DEF Points
  <2>3. JobTyped([job[r] EXCEPT !.at = "keyword"]) /\ [job[r] EXCEPT !.at = "keyword"].at = "keyword"
    BY <1>0, <2>2, Moves DEF Jobs
  <2>4. JobTyped(job'[r]) /\ job'[r].at = "keyword"
    BY <2>1, <2>3
  <2>5. Plans(job[r])
    BY <1>5 DEF Planned, Plans, Consults, At
  <2>6. Plans(job'[r]) /\ ~Early(job'[r]) /\ ~Routes(job'[r]) /\ ~Executes(job'[r])
    BY <2>4 DEF Early, Routes, Plans, Executes, Consults
  <2>. QED BY <2>1, <2>4, <2>5, <2>6 DEF TaskFits
<1>6. CASE NL2SQLRunEnds(r) \/ MultitoolRunEnds(r) \/ KeywordRunEnds(r)
  <2>1. \E run \in Runs : RunEnds(r, run)
    BY <1>6, OutcomeIsRun DEF NL2SQLRunEnds, MultitoolRunEnds, KeywordRunEnds, RunModes
  <2>2. Plans(job[r]) \/ Executes(job[r])
    BY <1>6 DEF NL2SQLRunEnds, MultitoolRunEnds, KeywordRunEnds, Plans, Executes, At
  <2>. QED BY <2>1, <2>2, RunEndsFits
<1>7. CASE RunRaises(r)
  BY <1>7, RunRaisesFits
<1>. QED BY <1>1, <1>2, <1>3, <1>4, <1>5, <1>6, <1>7 DEF TaskStep

\* No other handler takes a step of a task.
LEMMA TasksOnly ==
  ASSUME NEW r \in Tasks, NEW t, TaskFits(r, job[r], t)
  PROVE  ~EndpointStep(r) /\ ~ArrivePreflight(r) /\ ~ArriveCheck(r) /\ r \notin Pilots
<1>1. Kind[r] = "task"
  BY DEF Tasks
<1>2. /\ job[r].at \notin {"opened", "judged", "evaluate"}
      /\ job[r].at = "answered" => job[r].who \in {"route", "plan"}
  BY DEF TaskFits, Early, Routes, Plans, Executes, Consults
<1>3. ~Arrive(r) /\ ~Reply(r) /\ ~ArriveBadCases(r) /\ ~ArriveEval(r) /\ ~OpenStream(r)
      /\ ~FinishStream(r) /\ ~Disconnect(r)
  BY <1>1 DEF Arrive, Reply, ArriveBadCases, ArriveEval, OpenStream, FinishStream, Disconnect
<1>4. ~NextBadCase(r) /\ ~EvalRaises(r) /\ ~EvaluateCase(r) /\ ~CaseEvaluated(r)
      /\ ~ExplainFailure(r) /\ ~AdvanceStream(r)
  BY <1>2 DEF NextBadCase, EvalRaises, EvaluateCase, CaseEvaluated, ExplainFailure,
       AdvanceStream, At
<1>. QED BY <1>1, <1>3, <1>4 DEF EndpointStep, ArrivePreflight, ArriveCheck, Pilots

\* A step of a task writes what is known of that task.
LEMMA TaskWrites ==
  ASSUME NEW r, TaskStep(r)
  PROVE  task' = task \/ \E t : task' = [task EXCEPT ![r] = t]
<1>1. ASSUME NEW t, StartRun(r, t) \/ Conclude(r, t) PROVE \E u : task' = [task EXCEPT ![r] = u]
  BY <1>1 DEF StartRun, Conclude
<1>2. ASSUME NEW run, RunEnds(r, run) PROVE \E u : task' = [task EXCEPT ![r] = u]
  BY <1>1, <1>2 DEF RunEnds
<1>3. CASE ArriveTask(r) \/ Planned(r)
  BY <1>3 DEF ArriveTask, Planned
<1>4. CASE ConcludeRefused(r) \/ NextRun(r) \/ RouteByLLM(r) \/ RouteByRule(r) \/ RunRaises(r)
  BY <1>1, <1>4 DEF ConcludeRefused, NextRun, RouteByLLM, RouteByRule, Select, RunRaises
<1>5. CASE NL2SQLRunEnds(r) \/ MultitoolRunEnds(r) \/ KeywordRunEnds(r)
  BY <1>2, <1>5 DEF NL2SQLRunEnds, MultitoolRunEnds, KeywordRunEnds
<1>. QED BY <1>3, <1>4, <1>5 DEF TaskStep

-----------------------------------------------------------------------------
(* TypeOK.                                                                 *)

\* The inductive invariant, beside Keyed.
Typed ==
  /\ now \in 0..MaxTime /\ schema \in 0..MaxSchema /\ loop \in Requests \cup {Idle}
  /\ CacheTyped /\ LedgerTyped /\ PilotTyped /\ GateTyped
  /\ task \in [Tasks -> TaskStates]
  /\ \A r \in Requests : JobTyped(job[r])
  /\ \A r \in Tasks : TaskFits(r, job[r], task[r])

\* A step of one request, and what is left to show of it.
LEMMA TypedFrame ==
  ASSUME Shape, Typed, NEW q \in Requests, Frame(q), JobTyped(job'[q]),
         UNCHANGED now, UNCHANGED schema, loop' \in {loop, q, Idle},
         CacheTyped', LedgerTyped', PilotTyped', GateTyped',
         \/ UNCHANGED task /\ (q \in Tasks => TaskFits(q, job'[q], task[q]))
         \/ q \in Tasks /\ TaskFrame(q) /\ TaskFits(q, job'[q], task'[q])
              /\ \E t : task' = [task EXCEPT ![q] = t]
  PROVE  Typed'
<1>1. DOMAIN job = Requests /\ DOMAIN task = Tasks /\ Tasks \subseteq Requests
  BY DEF Shape, Tasks
<1>2. ASSUME NEW r \in Requests PROVE JobTyped(job'[r])
  <2>1. CASE r = q
    BY <2>1
  <2>2. CASE r # q
    <3>1. job'[r] = job[r]
      BY <1>1, <2>2 DEF Frame
    <3>. QED BY <3>1 DEF Typed
  <2>. QED BY <2>1, <2>2
<1>3. ASSUME NEW r \in Tasks PROVE TaskFits(r, job'[r], task'[r])
  <2>1. CASE r = q
    BY <2>1
  <2>2. CASE r # q
    <3>1. job'[r] = job[r] /\ task'[r] = task[r]
      BY <1>1, <2>2 DEF Frame, TaskFrame
    <3>. QED BY <3>1 DEF Typed
  <2>. QED BY <2>1, <2>2
<1>4. task' \in [Tasks -> TaskStates]
  <2>1. task' = task \/ \E t : task' = [task EXCEPT ![q] = t]
    OBVIOUS
  <2>2. \A r \in Tasks : task'[r] \in TaskStates
    BY <1>3 DEF TaskFits
  <2>. QED BY <2>1, <2>2 DEF Typed
<1>. QED BY <1>2, <1>3, <1>4 DEF Typed, JobTyped

\* Every step keeps everything what it is.
LEMMA TypedStep ==
  ASSUME KeysAssumption, NL2SQLRequestsAssumption, LLMBudgetAssumption, TaskModesAssumption,
         Keyed, Typed, [Next]_pilotVars
  PROVE  Typed'
<1>1. /\ Shape /\ CacheSound /\ DOMAIN job = Requests
      /\ \A r \in Requests : JobKeyed(r, job[r]) /\ JobTyped(job[r])
      /\ \A r \in Tasks : r \in Requests /\ TaskFits(r, job[r], task[r])
  BY DEF Keyed, Typed, Shape, Tasks
<1>2. GateTyped'
  BY GateTypedStep DEF Typed
<1>3. CASE UNCHANGED pilotVars
  BY <1>3 DEF pilotVars, taskVars, vars, shared, Typed, JobTyped, TaskFits, CacheTyped,
     LedgerTyped, PilotTyped, GateTyped
<1>4. CASE Finished
  BY <1>3, <1>4 DEF Finished
<1>5. CASE Environment /\ UNCHANGED <<task, pilot, gate>>
  <2>1. now' \in 0..MaxTime /\ schema' \in 0..MaxSchema
    BY <1>5 DEF Environment, Tick, shared, Typed, LLMBudgetAssumption, NL2SQLRequestsAssumption
  <2>2. UNCHANGED <<spent, cache, job, loop, told, lost, recorded, task, pilot, gate>>
    BY <1>5 DEF Environment, shared
  <2>. QED BY <2>1, <2>2 DEF Typed, JobTyped, TaskFits, CacheTyped, LedgerTyped, PilotTyped,
       GateTyped
<1>6. ASSUME NEW q \in Open, PipelineStep(q), UNCHANGED <<task, pilot, gate>> PROVE Typed'
  <2>1. q \in Requests /\ JobKeyed(q, job[q]) /\ JobTyped(job[q]) /\ Frame(q)
        /\ CacheTyped /\ LedgerTyped /\ schema \in 0..MaxSchema /\ now \in 0..MaxTime
    BY <1>1, <1>6, PipelineFrame DEF Open, Typed
  <2>2. At(q, "lookup") => CacheKey(q) \in DOMAIN cache
    BY <1>1, <2>1, KeyKnown DEF At, CacheSound
  <2>3. JobTyped(job'[q])
    BY <1>1, <1>6, <2>1, <2>2, PipelineTyped
  <2>4. CacheTyped' /\ LedgerTyped'
    BY <1>1, <1>6, <2>1, PipelineCacheTyped, PipelineLedger
  <2>5. UNCHANGED now /\ UNCHANGED schema /\ loop' \in {loop, q, Idle}
    BY <1>6, PipelineCache, LoopGoes
  <2>6. PilotTyped'
    BY <1>6 DEF Typed, PilotTyped
  <2>7. q \in Tasks => TaskFits(q, job'[q], task[q])
    BY <1>1, <1>6, <2>1, PipelineFits
  <2>. QED BY <1>1, <1>2, <1>6, <2>1, <2>3, <2>4, <2>5, <2>6, <2>7, TypedFrame
<1>7. ASSUME NEW q \in Requests,
             EndpointStep(q) \/ TaskStep(q) \/ PilotStep(q) \/ ArrivePreflight(q) \/ ArriveCheck(q)
      PROVE  /\ UNCHANGED now /\ UNCHANGED schema /\ loop' \in {loop, q, Idle}
             /\ CacheTyped' /\ LedgerTyped'
  BY <1>7, NoCache, NoLedger, LoopGoes DEF Typed, CacheTyped, LedgerTyped
<1>8. ASSUME NEW q \in Open, EndpointStep(q), UNCHANGED <<task, pilot, gate>> PROVE Typed'
  <2>1. q \in Requests /\ Frame(q)
    BY <1>8, EndpointFrame DEF Open
  <2>2. JobTyped(job'[q]) /\ q \notin Tasks /\ PilotTyped'
    BY <1>1, <1>8, <2>1, EndpointTyped, TasksOnly DEF Typed, PilotTyped
  <2>. QED BY <1>1, <1>2, <1>7, <1>8, <2>1, <2>2, TypedFrame
<1>9. ASSUME NEW q \in Open, ArrivePreflight(q) \/ ArriveCheck(q), UNCHANGED task PROVE Typed'
  <2>1. q \in Requests /\ Frame(q)
    BY <1>9, PilotFrame DEF Open
  <2>2. UNCHANGED pilot
    BY <1>9 DEF ArrivePreflight, ArriveCheck
  <2>3. JobTyped(job'[q]) /\ q \notin Tasks /\ PilotTyped'
    BY <1>1, <1>9, <2>1, <2>2, PilotJobTyped, TasksOnly DEF Typed, PilotTyped
  <2>. QED BY <1>1, <1>2, <1>7, <1>9, <2>1, <2>3, TypedFrame
<1>10. ASSUME NEW q \in Open \cap Pilots, PilotStep(q), UNCHANGED task PROVE Typed'
  <2>1. q \in Requests /\ Frame(q)
    BY <1>10, PilotFrame DEF Open
  <2>2. JobTyped(job'[q]) /\ q \notin Tasks
    BY <1>1, <1>10, <2>1, PilotJobTyped, TasksOnly DEF Typed
  <2>3. PilotTyped'
    BY <1>1, <1>10, <2>1, PilotStepTyped DEF Typed
  <2>. QED BY <1>1, <1>2, <1>7, <1>10, <2>1, <2>2, <2>3, TypedFrame
<1>11. ASSUME NEW q \in Open \cap Tasks, TaskStep(q), UNCHANGED <<pilot, gate>> PROVE Typed'
  <2>1. q \in Requests /\ Frame(q) /\ TaskFrame(q)
    BY <1>1, <1>11, TaskStepMeans, RunEndsMeans, RunRaisesMeans DEF RunStep
  <2>2. JobTyped(job'[q]) /\ TaskFits(q, job'[q], task'[q])
    BY <1>1, <1>11, <2>1, TaskStepFits
  <2>3. PilotTyped'
    BY <1>11 DEF Typed, PilotTyped
  <2>4. task' = task \/ \E t : task' = [task EXCEPT ![q] = t]
    BY <1>11, TaskWrites
  <2>. QED BY <1>1, <1>2, <1>7, <1>11, <2>1, <2>2, <2>3, <2>4, TypedFrame
<1>. QED BY <1>3, <1>4, <1>5, <1>6, <1>8, <1>9, <1>10, <1>11 DEF Next

\* Everything begins as what it is.
LEMMA InitTyped ==
  ASSUME NL2SQLRequestsAssumption, LLMBudgetAssumption, Init
  PROVE  Typed
<1>1. /\ now = 0 /\ schema = 0 /\ loop = Idle /\ gate = NoAnswer
      /\ spent = [s \in Scopes |-> 0] /\ cache = [k \in Keys |-> NoEntry]
      /\ told = [w \in Callers |-> 0] /\ lost = [w \in Accounts |-> 0]
      /\ recorded = [w \in Callers |-> 0]
      /\ pilot = [r \in Pilots |-> NewPilot] /\ task = [r \in Tasks |-> NewTask]
      /\ \A r \in Requests : job[r] = NewJob \/ job[r] = [NewJob EXCEPT !.at = "absent"]
  BY DEF Init, InitPilots, InitTasks, InitRequests, InitBudget
<1>2. CacheTyped /\ LedgerTyped /\ GateTyped
  BY <1>1 DEF CacheTyped, LedgerTyped, GateTyped
<1>3. NewPilot \in PilotStates
  <2>1. <<>> \in Seq([called : BOOLEAN, fallback : BOOLEAN, passed : BOOLEAN,
                      cost : Costs \cup {0}])
    OBVIOUS
  <2>. QED BY <2>1 DEF NewPilot, PilotStates
<1>4. NewTask \in TaskStates
  <2>1. <<>> \in Seq(RunModes) /\ <<>> \in Seq(Runs) /\ 0 \in 0..4
    OBVIOUS
  <2>. QED BY <2>1 DEF NewTask, TaskStates
<1>5. PilotTyped /\ task \in [Tasks -> TaskStates]
  BY <1>1, <1>3, <1>4 DEF PilotTyped
<1>6. ASSUME NEW r \in Requests PROVE JobTyped(job[r])
  <2>1. JobTyped(NewJob) /\ JobTyped([NewJob EXCEPT !.at = "absent"])
    <3>1. "absent" \in Points \ {"record"} /\ NewJob.at = "new"
      BY DEF Points, NewJob
    <3>2. NewJob \in Jobs /\ JobTyped([NewJob EXCEPT !.at = "absent"])
      BY <3>1, NewJobTyped
    <3>. QED BY <3>1, <3>2 DEF JobTyped
  <2>. QED BY <1>1, <2>1, Zenon
<1>7. ASSUME NEW r \in Tasks PROVE TaskFits(r, job[r], task[r])
  <2>1. r \in Requests /\ task[r] = NewTask
    BY <1>1 DEF Tasks
  <2>2. job[r].at \in {"new", "absent"} /\ job[r].who = "nl2sql"
    <3>1. /\ NewJob.at = "new" /\ [NewJob EXCEPT !.at = "absent"].at = "absent"
          /\ NewJob.who = "nl2sql" /\ [NewJob EXCEPT !.at = "absent"].who = "nl2sql"
      BY DEF NewJob
    <3>2. job[r] = NewJob \/ job[r] = [NewJob EXCEPT !.at = "absent"]
      BY <1>1, <2>1, Zenon
    <3>. QED BY <3>1, <3>2
  <2>3. Early(job[r]) /\ ~Routes(job[r]) /\ ~Plans(job[r]) /\ ~Executes(job[r])
        /\ job[r].at # "next"
    BY <2>2 DEF Early, Routes, Plans, Executes, Consults
  <2>4. NewTask.runs = <<>> /\ ~NewTask.fallback /\ NewTask.adopted = 0 /\ NewTask.todo = <<>>
    BY DEF NewTask
  <2>5. <<>> \in CascadeLeft
    BY DEF CascadeLeft
  <2>. QED BY <1>4, <2>1, <2>3, <2>4, <2>5 DEF TaskFits
<1>. QED BY <1>1, <1>2, <1>5, <1>6, <1>7 DEF Typed, LLMBudgetAssumption, NL2SQLRequestsAssumption

\* Everything in the service is always of its type: a provider is not asked more
\* often than its retries allow, and the run that a task reports is one of at most
\* four, those of a cascade behind a first mode that failed.
THEOREM LLMServiceTyped == Spec => []TypeOK
<1>1. Init => Keyed /\ Typed
  BY InitKeyed, InitTyped, NL2SQLRequestsAssumption, LLMBudgetAssumption
<1>2. Keyed /\ Typed /\ [Next]_pilotVars => (Keyed /\ Typed)'
  BY KeyedStep, TypedStep, KeysAssumption, NL2SQLRequestsAssumption, LLMBudgetAssumption,
     TaskModesAssumption
<1>3. Keyed /\ Typed => TypeOK
  BY DEF Keyed, Shape, Typed, TypeOK, JobTyped, CacheTyped, LedgerTyped, PilotTyped, GateTyped
<1>. QED BY <1>1, <1>2, <1>3, PTL DEF Spec

=============================================================================
