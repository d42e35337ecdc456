--------------------------- MODULE NL2SQLRequests ---------------------------
(***************************************************************************)
(* Requests that call a language model: the NL2SQL endpoints and their     *)
(* stream, the two evaluations, and (TaskModes) the tasks.                 *)
(*                                                                         *)
(* Every handler but one is a coroutine that never awaits: it holds the    *)
(* event loop from its first step to its last.  The exception is the       *)
(* stream, a generator that a thread of the pool advances from one yield   *)
(* to the next, so that its steps interleave with everything else.         *)
(*                                                                         *)
(* SQL text, prompts and reasoning are left out: what is kept of a result  *)
(* is who made it, whether the guard let it through, and for which query   *)
(* and schema.  told, lost and recorded are history variables: of what the *)
(* provider charged for each kind of call, the part that its class tells   *)
(* the caller and the part that it does not; and what was put down to the  *)
(* budget.                                                                 *)
(***************************************************************************)
EXTENDS LLMBudget, FiniteSets, Functions, Sequences

CONSTANTS
  Requests,
  Kind,        \* of each request: preview, execute, stream, judge, eval, task;
               \* preflight, pilot, dry_run (LLMPilot)
  Query,       \* of each request
  Provider,    \* of each request: litellm, openai_compatible, fake, mock
               \* (generator=mock: none), unconfigured, unknown
  DefaultProvider, \* settings.llm_provider, of whoever does not name one
  FallbackToMock, \* requests with fallback_to_mock = TRUE
  Injected,    \* requests that PromptInjectionGuard blocks
  Templated,   \* queries for which the mock generator has a template
  Cases,       \* the evaluation cases of each evaluation and pilot: normal, dangerous
  BadCases,    \* the queries of the bad cases
  BaseUrl,     \* requests whose provider is given a base URL
  MaxRetries,  \* settings.llm_max_retries, settings.judge_max_retries
  Costs,       \* what the provider may charge for an answer
  MaxSchema,   \* bound: how often the database changes its schema
  Workloads,   \* bound: the sets of requests that come together
  Idle, NoAnswer

ASSUME NL2SQLRequestsAssumption ==
  /\ MaxRetries \in Nat /\ MaxSchema \in Nat
  /\ IsFiniteSet(Requests)
  /\ Costs \subseteq Nat /\ \E dearest \in Costs : \A c \in Costs : c <= dearest
  /\ BaseUrl \subseteq Requests
  /\ \A r \in DOMAIN Cases : Cases[r] \in Seq({"normal", "dangerous"})
  /\ FallbackToMock \subseteq Requests /\ Injected \subseteq Requests
  /\ Idle \notin Requests /\ NoAnswer \notin [usable : BOOLEAN, cost : Nat]
  /\ Workloads \subseteq SUBSET Requests
  /\ BadCases \in Seq(Range(BadCases)) \ {<<>>}

\* _store takes every key that a request can come to.
ASSUME KeysAssumption ==
  \A r \in Requests, s \in 0..MaxSchema :
    /\ /\ Kind[r] \in {"preview", "execute", "stream", "task"}
       /\ Provider[r] \notin {"mock", "unknown", "unconfigured"}
       => <<"nl2sql", Query[r], Provider[r], s>> \in Keys
    /\ Kind[r] = "judge" =>
         \A i \in DOMAIN BadCases : <<"judge", BadCases[i], Provider[r], s>> \in Keys

VARIABLES
  job,      \* where each request is
  loop,     \* the request that holds the event loop
  schema,   \* of the database that is queried
  told, lost, recorded

shared == <<now, spent, cache>>
vars == <<shared, job, loop, schema, told, lost, recorded>>

Streams == {r \in Requests : Kind[r] = "stream"}
Callers ==
  {"nl2sql", "judge", "eval", "route", "plan", "preflight", "probe", "pilot"}
\* Those for whom every cost they are told is put down, in the budget or in a
\* report.  What the others lose is left out.
Accounts == {"nl2sql", "pilot"}

\* What _generate returns.
Result(by, allowed, r, s) ==
  [by |-> by, allowed |-> allowed, query |-> Query[r], schema |-> s]
NoResult == [by |-> "nobody", allowed |-> FALSE, query |-> "none", schema |-> 0]

\* A request: its next step, who is calling the model, the schema it has read,
\* the attempts of the provider, the answer, the result, where it came from and
\* since when it was kept, and of an evaluation the number of the case and
\* whether it is at its second round.
NewJob == [at |-> "new", who |-> "nl2sql", schema |-> 0, attempt |-> 0,
           answer |-> NoAnswer, result |-> NoResult, via |-> "none",
           stored |-> 0, case |-> 0, again |-> FALSE]

InitRequests ==
  /\ InitBudget
  /\ \E comes \in Workloads :
       job = [r \in Requests |->
                IF r \in comes THEN NewJob ELSE [NewJob EXCEPT !.at = "absent"]]
  /\ loop = Idle
  /\ schema = 0
  /\ told = [w \in Callers |-> 0]
  /\ lost = [w \in Accounts |-> 0]
  /\ recorded = [w \in Callers |-> 0]

At(r, p) == job[r].at = p
Goto(r, p) == job' = [job EXCEPT ![r].at = p]
Update(r, j) == job' = [job EXCEPT ![r] = j]
\* create_provider succeeds.
Makes(provider) == provider \in {"litellm", "openai_compatible", "fake"}
\* The coordinator and the planner ask for the default.
Asked(r) == IF job[r].who \in {"route", "plan"} THEN DefaultProvider ELSE Provider[r]
Take(r) == loop = Idle /\ loop' = r

\* The end of a request, whose locals are gone.
End(r, p) == Update(r, [NewJob EXCEPT !.at = p])

-----------------------------------------------------------------------------
(* NL2SQLPipeline._generate, up to the call of the provider.               *)

\* MockNL2SQLGenerator.generate: all of its templates pass the guard.
Mock(by, r, s) == Result(by, Query[r] \in Templated, r, s)

\* What takes the place of an answer of the model: the mock generator, or a
\* result that the guard did not let through.
Unavailable(r, s) ==
  IF r \in FallbackToMock THEN Mock("mock_fallback", r, s)
  ELSE Result("llm", FALSE, r, s)

\* The schema is read, and the provider made.
Generate(r) ==
  /\ At(r, "generate")
  /\ LET made(result) == Update(r, [job[r] EXCEPT !.at = "made", !.schema = schema,
                                                  !.result = result]) IN
     CASE Provider[r] = "mock" ->
            made(Mock("mock", r, schema))
       [] Provider[r] = "unknown" -> made(Result("llm", FALSE, r, schema))
       [] Provider[r] = "unconfigured" -> made(Unavailable(r, schema))
       [] OTHER -> Update(r, [job[r] EXCEPT !.at = "check", !.schema = schema])
  /\ UNCHANGED <<shared, loop, schema, told, lost, recorded>>

\* The database cannot be read: the pipeline raises.
GenerateRaises(r) ==
  /\ At(r, "generate")
  /\ Goto(r, "raised")
  /\ UNCHANGED <<shared, loop, schema, told, lost, recorded>>

\* _fallback_or_unavailable: the fake judge decides, or nobody does.
JudgeUnavailable(r) == [job[r] EXCEPT !.at = "judged"]

\* Where a caller goes on without the model.
Without(r) ==
  CASE job[r].who = "judge" -> JudgeUnavailable(r)
    [] job[r].who = "nl2sql" ->
         [job[r] EXCEPT !.at = "made", !.result = Unavailable(r, job[r].schema)]
    [] OTHER -> [job[r] EXCEPT !.at = "answered"]

\* check_budget, before the cache is asked: who is over the budget gets no
\* cached result either.
Check(r) ==
  /\ At(r, "check")
  /\ IF CheckBudget THEN Goto(r, "lookup") ELSE Update(r, Without(r))
  /\ UNCHANGED <<shared, loop, schema, told, lost, recorded>>

\* What the model is asked about.
Subject(r) == IF job[r].who = "judge" THEN BadCases[job[r].case] ELSE Query[r]

\* Faulty: one key for every schema.
CacheKeyWithoutSchema(r) == <<job[r].who, Subject(r), Provider[r], 0>>

\* build_nl2sql_cache_key, build_judge_cache_key.  fallback_to_mock is no part
\* of the key.
CacheKey(r) == <<job[r].who, Subject(r), Provider[r], job[r].schema>>

LookupHit(r) ==
  /\ At(r, "lookup")
  /\ Hit(CacheKey(r))
  /\ LET kept == cache[CacheKey(r)].value IN
     Update(r, [job[r] EXCEPT !.at = IF job[r].who = "judge" THEN "judged" ELSE "made",
                              !.result = kept.result, !.via = "cache",
                              !.stored = kept.at])
  /\ UNCHANGED <<now, spent, loop, schema, told, lost, recorded>>

\* The judge makes its provider only now.
LookupMiss(r) ==
  /\ At(r, "lookup")
  /\ Miss(CacheKey(r))
  /\ IF Makes(Provider[r]) THEN Goto(r, "call") ELSE Update(r, Without(r))
  /\ UNCHANGED <<now, spent, loop, schema, told, lost, recorded>>

-----------------------------------------------------------------------------
(* The provider: generate_with_metadata.                                   *)

\* import: the library is not installed.
Errors == {"import", "auth", "timeout", "rate_limit", "model", "response"}

\* Faulty: an unusable answer is not put down.
NextOfAnswerUsableOnly(r, usable) ==
  CASE job[r].who = "nl2sql" -> IF usable THEN "record" ELSE "store"
    [] job[r].who = "judge" -> IF usable THEN "record" ELSE "judged"
    [] OTHER -> "answered"

\* Who puts the cost of an answer down to the budget: the generator whatever
\* the answer is worth, the judge when it can read it, the others never.
NextOfAnswer(r, usable) ==
  CASE job[r].who = "nl2sql" -> "record"
    [] job[r].who = "judge" -> IF usable THEN "record" ELSE "judged"
    [] OTHER -> "answered"

\* What SQLGuard.check finds in a statement; it lets through what has none of it.
Flaws == {"empty", "several_statements", "keyword_in_comment", "keyword", "no_select"}
Guard(flaws) == flaws = {}

\* What _parse_response finds in an answer before it asks the guard, and what
\* answers it can use.
Unreadable == {"no_json", "no_object", "no_sql", "empty_sql", "dangerous"}
Contents == [reading : Unreadable, flaws : {{}}] \cup [reading : {"sql"}, flaws : SUBSET Flaws]
Usable(content) == content.reading = "sql" /\ Guard(content.flaws)

\* The provider charges for what its class does not tell the caller.
Untold(r, loses) ==
  lost' = [w \in Accounts |-> IF w = job[r].who THEN lost[w] + loses ELSE lost[w]]

\* What the provider charges, and how much of it its class tells the caller.
Charge(r, tells, loses) ==
  /\ told' = [told EXCEPT ![job[r].who] = @ + tells]
  /\ Untold(r, loses)

\* An answer: a query that the guard lets through, or of no use.
Answered(r, usable, cost, loses) ==
  /\ Update(r, [job[r] EXCEPT
       !.at = NextOfAnswer(r, usable),
       !.answer = [usable |-> usable, cost |-> cost], !.via = "provider",
       !.result = IF job[r].who # "nl2sql" THEN @
                  ELSE IF usable THEN Result("llm", TRUE, r, job[r].schema)
                  ELSE Unavailable(r, job[r].schema)])
  /\ Charge(r, cost, loses)

\* An answer that comes over the network may be anything.
Usefulness == {Usable(content) : content \in Contents}
AnyAnswer(r, cost, loses) == \E usable \in Usefulness : Answered(r, usable, cost, loses)

\* FakeLLMProvider: its keywords match every prompt of the generator.
FakeAnswers(r) ==
  /\ At(r, "call") /\ Asked(r) = "fake"
  /\ Answered(r, TRUE, 0, 0)
  /\ UNCHANGED <<shared, loop, schema, recorded>>

\* LiteLLM alone tells what an answer costs (response_cost), if it knows.
LiteLLMAnswers(r) ==
  /\ At(r, "call") /\ Asked(r) = "litellm"
  /\ \E cost \in Costs : AnyAnswer(r, cost, 0) \/ AnyAnswer(r, 0, cost)
  /\ UNCHANGED <<shared, loop, schema, recorded>>

\* _parse_openai_chat_payload: cost=0.0, whatever the provider charges.
UnpricedAnswer(r) == \E cost \in Costs : AnyAnswer(r, 0, cost)

OpenAIAnswers(r) ==
  /\ At(r, "call") /\ Asked(r) = "openai_compatible"
  /\ UnpricedAnswer(r)
  /\ UNCHANGED <<shared, loop, schema, recorded>>

\* Without an answer there is no cost to put down, and the generator goes
\* straight on to the cache.
Failed(r) ==
  IF job[r].who = "nl2sql" THEN [Without(r) EXCEPT !.at = "store"] ELSE Without(r)

\* max_retries of the provider: the preflight allows itself one at most.
Attempts(r) ==
  IF job[r].who = "preflight" /\ MaxRetries > 1 THEN 1 ELSE MaxRetries

\* Faulty: one attempt too many.
RetriesOnceMore(r, e) == e # "import" /\ job[r].attempt <= Attempts(r)

\* A failed attempt is repeated, but a missing library is not.
Retries(r, e) == e # "import" /\ job[r].attempt < Attempts(r)

\* The provider has raised e.
Erred(r, e) ==
  Update(r, IF Retries(r, e) THEN [job[r] EXCEPT !.attempt = @ + 1] ELSE Failed(r))

\* An answer that cannot be read, or that came too late, may have been charged;
\* what raises hands on no cost, not even one that LiteLLM has told
\* (_normalize_response).
Wasted(r, e) ==
  /\ \E cost \in (IF e \in {"response", "timeout"} THEN Costs ELSE {}) \cup {0} :
       Untold(r, cost)
  /\ UNCHANGED told

\* LiteLLM tries again whatever the server's error, except that with a base URL
\* it turns to its last resort when it cannot read the answer.
LiteLLMErrs(r) ==
  /\ At(r, "call") /\ Asked(r) = "litellm"
  /\ \E e \in Errors :
       /\ IF r \in BaseUrl /\ e = "response" THEN Goto(r, "compatible") ELSE Erred(r, e)
       /\ Wasted(r, e)
  /\ UNCHANGED <<shared, loop, schema, recorded>>

\* RETRYABLE_ERRORS: the other provider gives up at once on what another attempt
\* cannot mend.
Retryable == {"timeout", "rate_limit", "response"}
OpenAIErrs(r) ==
  /\ At(r, "call") /\ Asked(r) = "openai_compatible"
  /\ \E e \in Errors :
       /\ IF e \in Retryable THEN Erred(r, e) ELSE Update(r, Failed(r))
       /\ Wasted(r, e)
  /\ UNCHANGED <<shared, loop, schema, recorded>>

\* _generate_openai_compatible: LiteLLM's last resort, tried once.
CompatibleAnswers(r) ==
  /\ At(r, "compatible")
  /\ UnpricedAnswer(r)
  /\ UNCHANGED <<shared, loop, schema, recorded>>

CompatibleErrs(r) ==
  /\ At(r, "compatible")
  /\ \E e \in Errors : Wasted(r, e)
  /\ Update(r, Failed(r))
  /\ UNCHANGED <<shared, loop, schema, recorded>>

-----------------------------------------------------------------------------
(* What is done with an answer.                                            *)

Record(r) ==
  /\ At(r, "record")
  /\ RecordUsage(job[r].answer.cost)
  /\ recorded' = IF BudgetEnabled
                 THEN [recorded EXCEPT ![job[r].who] = @ + job[r].answer.cost]
                 ELSE recorded
  /\ Goto(r, "store")
  /\ UNCHANGED <<now, cache, loop, schema, told, lost>>

\* Faulty: keeps whatever was generated.
WorthKeepingAll(r) == TRUE

\* generator_used = "llm": a result of the mock is not kept, but a failure
\* without a fallback is.
WorthKeeping(r) == job[r].who = "judge" \/ job[r].result.by = "llm"

Store(r) ==
  /\ At(r, "store")
  /\ IF WorthKeeping(r)
     THEN Keep(CacheKey(r), [result |-> job[r].result, at |-> now])
     ELSE UNCHANGED cache
  /\ Goto(r, IF job[r].who = "judge" THEN "judged" ELSE "made")
  /\ UNCHANGED <<now, spent, loop, schema, told, lost, recorded>>

\* summarize_llm_acceptance: whether a real model was called is inferred from
\* what came of it, and the cost is that of the answer, usable or not.
Summarize(real, fallback, hit, answer) ==
  LET attempted == real /\ ~fallback /\ ~hit IN
  [attempted |-> attempted,
   succeeded |-> attempted /\ answer # NoAnswer,
   cost      |-> IF hit \/ answer = NoAnswer THEN 0 ELSE answer.cost]

\* _finalize_llm_result: what the reply says of the call, and the audit with it.
Acceptance(r) ==
  Summarize(Provider[r] \notin {"mock", "fake"}, job[r].result.by = "mock_fallback",
            job[r].via = "cache", job[r].answer)

-----------------------------------------------------------------------------
(* The endpoints.  What a coroutine does it does while it holds the loop.  *)

\* PromptInjectionGuard.check
InjectionBlocks(r) == r \in Injected
Blocked(r) == [job[r] EXCEPT !.at = "made"]

\* preview_nl2sql, execute_nl2sql.
Arrive(r) ==
  /\ At(r, "new") /\ Kind[r] \in {"preview", "execute"}
  /\ Take(r)
  /\ IF InjectionBlocks(r) THEN Update(r, Blocked(r)) ELSE Goto(r, "generate")
  /\ UNCHANGED <<shared, schema, told, lost, recorded>>

\* FakeJudge: it needs no model.
FakeJudges(r) == Provider[r] = "fake"

\* _run_case: a judge evaluates the next bad case.
JudgeCase(r) ==
  Update(r, [NewJob EXCEPT !.who = "judge", !.case = job[r].case + 1,
                           !.at = IF FakeJudges(r) THEN "judged" ELSE "check"])

\* run_bad_cases: the judge is made, its provider not yet.
ArriveBadCases(r) ==
  /\ At(r, "new") /\ Kind[r] = "judge"
  /\ Take(r) /\ JudgeCase(r)
  /\ UNCHANGED <<shared, schema, told, lost, recorded>>

\* BadCaseRunner.run
NextBadCase(r) ==
  /\ At(r, "judged") /\ job[r].case < Len(BadCases)
  /\ JudgeCase(r)
  /\ UNCHANGED <<shared, loop, schema, told, lost, recorded>>

\* _create_generator: there is a model, or the mock.
Generator(r) ==
  \/ Makes(Provider[r]) \/ Provider[r] = "mock"
  \/ Provider[r] = "unconfigured" /\ r \in FallbackToMock

\* run_nl2sql_eval: the generator alone, without budget and cache.
ArriveEval(r) ==
  /\ At(r, "new") /\ Kind[r] = "eval"
  /\ Take(r)
  /\ Update(r, [job[r] EXCEPT !.who = "eval",
                              !.at = IF Generator(r) THEN "evaluate" ELSE "made"])
  /\ UNCHANGED <<shared, schema, told, lost, recorded>>

\* The schema cannot be read, at the beginning or to explain a failure.
EvalRaises(r) ==
  /\ \/ At(r, "evaluate") /\ (job[r].case = 0 \/ ~Makes(Provider[r]))
     \/ At(r, "answered") /\ job[r].who = "eval" /\ ~job[r].again
  /\ Goto(r, "raised")
  /\ UNCHANGED <<shared, loop, schema, told, lost, recorded>>

\* The next case.  Of a dangerous one the guard is asked, and nobody else.
EvaluateCase(r) ==
  /\ At(r, "evaluate") /\ job[r].case < Len(Cases[r])
  /\ Update(r, [NewJob EXCEPT
       !.who = "eval", !.case = job[r].case + 1,
       !.at = IF Makes(Provider[r]) /\ Cases[r][job[r].case + 1] = "normal"
              THEN "call" ELSE "evaluate"])
  /\ UNCHANGED <<shared, loop, schema, told, lost, recorded>>

CaseEvaluated(r) ==
  /\ At(r, "answered") /\ job[r].who = "eval"
  /\ Goto(r, "evaluate")
  /\ UNCHANGED <<shared, loop, schema, told, lost, recorded>>

\* _get_failure_reason: to tell why a case failed the evaluation generates once
\* more.
ExplainFailure(r) ==
  /\ At(r, "answered") /\ job[r].who = "eval" /\ ~job[r].again
  /\ Update(r, [job[r] EXCEPT !.at = "call", !.attempt = 0, !.again = TRUE])
  /\ UNCHANGED <<shared, loop, schema, told, lost, recorded>>

\* What a handler that may reply has come to.
Replies(r) ==
  \/ At(r, "made") \/ At(r, "raised")
  \/ At(r, "judged") /\ job[r].case = Len(BadCases)
  \/ At(r, "evaluate") /\ job[r].case = Len(Cases[r])
  \/ At(r, "answered") /\ job[r].who = "preflight"

\* The handler returns, or raises.
Reply(r) ==
  /\ loop = r /\ Kind[r] # "task" /\ Replies(r)
  /\ End(r, "done")
  /\ loop' = Idle
  /\ UNCHANGED <<shared, schema, told, lost, recorded>>

\* The stream starts, and has sent its first events; between two events it
\* waits for the loop.
OpenStream(r) ==
  /\ At(r, "new") /\ Kind[r] = "stream"
  /\ loop = Idle
  /\ IF InjectionBlocks(r) THEN Update(r, Blocked(r)) ELSE Goto(r, "opened")
  /\ UNCHANGED <<shared, loop, schema, told, lost, recorded>>

AdvanceStream(r) ==
  /\ At(r, "opened") /\ loop = Idle
  /\ Goto(r, "generate")
  /\ UNCHANGED <<shared, loop, schema, told, lost, recorded>>

\* The rest of the events; what the pipeline raised is one of them.
FinishStream(r) ==
  /\ At(r, "made") \/ At(r, "raised")
  /\ Kind[r] = "stream" /\ loop = Idle
  /\ End(r, "done")
  /\ UNCHANGED <<shared, loop, schema, told, lost, recorded>>

\* GeneratorExit: the client has gone.  It reaches the generator at a yield.
Disconnect(r) ==
  /\ At(r, "opened") \/ At(r, "made")
  /\ Kind[r] = "stream" /\ loop = Idle
  /\ End(r, "gone")
  /\ UNCHANGED <<shared, loop, schema, told, lost, recorded>>

-----------------------------------------------------------------------------
PipelineStep(r) ==
  \/ Generate(r) \/ GenerateRaises(r)
  \/ Check(r) \/ LookupHit(r) \/ LookupMiss(r)
  \/ FakeAnswers(r) \/ LiteLLMAnswers(r) \/ LiteLLMErrs(r)
  \/ OpenAIAnswers(r) \/ OpenAIErrs(r)
  \/ CompatibleAnswers(r) \/ CompatibleErrs(r)
  \/ Record(r) \/ Store(r)

EndpointStep(r) ==
  \/ Arrive(r) \/ Reply(r)
  \/ ArriveBadCases(r) \/ NextBadCase(r)
  \/ ArriveEval(r) \/ EvalRaises(r) \/ EvaluateCase(r) \/ CaseEvaluated(r) \/ ExplainFailure(r)
  \/ OpenStream(r) \/ AdvanceStream(r) \/ FinishStream(r) \/ Disconnect(r)

\* Time passes, and the database is seeded anew.
Environment ==
  \/ Tick /\ UNCHANGED <<spent, cache, job, loop, schema, told, lost, recorded>>
  \/ /\ schema < MaxSchema /\ schema' = schema + 1
     /\ UNCHANGED <<shared, job, loop, told, lost, recorded>>
=============================================================================
