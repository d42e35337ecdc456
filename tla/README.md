# A formal model of the multi-agent runtime

TLA+ modules, TLC configurations and TLAPS proofs for the runtime under `app/`:
a FastAPI application in which an agent kernel plans and executes tool calls,
stops at high-risk ones, asks a person for approval, and resumes the blocked
call once it is approved.

## 1. The system

### Components, their state and operations

| Component | State | Operations | Talks to |
|---|---|---|---|
| Agent kernel (`app/agent/graph/kernel.py`, `app/api/tasks.py`) | a task while its request runs | `create_task`, `run_with_options` in the modes keyword, nl2sql, multitool, multi_agent, auto | planner, policy engine, gateway, pipelines, approval and task store |
| Graph runtime adapter and resume adapter (`app/agent/graph/`) | checkpoints of a keyword run | `run_keyword`, `resume` | checkpoint, approval and task store, gateway |
| Multi-tool pipeline (`app/services/multitool_pipeline.py`) | results of the steps so far | `run` | gateway, policy engine, approval store |
| Approval API and console (`app/api/approvals.py`, `app/api/approval_ui.py`) | none | approve (with or without auto-resume), reject, manual resume | approval, task and checkpoint store, audit, resume service |
| Approval resume service (`app/services/approval_resume.py`) | none | `resume` in the modes keyword, multitool, graph_keyword | all stores, gateway |
| Approval, task and checkpoint stores (`app/storage/`) | tables in SQLite or PostgreSQL | create, decide, `update_payload`; `save_task`, `update_task_status`; create, claim, mark | a connection or session per call |
| Tool gateway (`app/harness/gateway/tool_gateway.py`) | registry | `call`, with retries | local tools, MCP clients |
| Stdio MCP client (`app/tools/mcp/stdio_client.py`) | child process, request id, counters | `list_tools`, `call_tool`, `close`, restart | an MCP server over pipes; a stderr thread |
| Rate limiter (`app/core/request_guards.py`, `app/cache/redis_client.py`) | hits per key in each process; a counter per minute in Redis; the cached Redis client | `allow` in Redis or in memory; the health check | Redis |
| LLM budget and cache (`app/harness/llm/budget.py`, `cache.py`) | cost per scope (a day, an hour), cached results with an expiry | `check_budget`, `record_usage`; `get`, `set` | every NL2SQL request and judge of the process |
| LLM provider (`app/agent/nl2sql/provider.py`, `llm_generator.py`) | none | `generate_with_metadata` with retries and, in LiteLLM, a last resort; the reading of an answer | an HTTP API |
| NL2SQL (`app/services/nl2sql_pipeline.py`, `app/agent/nl2sql/`, `app/api/nl2sql.py`) | none | preview, execute, stream: schema, budget, cache, model, guard | provider, budget, cache, a read-only database |
| Multi-agent roles (`app/agent/multi_agent/`) | decisions of one run | coordinate, analyse, execute, review, fall back once | the pipelines, the default provider |
| Evaluation (`app/harness/eval/`, `app/api/bad_cases.py`) | none | runs of bad cases with a judge, NL2SQL evaluation | judge: budget, cache, provider; evaluation: provider alone |
| Pilot (`scripts/run_llm_pilot.py`, `app/harness/llm/pilot_report.py`) | records of one run, two report files | admission, probe, cases, summary, reports | provider, in a process of its own |
| Deployment gate, preflight, OIDC and audit settings (`app/core/deployment_guard.py`, `app/harness/llm/preflight.py`, `app/auth/oidc_config.py`, `app/harness/audit/retention.py`) | none | each checks the same settings by itself | the environment; the preflight also a provider |
| Audit, trace, metrics, memory, skills (`app/harness/`) | append-only logs, session windows | record, list | a store |
| Auth, reports, console | | permission checks; views | the stores |

### What is hard about it

* **Interleaving.** A handler is an `async def` without an `await`, so inside one
  process a request runs to its end. Several processes share the stores, and
  there each store call is a step of its own: between a read and the write that
  depends on it, anything may happen.
* **Crashes.** A resume writes the tool's effect, the task, the checkpoint and
  the approval one after the other, without a transaction around them.
* **Two backends.** `decide_approval` is guarded in SQLite by a `WHERE` clause
  whose row count nobody reads, in PostgreSQL by a select before an update by
  primary key.
* **Protocol.** A plan is executed in pieces, each under an approval of its own;
  rejection must cascade; a consumed approval must never run again.
* **A server across a pipe.** It may answer late, twice, wrongly or never, or
  exit at any moment; the client gives up after a timeout, kills it and starts
  another, while other threads wait for the lock. It may also stop reading, and a
  write to it has no timeout.
* **One event loop beside a thread pool.** The handlers that call a model hold
  the loop while they wait for it, so that they follow one another. The stream is
  a plain generator, which a thread of the pool advances from yield to yield:
  its budget check, its call and its recording interleave with a handler's.
* **Check, then record.** The budget is looked at before a call and charged after
  it, in a scope computed anew; results are cached under a key that must name
  everything they depend on.
* **Falling back.** Redis to memory, model to mock, judge to fake judge, mode to
  mode: each fallback must keep what the way it replaces has promised, and say
  that it was taken.
* **Four checks of one configuration**, written independently.

### What makes the components correct

* Approvals: decided once; nothing runs before approval; the audit log says what
  was decided.
* Resume: the tool has its effect once; consumed means it ran; an interrupted
  resume can be repeated or concludes; task, checkpoint and approval agree.
* Graph checkpoints: claimed by one worker, once; a claim settles.
* Plans: steps in order, each once, every high-risk step under its own approval,
  completed only when whole, at most one open approval.
* Gateway and MCP client: an answer belongs to its request; a restart forgets what
  was pending; a call is executed no more often than it is attempted; every call
  returns, unless one is written to a pipe that the server never reads again.
* Rate limiter: what is admitted in a window is bounded on both paths, nobody is
  refused below the capacity, `Retry-After` is true, a fallback ends.
* Budget and cache: the limit is overrun by no more than the calls in flight; what
  the provider's class tells of a charge is put down once; a cached result is one for
  the same question and schema.
* Modes of a task: the run that succeeded is the one reported and the last; a run
  stopped by the policy is not tried another way.
* Pilot and settings: a report and an acceptance summary claim no more than what
  happened, and show the costs they were told of; settings that one check accepts do
  not fail another.

## 2. The modules

| Module | Models |
|---|---|
| `HumanGate` | the abstract promise: a request is asked for, decided once, and has its effect at most once and only when approved |
| `ApprovalDecisions` | the three stores, the decision handlers, entry and end of a resume |
| `ToolApprovals` | extends it with tasks that are one tool call: creation in keyword and graph mode, `_resume_keyword`, `GraphResumeAdapter.resume`; maps to `HumanGate` |
| `PlanApprovals` | extends it with tasks that are plans: `MultiToolPipeline.run`, `_resume_multitool`, and the modes multitool, auto and multi_agent around it |
| `ToolCalls` | what is behind the tool call of those two: `ToolGateway.call` over `StdioMCPClient`, and the server |
| `RateLimits` | `RateLimitMiddleware`, the limiter in memory and the one in Redis, the cached client and `check_redis_health`; Redis is external |
| `LLMBudget` | `LLMBudgetManager` and `LLMResultCache` |
| `NL2SQLRequests` | extends it with the requests that call a model: the provider, the generator, `NL2SQLPipeline._generate`, the NL2SQL endpoints and the stream, the runs of bad cases and of the NL2SQL evaluation |
| `TaskModes` | extends it with tasks: the sequence of runs of each mode, routing, review and fallback |
| `DeploymentChecks` | operators for every check of the settings |
| `LLMPilot` | extends both with `run_llm_pilot`, the preflight and the deployment check |
| `LLMService` | the composition: all of these requests over one loop, one budget and one cache; the properties |
| `ToolApprovalsProofs` | theorems about `ToolApprovals`: with races and faults; of one process without |
| `PlanApprovalsProofs`, `PlanShippedProofs` | theorems about `PlanApprovals`, divided in the same way |
| `ToolCallsProofs` | theorems about `ToolCalls` |
| `RateLimitsProofs` | theorems about `RateLimits` |
| `Sums` | lemmas about sums, quotients and least elements, which the two proofs with counters need |
| `LLMServiceProofs`, `LLMBudgetProofs` | theorems about `LLMService`: the tasks, the settings, the cache and the types; the budget and the evidence |
| `MCToolApprovals`, `MCPlanApprovals`, `MCToolCalls`, `MCRateLimits`, `MCLLMService` | instances for TLC |

**State.** `approvals` holds a row per approval id: status, task, mode, plan step,
and the `resumed` flag of its payload. `tasks` is the status column, `checkpoints`
the one row (`stage = "execute"`) that an interrupted graph run leaves per task,
`audited` the decision events. `job[w]` is what process `w` is serving: the next
store call (`at`) with the locals that survive until then. `calls`, `wins` and
`runs` are histories, saturating at "many" (2). `faults` counts down a budget.

**Steps.** One action is one store call (which opens its own connection and
commits) or one tool call, together with the local computation up to the next
one. The arrival of a request and its first read are one step, since nothing of
the request exists before. Requests that only read and answer are not steps.
Three actions are reads only because something depends on their value later:
`DecideRead`, `DecideSelect`, `PayloadRead`.

**Faults.** `Abort` ends a request anywhere: the process died, or a store raised
where the handler turns the exception into an answer. Where the code does more
with an exception there is an action for it: `CreateFault`, `PlanFault` (the
kernel reports a failed task), `UpdateTaskFault` (the except branch of
`_resume_keyword`), `CancelTaskFault` (`_cancel_task` swallows it). `MaxFaults`
bounds them all. A worker that was cut short is free again: it stands for the
restarted process.

**Abstractions.** Names, arguments and results are not modelled; a tool call
succeeds or fails. What the injection guard and the payload integrity check say
of a payload is the constant `Refused`, what the policy engine says is the mode
(for a tool: every modelled task is a high-risk call) or `HighRisk` (for a plan).
`Unresolved` names the steps whose arguments refer to something missing; a
`depends_on` that names earlier steps is always met and one that does not fails
like an unresolved step. `expire_old` has no caller and `expires_at` is never
set, so checkpoints do not expire. The keyword fallback of auto mode is taken
for queries in which it asks for no approval of its own. `result_json` and the
trace are left out.

**Tool calls.** `ToolCalls` stands on its own: to the approval models a call is one
step that succeeds or fails. `job[c]` is the step a call has come to inside
`ToolGateway.call` or `list_tools`, `lock` the client's `RLock`, `proc` and
`initialized` its fields, `alive`, `inbox` and `outbox` the child processes and
their pipes. A step ends where the client reads or writes a pipe, polls, starts
or kills the process, since the server moves on its own in between. The server is
external: it may answer, refuse, answer twice, late, never or with garbage, write a
line nobody asked for, stop reading, or exit. A line nobody asked for is harmless
unless it is JSON that is no object: then `_request` raises an `AttributeError` that
the client does not catch, the gateway reports the failure, and the process stays with
an answer still on its way. The next call reads that answer and turns it down by its id, so
`AnswerIsOwn` holds there too and `NothingOwed` is stated with the exception. A
discovery registers tools without a `retry_policy`; the retries are those of a tool
that is given one in the registry. Left out: the contents of
requests, the configuration errors (a constant refusal), `get_health` (it
reads), `close` (nothing under `app/` calls it), and the stderr reader: it needs
the client's lock, so that a server that fills its stderr pipe during a call
stops reading and answering, which the model's server may do anyway.

A pipe has an end to what it takes unread. `_request` and `_notify` write and flush
without a timeout while the caller holds the lock, and the length of a request is
bounded by nothing: a task's query may be of any length. So `Send` is possible only
while fewer than `Room` requests lie unread, and a call of `Long` is in the pipe, but
stays at its write until the server has read it (`Written`) or has gone
(`WriteFails`). A server that never reads again keeps it, and the lock, for good
(`Blocked`): `CallReturns` allows for this one way of not returning, and does not hold
without it: a discovery and one long call are enough. A launcher around the server
(`Wrapped`) keeps the pipes open after it has ended. The model has
the two hangs that are then certain: closing stdout behind an abandoned reader, and
reading what is left of stderr. Closing stderr may hang as well, when its reader is
in the middle of a line; more hanging takes away steps and breaks none of the safety
properties, and with `Wrapped` liveness is refuted anyway.

**Rate limits.** `hits[p]` is the window of process `p`, `conn[p]` its cached client
(none yet, a real one, or the Noop one), `count` and `expires` the counter of each
bucket in Redis and when it goes, `last` the last answer. The middleware does not
await before it has its answer, so that a request is one step of its process,
with the two calls to Redis in it: `INCR` may not arrive, or arrive and its answer
or the `EXPIRE` after it be lost, and the request is then counted in memory too.
The clock has a grain finer than a second, which is what `int()` cuts off. `passed`,
`kept`, `asked` and `restarts` are histories.

**Requests that call a model.** `job[r]` is where request `r` is and the locals that
survive until there; `loop` is the request that holds the event loop. A coroutine takes
the loop when it arrives and gives it back with its reply; a stream takes a step
whenever it pleases, but sends its events only while the loop is free, and may lose its
client there. One action is a call of the budget, of the cache or of the provider; a run
with tools is one step that is answered, fails or is blocked, since the approval models
and `ToolCalls` look into it. `spent`, `cache` and `schema` are the budget's scopes, the
result cache and a version of the database; `told`, `lost` and `recorded` are histories:
what the provider's class tells the caller of a charge, what it does not (kept for the
callers whose costs go into the budget or a report: the generator and the pilot), and
what was put down, by who called (the generator, the judge, the evaluation, the
coordinator, the planner, the preflight, the pilot). `task[t]` is what kernel or
orchestrator knows of a task: the mode, the modes to try, the outcomes, the run that is
reported.

Of an answer the model keeps whether it is of use (JSON of the right form whose SQL the
guard lets through) and the cost its provider's class puts into the metadata; the charge
itself is more than that when LiteLLM does not know the price, on the OpenAI-compatible
path (`cost=0.0` always), and when an answer that was charged, or came too late, ends in
an exception, which carries no cost. Of a result it keeps who made it, for which query
and schema, and whether the guard allows it. The guard is the set of flaws it looks for.
Queries, templates, routing rules, and which requests the injection and risk guards stop
are parameters. `Workloads` are the sets of requests that come together: all of them at
once is more than TLC can explore. The judge of a bad case is modelled, the flow a bad
case replays is not. Execution of the SQL is read-only and decides nothing: `success` is
what the guard said.

**Settings.** One record: the flags that are on, the texts that are given, weak,
https, and the rest as named in `DeploymentChecks`. Each check is a set of names of
what failed. A pilot (`pilot[r]`) runs the code from admission to the two reports;
what it reports is an operator of its records, as it is in the code. `gate` is the
answer of the last deployment check, of a process with any settings of
`Deployments`.

Operators marked "Faulty" are not part of the specifications. Each is a plausible
slip in the operator that follows it, kept to show that the properties notice.

## 3. What TLC checks

Passing runs:

| Run | Instance | Shows |
|---|---|---|
| `tool_shipped` | 1 process, SQLite, a keyword and a graph task, 3 approvals of which one is refused, no fault, fair | types; one effect; audit; the stores agree between requests; a rejection cancels; a resume concludes; a claimed checkpoint is consumed; the flow implements `HumanGate` |
| `tool_workers` | 2 processes, SQLite, a keyword and a graph task, 2 approvals, 1 fault | nothing runs unapproved, at most one graph call, exclusive claims, nothing is consumed that did not run, a decision stands |
| `plan_shipped` | 1 process, PostgreSQL, 3 plans of 4 steps with high-risk steps 2 and 4 (one can be run whole, one breaks off after its approved step, one, in multi_agent mode, at it), no fault, fair | each step once, one open approval, task and approvals agree, a resume concludes |
| `plan_workers` | 2 processes, SQLite, such a plan and one in auto mode that breaks off at its first step, 1 fault | steps in order, an approval per high-risk step, and real progress: consumed means run, completed means whole |
| `mcp_calls` | a discovery and 2 tool calls, one longer than the pipe takes and one of a tool with 1 retry, room for 2 other requests, 2 child processes, an unasked line when nothing is unread, fair | answers belong to their requests, executions per attempt, a restart greets the new server and leaves no old one behind, nothing owed at a new request, every call returns or one is being written to a pipe that is never read again |
| `rate_limits` | 2 processes, one key, Redis that comes and goes, lost answers and expiries, a restart, fair | admissions bounded on both paths, no refusal below the capacity, an honest `Retry-After`, the return to Redis |
| `llm_service` | 21 requests in 14 workloads: a stream beside other requests and tasks, runs of bad cases and of the evaluation, pilots, preflights and deployment checks over some 400 settings; a change of schema and a turn of the scope | the overrun of the budget, each charge that is told put down once, cached results are right, the reported run, no way around a gate, honest reports and summaries, checks that agree |

Runs that find a disagreement between the code and what a document or test says:

| Run | Property | Disagreement |
|---|---|---|
| `keyword_crash_repeats` | `EffectOnce` | a keyword resume cut short after the call repeats it (`docs/interview_guide.md:75`) |
| `postgres_decision_flips` | `DecisionFinal` | a racing decision overwrites the first on PostgreSQL (`tests/test_hitl_v04.py:426`) |
| `sqlite_audit_contradicts` | `AuditTellsDecision` | the losing decision of a race is audited as made on SQLite (`docs/production_policy.md:13`) |
| `wrapped_server_hangs` | `CallReturns` | when the configured command is a launcher and the server its child, killing the launcher leaves the pipe open, and closing it hangs behind the abandoned reader, as reading what is left of stderr does when the launcher has ended by itself (`tests/test_mcp_stdio_client_v31.py:271`, `app/harness/gateway/tool_gateway.py:17`) |
| `auto_completes_pending` | `PendingWaits` | auto mode completes a task whose approval is pending (`docs/interview_guide.md:35`); it takes a plan with a high-risk step, which none of the three built-in plans has unless an MCP server declares one of their tools high risk |

The first of these has two relatives that the same models reach: two processes
that resume one approval at once both pass the check of `payload.resumed`, and a
plan whose resume is cut short runs its approved step again when it is repeated
(`EffectOnce` and `StepOnce` fail with a second process or a fault).

So the guarantees of the approval flow divide as follows. In one process without faults,
everything holds but for the auto mode. With several processes or crashes, the graph
mode keeps "at most once" because its claim is one conditional update made before the
call; keyword and plan resumes keep only "nothing unapproved" and "consumed means run".
Agreement between the stores (`StoresAgree`, `PlanAgrees`) needs a single process
without faults: with two, `save_task` may put a task that was meanwhile resumed back to
`waiting_approval`. `PlanAgrees` is about multitool mode only: the other modes do not
wait for the approval.

**Bounds.** Two processes are enough for a race between any two requests, and one
of them can serve any number of requests after a fault. The properties of a tool
approval relate one approval to its own task, so one task of each mode is enough;
a second one would matter only through the workers, which the mixed instances
share. Plans have the shortest length that puts a low-risk step before and between
high-risk ones and ends with a high-risk one. There are as many
approvals as the tasks of the instance ask for without a fault. Histories stop at
two because the properties tell apart none, one and more. One fault reaches each
cut in each request; what is repeated after it then runs undisturbed, so a second
cut in the repetition is covered only by the proofs, which do not bound faults
where they allow any.
In `ToolCalls` the number of calls bounds the request ids; two calls and a discovery
let each of them meet what the one before has left in the pipes, a retry lets a
call meet its own, and two child processes let one survive the other. `MaxUnread`
lets a server write unasked only while that many lines are unread; one such line
is what a later request can stumble over. `Room` is 2, so that a handshake's notice
and a tool request fit, as they do in any pipe; one long call is enough for another
to wait behind it, and it meets a server that reads and then does not answer, one that
exits and one that does neither.
In `RateLimits` the window and the capacity are the smallest with a boundary
inside. In `LLMService` the hard limit is 2 with calls of cost 1 and an estimate of
1, so that one call in flight more than allowed overruns the bound; a scope lasts 2
ticks and entries of the cache 1, within 2 ticks altogether, so that a call can span
a turn of the scope and an entry can expire; one retry and one change of schema let
each be met at every point; every answer that costs something costs 1, told or not.
Each workload is one interplay: a stream with one other request (`AtOnce` counts the
streams, so one stands for any number), two requests with the same cache key, a task in
each mode beside a stream. Pilots, which share nothing, run alone, with a limit of 3
cases out of 4.
All passing runs explore their instance completely.

**Deadlock** is checked for `llm_service`, where every request has its reply in the
end (`Finished`). Elsewhere it is not: once every task is created and no approval is left
to ask about, the system rests until a client comes.

**Fairness.** `FairSpec` asks only that a process goes on with the request it is
serving (`WF` on `Serve`): a handler is straight-line code and the gateway always
returns. Nothing is asked of clients, and no fault is ever required. The liveness
properties of the approval flow are checked with `MaxFaults = 0`, because a request
that is cut short is not continued by anything in the code. In `ToolCalls` a thread
keeps running and gets the lock once it stays free, and a wait for an answer ends
by its timeout at the latest; a write has no timeout and ends when the server reads
or goes. Nothing is asked of the server.
In `RateLimits` the health check of the container calls `/health` every 30 seconds
(`docker-compose.yml:51`), which runs `check_redis_health`: `WF` on it. Time goes on.
`LLMService` states no liveness: its safety properties need no fairness.

**Met while modelling, and not made a run.** Two of these contradict what is written;
what they do is in the models, and the properties say where they hold:

* `_request` writes without a timeout under the client's lock (`stdio_client.py:222`),
  and neither the query of a task (`app/api/tasks.py:23`) nor what a plan hands from
  step to step (`multitool_pipeline.py:160`, 178) is bounded: a request longer than the
  pipe takes, to a server that does not read, blocks that call and all later ones. The
  gateway says that a failing MCP call returns a failed record ("MCP 调用异常都返回
  failed ToolCallRecord", `tool_gateway.py:17`). `CallReturns` names this exception.
* Every OpenAI-compatible answer is given `cost=0.0` (`provider.py:250`), and the prices
  in the settings enter only the estimate before a call (`budget.py:28` and 108). The
  runbook says to configure them for a cost other than zero in the report ("若要在报告中
  输出非零 `cost`，配置 ...", `docs/llm_pilot_runbook.md:62`). `EvidenceHonest` says what
  a zero there means: charges that the class has kept to itself.

Of the others no document or test says otherwise:

* A failed generation without a fallback is cached like a result, and the flag is
  no part of the key (`nl2sql_pipeline.py:363`).
* `success` of an NL2SQL run ignores its execution (`nl2sql_pipeline.py:125`).
* The cascade of the auto mode goes on to the keywords after its tools were blocked
  (`multi_agent/executor.py:190`), as `GateStops` allows.
* Coordinator, planner, evaluation, preflight and pilot call the model without asking
  the budget; a judge's answer that cannot be parsed is charged and not put down.
* What raises hands on no cost: `_normalize_response` reads `response_cost` before it
  finds choices or content missing (`provider.py:846`), and the next attempt starts
  from nothing. These charges, and those of the OpenAI-compatible path, are in `lost`:
  the budget does not see them, and `BudgetBound` and `ChargedOnce` are about the rest.
* `_record_audit` swallows what the audit store raises (`approvals.py:63`): a decision
  may stand without its event. The models have an audit store that works.
* The gate parses a URL to see whether it is https (`deployment_guard.py:112`), the
  OIDC check looks at how it begins (`oidc_config.py:24`); they differ on texts such
  as `https:///x` only, which the settings leave out.
* The auto mode records the metrics of a task twice (`kernel.py:514`).
* A summary infers `real_call_attempted` (`acceptance.py:82`): a charged answer that gave
  way to the mock counts as not attempted, a request over the budget as attempted. The
  pilot's report says attempted whenever the run is real, even if no case needed a call,
  and leaves out the cost of the probe; its success rate counts results of the mock.
* A blank API key passes the preflight and fails the gate and the pilot.
* The gate reads a burst of 0 as -1 and refuses it, though its message allows 0
  (`deployment_guard.py:290`).
* A rejection that is cut short after its decision leaves the task waiting: a
  repetition is answered `already_decided`.
* A worker that dies after its claim leaves the checkpoint `resuming` for good: nothing
  looks at `locked_at` (`resume_adapter.py:58`), so that `ClaimSettles` needs a run
  without faults.
* A plan cut short between the approval of its next step and the consumption of the one
  it resumes (`approval_resume.py:381`) asks for the next step twice when it is repeated:
  `OneOpenApproval` needs a run without faults too.

## 4. What is proved

### ToolApprovalsProofs

It holds for any sets of processes, tasks and approvals, any
mode of each task and any bound on faults. Assumptions are the constants' types
(`DecisionsAssumption`, `ModeAssumption`), plus the ones stated in a theorem.

| Theorem | Says |
|---|---|
| `Typing` | `Spec => []TypeOK` |
| `SQLiteDecisionFinal` | on SQLite a decision never changes |
| `SQLiteApprovedBeforeCall` | on SQLite a tool that ran belongs to an approved approval |
| `GraphCalledOnce` | a graph approval calls its tool at most once, on either backend |
| `ClaimsExclusive` | one worker at a time is past the claim of a checkpoint |
| `ConsumedAfterRun` | consumed means called, in keyword mode called with success |
| `GraphImplementsGate` | on SQLite, with graph tasks only, `Spec` implements `HumanGate` |

The argument goes in layers, each an inductive invariant over the one below.

1. `TypeOK` alone does not say that a request past its first read is about a row
   that exists and belongs to the task it names; `WellFormed` adds it.
2. `ApprovedInv` adds that a request at a tool call, or past one, is about an
   approved approval. It is inductive because on SQLite no step changes a
   decided row (`SQLiteDecisionFinal`); on PostgreSQL it is false.
3. `ClaimInv` carries the claim protocol. `calls[a] <= 1` is not inductive: the
   invariant says that before the claim the call count is zero, that a worker
   past the claim holds a checkpoint whose status is no longer `interrupted`, that
   no two workers hold the same one, and that while a task is being created its
   checkpoint is not linked to an approval or not yet visible to a claim. The
   unguarded `mark_pending_interrupt`, which sets `interrupted` again, is harmless
   only because of the last part.
4. `ConsumedInv` says that a request about to write `resumed` follows a call, and
   carries the flag `update_payload` has read.
5. The step lemma of the refinement combines 1 to 3: a step of `Spec` is an
   `Ask`, `Decide` or `Effect` of `HumanGate`, or leaves both variables alone.

### ToolApprovalsProofs, one process

About `ToolApprovals` with a single process and no fault (`Workers = {w}`,
`MaxFaults = 0`), for any tasks, approvals and modes and on either backend. A
handler never awaits, so this is the application run as one process in which no
store call raises. With a second process or a fault the first three are false, as
section 3 says.

| Theorem | Says |
|---|---|
| `ShippedEffectOnce` | the tool of an approval succeeds at most once, however often it is resumed |
| `ShippedAuditTellsDecision` | the audit log holds only the decision an approval has |
| `ShippedStoresAgree` | between requests task, checkpoint and approval agree |
| `ShippedImplementsGate` | `Spec` implements `HumanGate`, for tasks of both modes |

The stores agree between requests only, so `OneAtATime(w)` says what holds at
every point within one. Every approval but the one the request is about satisfies
`Agree`. Of that one the invariant says how far the request has brought it
(`DecidingOK`, `CallingOK`, `AskingOK`, `NewTaskOK`): a resume that is to call the
tool has found no success of an earlier one; one that is to write `resumed` has
written the task (and settled the checkpoint of a graph task) before; one that failed leaves
the task failed. A task has one approval only, so that what happens to one task is
no concern of the others. There is a lemma per action; `AgreeKept` carries the other
approvals over any step. For the refinement the effect of the gate is a success in
keyword mode and a call in graph mode, and `ClaimInv` of the first module says that
a claim has not been used.

### PlanApprovalsProofs

About `PlanApprovals`, for any sets of processes, tasks and approvals, any plan,
any modes and any bound on faults (`DecisionsAssumption`, `PlanAssumption`).

| Theorem | Says |
|---|---|
| `Typing` | `Spec => []TypeOK` |
| `OrderOfSteps` | no step succeeds before all the steps ahead of it have, on either backend |
| `RealProgress` | consumed means that the step has run, completed that the whole plan has, on either backend |
| `SQLiteHighRiskApproved` | on SQLite a high-risk step that ran has an approval of its own, which stands |

1. `WellFormed` adds to the types that a request under way is about a row that
   exists and belongs to its task, and that a row asks for a high-risk step.
2. `Reached`: `StepsInOrder` is not inductive, since a step is reached through a row
   that was written by another process long before. So every row asks for a step
   whose predecessors have run (`RowReached`), every request is at such a step, and
   one that has consumed its approval, or has read that it was, has the step of that
   approval behind it (`RequestReached`).
3. `Completion`: a task is created by one request only, nobody asks for an approval
   of it before, and nothing writes its row before that request saves it. A verdict
   "completed" is reached at the end of the plan only. Without this `save_task`,
   which overwrites whatever is there, could complete a task another process had
   put to wait.
4. `GrantedInv`: a request about to run the approved step has an approval. What was
   granted stays so on SQLite, where the update is guarded; on PostgreSQL a racing
   decision may turn it (`postgres_decision_flips`), and the theorem is false.

### PlanShippedProofs

About `PlanApprovals` with a single process and no fault, for any plan, tasks,
approvals and modes and on either backend.

| Theorem | Says |
|---|---|
| `ShippedStepOnce` | no step succeeds twice |
| `ShippedOneOpenApproval` | between requests a task has one approval at most that can lead to a call |
| `ShippedPlanAgrees` | between requests the approvals of a multitool task and its status agree |

An approval is *live* when it is open and the request under way has not run its
step yet (`Live`). While the rest of a plan runs there may be two open approvals of
a task, but one live one; `OneRequest(w)` says that no step from that of a live approval
on has run. `StepOnce` follows from it: a step is run by the first run of a
plan, which has reached it for the first time, by the resume of a live approval, or
by the rest of the plan after one, when the task has none. `TaskAgrees` is
`PlanAgrees` in terms of live approvals: it holds of every task but that of the
request, and of that one at the points at which both stores have been written
(`AgreePoints`); in between `RequestKnown` says what is left to write. `StepAbout`
reduces a step of a request to what it does to its own task. That the approval a
task waits for is of a later step than those used up comes from `Reached`.

### ToolCallsProofs

About `ToolCalls`, for any set of calls, retries, child processes, unasked lines,
whichever calls are longer than a pipe takes and whatever its room, and with or
without a launcher around the server (`ToolCallsAssumption`). The server does
whatever it likes.

| Theorem | Says |
|---|---|
| `Typing` | `Spec => []TypeOK` |
| `CleanRestarts` | only the client's process runs, and it gets no tool request before its handshake is over |
| `OwnAnswers` | a call is answered with its own result, and success means executed |
| `NoDebts` | when a request is sent the process has no earlier one to take or to answer, but for the failure that goes unnoticed |
| `NoReplay` | a call is executed at most once per attempt of the gateway |

1. `WellFormed`: a call past the lock holds it and has a process (`CallOK`); every
   process but the client's has ended, and its pipes are empty (`OnlyProc`).
2. `Handshake`: the notice that ends a handshake is in the pipe before any tool
   request, or has been taken out of it.
3. `Traffic`: no id in a pipe is above the last one given out, what carries that one
   is of the call that waits, requests lie in a pipe in the order of their ids, and a
   tool request that is owed an answer or has one in the pipe has been executed. An
   answer is accepted by its id alone, so that this is what makes it the right one,
   although older answers may lie before it.
4. `Debts`: with nobody waiting, a process has no request left to take or to answer
   unless it wrote a line that raised in the client; while somebody waits, none but
   that one.
5. `Counted`: the executions of a call and its requests not yet taken are no
   more than the requests sent, one per attempt. It needs the requests in a pipe to
   be distinct, which they are by `Traffic`.

### RateLimitsProofs

About `RateLimits`, for any number of processes and requests, any window, capacity and
clock (`RateLimitsAssumption`: at least one process, and numbers).

| Theorem | Says |
|---|---|
| `RateLimitsTyped` | `Spec => []TypeOK`; no client is told to wait for longer than a window |
| `RedisBounded` | the processes together let no more than the capacity through Redis in one window of the clock |
| `AdmittedBounded` | and each process no more than the capacity from memory, in any window |
| `NobodyRefusedEarly` | nobody is refused unless the whole capacity was asked for within a window |
| `ToldHonestly` | who comes back a second after the time it was told is not refused again by the limiter that told it |

1. `Counters` says that what was let through is in the counter of the current window,
   and that no counter expires in its own window: an expiry is a window after an
   instant of it, hence in the next one (`BucketFacts`, from the quotient lemmas). An
   `INCR` whose answer is lost only adds to the counter, and a lost `EXPIRE` only lets
   it live on.
2. `Windows` relates the list of a process to what it let through. That the two have
   the same sum now is not inductive: the clock takes hits out of the window one by
   one, and the list drops them at the next request only. `Remembers` says it of every
   instant of the window: the list is in the order of time, and the hits behind the
   point where that instant splits it are what was let through from then on
   (`Tallied`). So it survives a hit (`HitRemembered`), a tick (`TickRemembers`) and
   the dropping of what is old (`DroppingRemembers`), and what is in the window is at
   most the length of the list (`AllTallied`).
3. A refusal from memory finds a list as long as what was let through, which is not
   more than what was asked (`SumMore`). A refusal by Redis finds a counter that is not
   more than what was asked in this bucket (`Booked`), a part of what was asked in the
   window (`SumOfPart`), since no instant of a bucket leaves the window within it.
4. `Told` carries the last refusal: the list it came from, the first hit of which is gone
   by the time that was told, unless a restart has emptied it; or the bucket, after which
   nobody has counted. `RetryFits` bounds what `int()` cuts off.

### LLMServiceProofs

About `LLMService`, for every set of requests of any kinds, every workload and
every set of settings (assumptions: `TaskModesAssumption`, that the modes and
rules are modes; `LLMPilotAssumption`, that a key is absent, blank or present; for
the cache and the types also `KeysAssumption`, `NL2SQLRequestsAssumption` and
`LLMBudgetAssumption`, of which more under 5 and below, the last of them that limits
and times are numbers).

| Theorem | Says |
|---|---|
| `AnswerReportedAlways` | a task tries nothing after a run that succeeded, and reports that run |
| `GateStopsAlways` | a multi-agent task takes a run the policy stopped to no other mode, but for the cascade of auto |
| `ChecksAgreeAlways` | the four checks of the settings agree where one relies on another |
| `CacheHonestAlways` | a result from the cache is one the model made, for the query and the schema version of the request that gets it, and not older than entries live |
| `LLMServiceTyped` | `Spec => []TypeOK` |

1. Frames: a step of a request writes its own job only, and a task is changed by
   its own steps only (`StepMeans`), so that each invariant is about one task.
2. `AnswerReported` is inductive next to `Shape` (jobs and tasks are where they
   belong): before a task is done none of its runs has succeeded, so the one that
   ends now is the only one that can have, and then the task concludes with it
   (`RunEndsMeans`).
3. `GateStops` is not inductive. A keyword run that is blocked would be followed
   by the rest of its cascade, if there were one, and a route decided on after a
   blocked run would change `selected`. `TaskControl` says that there is neither:
   which points the job of a multi-agent task can reach and with which caller,
   that it has run nothing while it decides on a mode, that what is left to try
   is the rest of a cascade, which is not empty in auto only, and empty at the
   keyword run.
4. `ChecksAgree` needs `GateAnswer`, that the answer of the gate is about settings
   of some deployment; the rest are lemmas on one set of settings, from what a
   check returned to what each of its parts has found (`NothingFails`).
5. `CacheHonest` is about any schedule, any costs and any length of life of the
   entries. `KeysAssumption` says that the cache has room for every key a request can
   come to (`_store` is a dictionary without a limit), and `NL2SQLRequestsAssumption`
   that the file of bad cases is not empty. The invariant is `Keyed`. `CacheSound` says
   of each entry that it was made by the model for the query and the schema in its key,
   and expires as long after it was kept as entries live. That a step keeps it so
   depends on who comes to the cache: `JobKeyed` says that from the budget's check to
   the keeping of the result a request is the generator's or the judge's, has the schema
   it read at the beginning (the database may have got another since, and a thread of
   the pool may have kept another result), and, when it is about to keep a result, one
   for that schema. A task comes there again and again through its cascade, so that
   `TaskKeyed` is needed as well: what a cascade has left are modes, and one at least
   when a run is due.
6. `TypeOK` says of the run that a task reports that it is one of at most four, and to
   keep that so one has to know how many runs a task can come to. `TaskFits` counts: what
   a task has run and what it has left to try are together less than `Longest` while a
   run goes on: one for a single mode, three for a cascade, four for a cascade behind a
   first mode that the reviewer did not approve of. Beside that it says where a task
   can be while it has run nothing, and that what is left of the kernel's auto mode is
   the end of its cascade, so that the keyword run which follows a pipeline that raised
   does not lengthen it. `Typed` is the invariant, next to `Keyed`, which has the cache
   know every key it is asked for.

### LLMBudgetProofs

About `LLMService` too, for any requests, limits, estimate and length of the scopes.
`NL2SQLRequestsAssumption` says that the requests are finitely many, that the costs an
answer may have are numbers with a greatest one, and that no answer is taken for none;
`LLMPilotAssumption` that a dry run has the fake provider, and a pilot the cases it runs.

| Theorem | Says |
|---|---|
| `BudgetBoundAlways` | a scope exceeds what is left below the hard limit by no more than the calls that can be under way at once |
| `ChargedOnceAlways` | what the provider's class tells of a charge for an NL2SQL request is put down once, for a judge at most once, and for nobody else; the scopes add up to it |
| `EvidenceHonestAlways` | the report of a pilot is evidence of what it did, what the provider's class tells of the pilots' charges is in their records or about to be, a report of success without a cost is one of charges that were not told, and no reply claims a call or a cost that is not its own |

None of them says that everything charged is booked: what the class does not tell goes
to `lost` and comes back nowhere. They are about the way from the class's answer to the
budget and the reports, and the last also about what a report without a cost conceals.

1. `StepBooks` sorts the steps by what they do to the accounts: one lets a request
   through (`Admits`), brings an answer (`Charges`), puts it down (`Settles`), or has
   nothing to do with them (`Quiet`). The first two theorems are proved from that.
2. Who has been let through and may still be put down is `Flying`. Whoever of these is
   no stream holds the event loop (`Holding`), so that they are no more than the streams
   and one (`FlyingFew`), which is what bounds the race between check and record.
3. `Room` is the invariant: what a scope holds, and the dearest cost for each call
   flying, are within the bound. A check that lets a request through finds the scope so
   low that the bound leaves room for as many calls as there can be, whatever is flying
   already; an answer that is put down takes the room its own call had; at the turn of a
   scope all that is flying goes over into a new scope, which is empty.
4. `Balanced` is `ChargedOnce` with the judge's answers still to be put down, which are
   a part of what the judge was told. Each step of a request changes the sum of what
   is due by what it changes of its own (`DueStep`), and an entry raises the sum over the
   scopes as it raises the one over the callers.
5. `Evident` is the invariant of the evidence. A report is written at the end, from what
   the records hold; that it accounts for every case follows only from where the pilot is
   while it still calls (`PilotTrue`: fewer records than cases while a case is asked for,
   all of them once there is a report, none of a run that is refused), and that what is
   told of a charge is in them only from what is `Pending`: an answer that has come and
   is in no record yet. Each step evens out what is told, pending and recorded (`Evens`),
   and the sums over all pilots follow (`TotalsStep`). A probe is charged to nobody's cases.
   `Shown` is about reports without a cost: as long as nothing is lost to the pilots and
   no answer is free, an answer that a real pilot has, and the record made of it, has a
   cost (`AnswerShown`, `RecordsShown`), so that a sum of zero has nothing served in it.
   That a real pilot is not served by the fake provider, which is free, follows from the
   reasons it would have been refused for (`RealProvider`).
   `Claims` is what makes the third part inductive: a generator that has not been
   answered has no answer left over from an earlier call, so that a reply that was made
   without one, or out of the cache, has nothing to claim. The run of a task, which
   begins anew in the same request, is where that could go wrong (`StartRunTrue`).

### Sums

A sum of the community modules is a recursive function that `CHOOSE` picks out. That
there is one at all (`AddsExists`), that there are no two (`AddsUnique`), and that the
order in which it takes the elements does not matter (`AddsAny`) are inductions, done
here without the induction theorems of the library, which take an operator: of the
subsets for which the statement fails there is a smallest (`SubsetLeast`, from the
well-foundedness of the numbers). Out of it come `SumUpdate`, what a change of one
element makes of a sum, `SumPart`, `SumMore` and `SumOfPart`.

### What is only model-checked

* The liveness properties (`ResumeConcludes` and its like, `CallReturns`,
  `FallbackEnds`), `RejectionCancels` among them: liveness under fairness is outside
  what the prover does.
* The disagreements of section 3: each is a counterexample in a small instance.

## 5. Plan

Done, in the order of the plan: the approval flow, plans, tool calls, rate limits,
budgeted calls with the NL2SQL pipeline and its stream, the modes of a task with
the multi-agent roles, pilot and settings.

What could follow: a plan flow that implements an abstract plan with a gate per
high-risk step, as `ToolApprovals` implements `HumanGate`.

### Not modelled

* Prompts, SQL text, the patterns of the guards, redaction of PII, layout of reports:
  functions of one text, without state; their verdicts are parameters.
* Metrics, trace and memory: written, and never read back into a decision. Retention
  has settings, which are modelled, and no code that deletes anything.
* Passwords, tokens and the permission check: every handler starts behind it.
* The flows that a bad case replays, the multi-agent evaluation, smoke reports and
  the evidence index: they call what is modelled, with fixed inputs.
* Read-only API, console, charts and the business system: views and I/O.
* Storage wiring: singletons chosen by configuration; the choice is `Postgres`.
