----------------------------- MODULE LLMService -----------------------------
(***************************************************************************)
(* The requests of one process that call a language model, together: the   *)
(* endpoints, the evaluations and the tasks over one event loop, the pool  *)
(* that advances the streams, one budget and one cache; and the pilot runs *)
(* beside it.                                                              *)
(***************************************************************************)
EXTENDS LLMPilot, FiniteSetsExt

Init == InitPilots

\* The requests that have an answer to come.
Open == {r \in Requests : job[r].at \notin {"done", "gone", "absent"}}

\* Every request has had its answer, and the environment is done.
Finished ==
  /\ Open = {}
  /\ now = MaxTime /\ schema = MaxSchema
  /\ UNCHANGED pilotVars

Next ==
  \/ \E r \in Open : (PipelineStep(r) \/ EndpointStep(r)) /\ UNCHANGED <<task, pilot, gate>>
  \/ \E r \in Open \cap Tasks : TaskStep(r) /\ UNCHANGED <<pilot, gate>>
  \/ \E r \in Open : (ArrivePreflight(r) \/ ArriveCheck(r)) /\ UNCHANGED task
  \/ \E r \in Open \cap Pilots : PilotStep(r) /\ UNCHANGED task
  \/ Environment /\ UNCHANGED <<task, pilot, gate>>
  \/ Finished

Spec == Init /\ [][Next]_pilotVars

-----------------------------------------------------------------------------
(* Properties.                                                             *)

Points ==
  {"new", "opened", "generate", "check", "lookup", "call", "compatible",
   "record", "store", "made", "raised", "judged", "answered", "route", "next",
   "evaluate", "refused", "multitool", "keyword", "load", "case", "json", "markdown",
   "done", "gone", "absent"}
Results ==
  [by : {"llm", "mock", "mock_fallback"}, allowed : BOOLEAN,
   query : {Query[r] : r \in Requests}, schema : 0..MaxSchema] \cup {NoResult}
Answers == [usable : BOOLEAN, cost : Costs \cup {0}] \cup {NoAnswer}
Runs == [mode : RunModes, success : BOOLEAN, blocked : BOOLEAN]

Jobs ==
  [at : Points, who : Callers, schema : 0..MaxSchema, attempt : 0..MaxRetries,
   answer : Answers, result : Results, via : {"none", "cache", "provider"},
   stored : 0..MaxTime, case : Nat, again : BOOLEAN]
Values == [result : Results, at : 0..MaxTime]
TaskStates ==
  [selected : Selectable \cup {"none"}, todo : Seq(RunModes), runs : Seq(Runs),
   fallback : BOOLEAN, adopted : 0..4]
PilotStates ==
  [records : Seq([called : BOOLEAN, fallback : BOOLEAN, passed : BOOLEAN,
                  cost : Costs \cup {0}]),
   files : SUBSET {"json", "markdown"},
   exit : {"none", "ok", "refused", "failed", "raised"}]

TypeOK ==
  /\ now \in 0..MaxTime
  /\ spent \in [Scopes -> Nat]
  /\ \A k \in DOMAIN cache : cache[k] # NoEntry =>
       cache[k].value \in Values /\ cache[k].expires \in 0..(MaxTime + TTL)
  /\ DOMAIN job = Requests /\ \A r \in Requests : job[r] \in Jobs
  /\ loop \in Requests \cup {Idle}
  /\ schema \in 0..MaxSchema
  /\ told \in [Callers -> Nat] /\ lost \in [Accounts -> Nat]
  /\ recorded \in [Callers -> Nat]
  /\ task \in [Tasks -> TaskStates]
  /\ pilot \in [Pilots -> PilotStates]
  /\ gate # NoAnswer => DOMAIN gate = {"settings", "errors"}

\* The calls that may be under way at once: one of each stream, and one of
\* whoever holds the loop.
AtOnce == Cardinality(Streams) + 1
Dearest == CHOOSE c \in Costs \cup {0} : \A d \in Costs : d <= c

\* check_budget and record_usage are two steps: every call that was let through
\* before the first of them is put down may still be added, and, at the turn of
\* a scope, be added to the next.  By no more than these calls does a scope
\* exceed what is left below the hard limit when the last one was let through.
BudgetBound ==
  BudgetEnabled /\ HardLimit > 0 =>
    \A s \in Scopes :
      spent[s] <= (IF HardLimit > Estimate THEN HardLimit - 1 - Estimate ELSE 0)
                  + AtOnce * Dearest

\* What the provider's class tells of the charges for NL2SQL requests is put down
\* to the budget once, whatever the answer was worth, where it came to and who
\* has left since; of what a judge is told nothing is put down twice, and nothing
\* else is in the budget.  A charge that the class does not tell (an answer
\* without a price, an attempt that raised) is lost to the budget.
ChargedOnce ==
  BudgetEnabled =>
    LET pending == {r \in Requests : At(r, "record") /\ job[r].who = "nl2sql"} IN
    /\ told["nl2sql"] = recorded["nl2sql"]
                        + MapThenSumSet(LAMBDA r : job[r].answer.cost, pending)
    /\ recorded["judge"] <= told["judge"]
    /\ \A w \in Callers \ {"nl2sql", "judge"} : recorded[w] = 0
    /\ SumFunction(spent) = SumFunction(recorded)

\* A result from the cache is one the model made, for the same query and for the
\* schema the request has read, and not older than the entries live.
CacheHonest ==
  [][\A r \in Requests :
       job'[r].via = "cache" /\ job[r].via # "cache" =>
         /\ TTL > 0 => now <= job'[r].stored + TTL
         /\ job'[r].who = "nl2sql" =>
              /\ job'[r].result.by = "llm"
              /\ job'[r].result.query = Query[r]
              /\ job'[r].result.schema = job'[r].schema]_pilotVars

\* A task tries nothing more after a run that succeeded, and that run is the one
\* it reports, on whichever way through cascade and fallback it was reached.
AnswerReported ==
  \A r \in Tasks :
    LET t == task[r] IN
    \A i \in 1..Len(t.runs) : t.runs[i].success =>
      i = Len(t.runs) /\ At(r, "done") /\ t.adopted = i

\* A run of a multi-agent task that the policy stopped, or that waits for an
\* approval, is not tried in another mode, except that the cascade of the auto
\* mode goes on from its tools to its keywords.
GateStops ==
  \A r \in Tasks :
    LET t == task[r] IN
    Mode[r] = "multi_agent" =>
      \A i \in 1..Len(t.runs) :
        t.runs[i].blocked =>
          \/ At(r, "done") /\ i = Len(t.runs)
          \/ t.selected = "auto" /\ t.runs[i].mode = "multitool"

\* The report of a pilot is evidence of what happened: a dry run claims nothing,
\* a real run has passed every check, each case is accounted for, and the costs
\* in the reports and the runs under way are what the provider's class tells of
\* the charges for the cases, whether or not the answers were of use.  If no
\* answer is free, a report of success that shows no cost is one of charges that
\* the class has kept to itself.  Nor does the summary of a reply claim the
\* success of a call that the request has not made itself, or the cost of
\* another.
EvidenceHonest ==
  /\ \A r \in Pilots :
       pilot[r].files # {} =>
         LET report == Report(r) IN
         /\ report.total = Len(Sample(r))
         /\ report.passed <= report.total /\ report.fallbacks <= report.called
         /\ report.attempted => RefusalReasons(Settings[r]) = {}
         /\ DryRun(r) => ~report.attempted /\ ~report.succeeded /\ report.cost = 0
         /\ 0 \notin Costs /\ report.succeeded /\ report.cost = 0 => lost["pilot"] > 0
  /\ LET answered == {r \in Pilots : At(r, "answered") /\ job[r].who = "pilot"
                                    /\ job[r].answer # NoAnswer}
     IN told["pilot"] = MapThenSumSet(LAMBDA r : CostOf(pilot[r].records), Pilots)
                        + MapThenSumSet(LAMBDA r : job[r].answer.cost, answered)
  /\ \A r \in Requests :
       At(r, "made") /\ job[r].who = "nl2sql" =>
         LET summary == Acceptance(r)
             own == job[r].via = "provider" /\ job[r].answer # NoAnswer
         IN /\ summary.succeeded => own /\ job[r].result.by = "llm" /\ Provider[r] # "fake"
            /\ summary.cost = (IF own THEN job[r].answer.cost ELSE 0)

\* Settings that the preflight finds ready pass the gate's checks of the model,
\* and a pilot runs with them, unless the key is blank; settings
\* that pass the gate are as much as a pilot with LiteLLM asks for, pass the
\* checks of OIDC, and give nobody a role they do not allow.
ChecksAgree ==
  gate # NoAnswer =>
    LET s == gate.settings
        bare == /\ s.override = "none"
                /\ {"PILOT_MODEL", "PILOT_BASE_URL", "PILOT_API_KEY"} \cap s.given = {}
        accepts == "real_llm_acceptance_enabled" \in s.on
    IN
    /\ bare /\ Ready(s) /\ s.key # "blank" => LLMChecks(s) \cup RefusalReasons(s) = {}
    /\ s.env = "production" /\ gate.errors = {} =>
         /\ bare /\ accepts /\ s.provider = "litellm" => RefusalReasons(s) = {}
         /\ "oidc_enabled" \in s.on =>
              /\ ValidateOIDC(s) = {}
              /\ \A claimed \in SUBSET (AllowedRoles \cup {"root"}) :
                   MapRoles(s, claimed) \subseteq RolesOf(s) /\ MapRoles(s, claimed) # {}
=============================================================================
