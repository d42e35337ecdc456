------------------------------ MODULE LLMPilot ------------------------------
(***************************************************************************)
(* scripts/run_llm_pilot, the evidence that a real model was used, and the *)
(* endpoints that check the settings.                                      *)
(*                                                                         *)
(* A pilot is a request of its own process: it needs no event loop and     *)
(* knows neither budget nor cache.  A dry run is the same with the fake    *)
(* provider.  The preflight is a coroutine of the server and calls the     *)
(* model while it holds the loop.                                          *)
(***************************************************************************)
EXTENDS TaskModes, DeploymentChecks

CONSTANTS
  Settings,   \* of each pilot and preflight
  Limit,      \* --limit
  SkipProbe,  \* the pilots with --skip-network-probe
  Deployments \* the settings a process may be started with

Pilots == {r \in Requests : Kind[r] \in {"pilot", "dry_run"}}
Preflights == {r \in Requests : Kind[r] = "preflight"}
DryRun(r) == Kind[r] = "dry_run"

ASSUME LLMPilotAssumption ==
  /\ Limit \in Nat /\ SkipProbe \subseteq Pilots
  /\ Pilots \subseteq DOMAIN Cases
  /\ \A r \in Pilots :
       Provider[r] = IF DryRun(r) THEN "fake" ELSE PilotProvider(Settings[r])
  /\ \A r \in Preflights : Provider[r] = Settings[r].provider
  /\ \A s \in Deployments : s.key \in {"absent", "blank", "present"}

VARIABLES
  pilot, \* what each pilot has so far: records, reports written, how it ended
  gate   \* what the last deployment check has found, and in which settings

pilotVars == <<taskVars, pilot, gate>>

NewPilot == [records |-> <<>>, files |-> {}, exit |-> "none"]
InitPilots ==
  /\ InitTasks
  /\ pilot = [r \in Pilots |-> NewPilot]
  /\ gate = NoAnswer

Least(a, b) == IF a < b THEN a ELSE b
\* At least one case, whatever the limit.
Sample(r) == SubSeq(Cases[r], 1, Least(Len(Cases[r]), IF Limit < 1 THEN 1 ELSE Limit))

Exit(r, code) ==
  /\ pilot' = [pilot EXCEPT ![r].exit = code]
  /\ End(r, "done")

Others == UNCHANGED <<shared, schema, told, lost, recorded, loop, gate>>

-----------------------------------------------------------------------------
\* main: a run whose settings will not do is refused, and leaves no report.
StartPilot(r) ==
  /\ At(r, "new")
  /\ IF ~DryRun(r) /\ RefusalReasons(Settings[r]) # {} THEN Exit(r, "refused")
     ELSE /\ Update(r, IF r \in SkipProbe THEN [job[r] EXCEPT !.at = "load"]
                       ELSE Calling(r, "probe"))
          /\ UNCHANGED pilot
  /\ Others

\* The answer, if there is one, is one that can be used.
Served(r) == job[r].answer # NoAnswer /\ job[r].answer.usable

\* run_pilot_preflight
ProbeEnds(r) ==
  /\ At(r, "answered") /\ job[r].who = "probe"
  /\ IF Served(r) THEN Goto(r, "load") /\ UNCHANGED pilot ELSE Exit(r, "failed")
  /\ Others

\* The cases are loaded and the schema read, for all of the cases.
Load(r) ==
  /\ At(r, "load")
  /\ \/ Cases[r] = <<>> /\ Exit(r, "failed")
     \/ Cases[r] # <<>> /\ Exit(r, "raised")
     \/ /\ Cases[r] # <<>>
        /\ Update(r, [job[r] EXCEPT !.at = "case", !.schema = schema])
        /\ UNCHANGED pilot
  /\ Others

\* What evaluate_cases records of a case.
Case(called, fallback, passed, cost) ==
  [called |-> called, fallback |-> fallback, passed |-> passed, cost |-> cost]
Put(r, record) ==
  /\ pilot' = [pilot EXCEPT ![r].records = Append(@, record)]
  /\ Goto(r, "case")

More(r) == Len(pilot[r].records) < Len(Sample(r))
NextCase(r) == Sample(r)[Len(pilot[r].records) + 1]

\* _dangerous_case_passed: the guard alone.
DangerousCase(r) ==
  /\ At(r, "case") /\ More(r) /\ NextCase(r) = "dangerous"
  /\ \E passed \in BOOLEAN : Put(r, Case(FALSE, FALSE, passed, 0))
  /\ Others

\* Faulty: last_provider_metadata is not reset before a call.
AskModelKeeping(r) == [job[r] EXCEPT !.who = "pilot", !.at = "call", !.attempt = 0]

\* LLMNL2SQLGenerator.generate, to the call.
AskModel(r) == Calling(r, "pilot")

NormalCase(r) ==
  /\ At(r, "case") /\ More(r) /\ NextCase(r) = "normal"
  /\ Update(r, AskModel(r))
  /\ UNCHANGED pilot /\ Others

\* The mock takes the place of an answer that is of no use.  Its cost is
\* recorded all the same; a call that failed has none.
CaseEnds(r) ==
  /\ At(r, "answered") /\ job[r].who = "pilot"
  /\ \E passed \in BOOLEAN :
       Put(r, Case(TRUE, ~Served(r), passed,
                   IF job[r].answer = NoAnswer THEN 0 ELSE job[r].answer.cost))
  /\ Others

\* How many records have the property P, and what they cost together.
Picked(r, P(_)) == Cardinality({i \in 1..Len(pilot[r].records) : P(pilot[r].records[i])})
CostOf(records) == FoldFunction(LAMBDA record, sum : record.cost + sum, 0, records)

\* aggregate_eval_summary
Summary(r) ==
  [total     |-> Len(pilot[r].records),
   called    |-> Picked(r, LAMBDA c : c.called),
   passed    |-> Picked(r, LAMBDA c : c.passed),
   fallbacks |-> Picked(r, LAMBDA c : c.fallback),
   cost      |-> CostOf(pilot[r].records)]

\* What build_report_cases says of the calls: that they were attempted is known
\* from the mode alone.
Evidence(r) ==
  [attempted |-> ~DryRun(r),
   succeeded |-> ~DryRun(r) /\ Picked(r, LAMBDA c : c.called /\ ~c.fallback) > 0]

\* build_pilot_report, headed by the summary.
Report(r) ==
  LET evidence == Evidence(r)
      summary == Summary(r)
  IN [part \in DOMAIN evidence \cup DOMAIN summary |->
        IF part \in DOMAIN evidence THEN evidence[part] ELSE summary[part]]

\* write_pilot_report_json, then write_pilot_report_markdown.
Writes(r, at, file, next) ==
  /\ At(r, at)
  /\ \/ /\ pilot' = [pilot EXCEPT ![r].files = @ \cup {file},
                                  ![r].exit = IF next = "done" THEN "ok" ELSE @]
        /\ IF next = "done" THEN End(r, "done") ELSE Goto(r, next)
     \/ Exit(r, "raised")
  /\ Others

Evaluated(r) == At(r, "case") /\ ~More(r) /\ Goto(r, "json") /\ UNCHANGED pilot /\ Others
WriteJson(r) == Writes(r, "json", "json", "markdown")
WriteMarkdown(r) == Writes(r, "markdown", "markdown", "done")

PilotStep(r) ==
  \/ StartPilot(r) \/ ProbeEnds(r) \/ Load(r)
  \/ DangerousCase(r) \/ NormalCase(r) \/ CaseEnds(r)
  \/ Evaluated(r) \/ WriteJson(r) \/ WriteMarkdown(r)

-----------------------------------------------------------------------------
\* llm_preflight?network_check=true: the probe, if the settings allow it.
ArrivePreflight(r) ==
  /\ At(r, "new") /\ Kind[r] = "preflight" /\ Take(r)
  /\ Update(r, IF Probes(Settings[r]) THEN Calling(r, "preflight")
               ELSE [job[r] EXCEPT !.who = "preflight", !.at = "answered"])
  /\ UNCHANGED <<shared, schema, told, lost, recorded, pilot, gate>>

\* get_deployment_check, of a process with some settings.
ArriveCheck(r) ==
  /\ At(r, "new") /\ Kind[r] = "check"
  /\ \E s \in Deployments : gate' = [settings |-> s, errors |-> DeploymentErrors(s)]
  /\ End(r, "done")
  /\ UNCHANGED <<shared, schema, told, lost, recorded, loop, pilot>>
=============================================================================
