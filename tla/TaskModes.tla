----------------------------- MODULE TaskModes -----------------------------
(***************************************************************************)
(* The modes of a task: which of its runs (nl2sql, multitool, keyword)     *)
(* follow one another, and which one the task reports.                     *)
(*                                                                         *)
(* A task is a request like those of NL2SQLRequests: an nl2sql run goes    *)
(* through the same pipeline, budget and cache, and the coordinator and    *)
(* the planner may call the model as well.  A run with tools is one step   *)
(* here; ToolApprovals, PlanApprovals and ToolCalls look into it.          *)
(***************************************************************************)
EXTENDS NL2SQLRequests

CONSTANTS
  Mode,            \* of each task: nl2sql, multitool, keyword, auto, multi_agent
  Rule,            \* the mode that the routing rules give each query
  CoordinatorLLM,  \* settings.coordinator_llm_enabled
  PlannerLLM,      \* settings.planner_mode = "llm"
  Risky            \* tasks that RiskIntentGuard stops

Tasks == {r \in Requests : Kind[r] = "task"}
RunModes == {"nl2sql", "multitool", "keyword"}
Selectable == RunModes \cup {"auto"}

ASSUME TaskModesAssumption ==
  /\ \A r \in Tasks : Mode[r] \in Selectable \cup {"multi_agent"}
  /\ \A r \in Tasks : Rule[Query[r]] \in Selectable
  /\ CoordinatorLLM \in BOOLEAN /\ PlannerLLM \in BOOLEAN
  /\ Risky \subseteq Tasks

VARIABLE
  task  \* what the kernel or the orchestrator knows of each task

taskVars == <<vars, task>>

\* The mode that is being executed, the modes still to try, the outcomes of the
\* runs so far, whether the reviewer's fallback is under way, and the run that
\* is reported (0: none).
NewTask == [selected |-> "none", todo |-> <<>>, runs |-> <<>>,
            fallback |-> FALSE, adopted |-> 0]

\* Every run has an answer: the reviewer's branch for one that has none is dead.
Outcome(mode, how) ==
  [mode |-> mode, success |-> how = "answered", blocked |-> how = "blocked"]

InitTasks == InitRequests /\ task = [r \in Tasks |-> NewTask]

Only(r) == UNCHANGED <<shared, schema, told, lost, recorded>>

-----------------------------------------------------------------------------
\* The runs of a mode, each tried when the one before it has failed.
Cascade(mode) ==
  IF mode = "auto" THEN <<"nl2sql", "multitool", "keyword">> ELSE <<mode>>

\* The keyword run of the kernel plans with the model when it is told to; the
\* one of the orchestrator's executor never does.
PlansWithLLM(r, mode) == mode = "keyword" /\ PlannerLLM /\ Mode[r] # "multi_agent"

\* A call of the model that no budget is asked about.
Calling(r, who) == [job[r] EXCEPT !.who = who, !.at = "call", !.attempt = 0,
                                  !.answer = NoAnswer]

\* The next run of task t.
StartRun(r, t) ==
  /\ task' = [task EXCEPT ![r] = [t EXCEPT !.todo = Tail(@)]]
  /\ Update(r,
       CASE Head(t.todo) = "nl2sql" ->
              [job[r] EXCEPT !.who = "nl2sql", !.at = "generate", !.attempt = 0,
                             !.answer = NoAnswer, !.via = "none"]
         [] PlansWithLLM(r, Head(t.todo)) /\ Makes(DefaultProvider) -> Calling(r, "plan")
         [] OTHER -> [job[r] EXCEPT !.at = Head(t.todo)])
  /\ UNCHANGED loop

\* ... or the end of the task, which frees the loop.
Conclude(r, t) ==
  /\ task' = [task EXCEPT ![r] = t]
  /\ End(r, "done")
  /\ loop' = Idle

Select(r, mode) ==
  StartRun(r, [task[r] EXCEPT !.selected = mode, !.todo = Cascade(mode)])

\* What is stopped before any run: by the kernel, or, of a multi-agent task, by
\* RiskIntentGuard.
RiskBlocks(r) == Mode[r] = "multi_agent" /\ r \in Risky
Refused(r) == InjectionBlocks(r) \/ RiskBlocks(r)

\* create_task, run_with_options.
ArriveTask(r) ==
  /\ At(r, "new") /\ Kind[r] = "task" /\ Take(r)
  /\ IF Refused(r) THEN Goto(r, "refused") /\ UNCHANGED task
     ELSE IF Mode[r] = "multi_agent"
     THEN /\ Update(r, IF CoordinatorLLM /\ Makes(DefaultProvider) THEN Calling(r, "route")
                       ELSE [job[r] EXCEPT !.at = "route"])
          /\ UNCHANGED task
     ELSE LET t == [NewTask EXCEPT !.selected = Mode[r], !.todo = Cascade(Mode[r])] IN
          /\ task' = [task EXCEPT ![r] = t]
          /\ Goto(r, "next")
  /\ UNCHANGED <<shared, schema, told, lost, recorded>>

ConcludeRefused(r) ==
  /\ At(r, "refused")
  /\ Conclude(r, task[r])
  /\ Only(r)

NextRun(r) == At(r, "next") /\ StartRun(r, task[r]) /\ Only(r)

\* CoordinatorAgent.decide: a tool call that names a mode, else the rules.
RouteByLLM(r) ==
  /\ At(r, "answered") /\ job[r].who = "route"
  /\ job[r].answer # NoAnswer /\ job[r].answer.usable
  /\ \E mode \in Selectable : Select(r, mode)
  /\ Only(r)

RouteByRule(r) ==
  /\ \/ At(r, "route")
     \/ /\ At(r, "answered") /\ job[r].who = "route"
        /\ job[r].answer # NoAnswer => ~job[r].answer.usable
  /\ Select(r, Rule[Query[r]])
  /\ Only(r)

\* LLMToolPlanner.plan: with or without its help, a plan for the keyword run.
Planned(r) ==
  /\ At(r, "answered") /\ job[r].who = "plan"
  /\ Goto(r, "keyword")
  /\ UNCHANGED <<loop, task>> /\ Only(r)

-----------------------------------------------------------------------------
\* ReviewerAgent._suggest_fallback
SuggestFallback(mode) ==
  CASE mode = "nl2sql" -> "multitool"
    [] mode = "multitool" -> "keyword"
    [] mode = "keyword" -> "auto"
    [] OTHER -> "keyword"

\* Faulty: takes a blocked run for one that failed.
FallbackAllowedBlocked(r, run) == task[r].selected # "auto"

\* ReviewerAgent.review of a run that has not succeeded: no other mode after a
\* run that was blocked, nor after a cascade.
FallbackAllowed(r, run) == ~run.blocked /\ task[r].selected # "auto"

\* Faulty: reports the first mode's run whatever the fallback found.
AdoptFirst(t, run) == t.adopted = 0

\* The run of a fallback is reported only if the reviewer approves of it.
Adopt(t, run) == t.adopted = 0 \/ run.success

\* The outcome of a run: the cascade goes on, or the mode has its result, which
\* the multi-agent orchestrator has reviewed.
RunEnds(r, run) ==
  LET t == [task[r] EXCEPT !.runs = Append(@, run)]
      reported == [t EXCEPT !.todo = <<>>,
                     !.adopted = IF Adopt(t, run) THEN Len(t.runs) ELSE @]
  IN IF ~run.success /\ t.todo # <<>> THEN StartRun(r, t)
     ELSE IF Mode[r] = "multi_agent" /\ ~t.fallback /\ ~run.success
             /\ FallbackAllowed(r, run)
     THEN LET mode == SuggestFallback(t.selected) IN
          StartRun(r, [reported EXCEPT !.selected = mode, !.fallback = TRUE,
                                          !.todo = Cascade(mode)])
     ELSE Conclude(r, reported)

\* The end of an nl2sql run.  success is what the guard said of the SQL; that
\* its execution failed is part of the answer.
NL2SQLRunEnds(r) ==
  /\ At(r, "made") /\ Kind[r] = "task"
  /\ RunEnds(r, Outcome("nl2sql", IF job[r].result.allowed THEN "answered" ELSE "failed"))
  /\ Only(r)

\* A pipeline raised: the auto mode of the kernel goes on with the keywords at
\* once, and everything else ends here, the orchestrator without any result.
RunRaises(r) ==
  /\ At(r, "raised") \/ At(r, "multitool")
  /\ Kind[r] = "task"
  /\ LET mode == IF At(r, "raised") THEN "nl2sql" ELSE "multitool"
         t == [task[r] EXCEPT !.runs = Append(@, Outcome(mode, "failed"))] IN
     IF Mode[r] = "auto"
     THEN StartRun(r, [t EXCEPT !.todo = <<"keyword">>])
     ELSE Conclude(r, [t EXCEPT !.todo = <<>>,
                         !.adopted = IF Mode[r] = "multi_agent" THEN 0 ELSE Len(t.runs)])
  /\ Only(r)

\* A run with tools: blocked is stopped by the policy or waiting for an
\* approval.
Ways == {"answered", "failed", "blocked"}
MultitoolRunEnds(r) ==
  /\ At(r, "multitool")
  /\ \E how \in Ways : RunEnds(r, Outcome("multitool", how))
  /\ Only(r)

KeywordRunEnds(r) ==
  /\ At(r, "keyword")
  /\ \E how \in Ways : RunEnds(r, Outcome("keyword", how))
  /\ Only(r)

TaskStep(r) ==
  \/ ArriveTask(r) \/ ConcludeRefused(r) \/ NextRun(r)
  \/ RouteByLLM(r) \/ RouteByRule(r) \/ Planned(r)
  \/ NL2SQLRunEnds(r) \/ RunRaises(r) \/ MultitoolRunEnds(r) \/ KeywordRunEnds(r)
=============================================================================
