-------------------------- MODULE LLMBudgetProofs --------------------------
(***************************************************************************)
(* Proofs about the accounts of LLMService: how far a scope can exceed its *)
(* limit, that what is told of a charge is put down once, and that the     *)
(* reports and the replies are evidence of the calls.                      *)
(***************************************************************************)
EXTENDS LLMServiceProofs, Sums

-----------------------------------------------------------------------------
(* What a step does to the accounts.                                       *)

\* Who was let through by the budget, and may still be put down to it.
UnderWay(j) ==
  j.at \in {"lookup", "call", "compatible", "record"} /\ j.who \in {"nl2sql", "judge"}

Ledger == <<spent, told, recorded>>

\* An answer to be put down costs what an answer may cost.
Priced(j) == j.at = "record" => j.answer.cost \in Costs \cup {0}

\* A step that has nothing to do with the accounts.
Quiet(q, j) ==
  job[q].at # "record" /\ j.at # "record" /\ (UnderWay(j) => UnderWay(job[q]))

\* One that lets a request through, one that brings an answer, and one that puts
\* it down.
Admits(q) ==
  /\ CheckBudget /\ UNCHANGED Ledger
  /\ job[q].at = "check" /\ job'[q].at = "lookup"
Charges(q) ==
  \E cost \in Costs \cup {0} :
    /\ UNCHANGED <<spent, recorded>>
    /\ told' = [told EXCEPT ![job[q].who] = @ + cost]
    /\ job[q].at \in {"call", "compatible"} /\ job'[q].who = job[q].who
    /\ job'[q].answer.cost = cost /\ job'[q].answer # NoAnswer
    /\ job[q].who = "nl2sql" => job'[q].at = "record"
    /\ job[q].who \notin {"nl2sql", "judge"} => job'[q].at = "answered"
Settles(q) ==
  /\ Record(q) /\ job[q].who \in {"nl2sql", "judge"}
  /\ job'[q].at = "store"
Books(q) ==
  \/ UNCHANGED Ledger /\ Quiet(q, job'[q])
  \/ Admits(q) \/ Charges(q) \/ Settles(q)

\* Going to where no accounts are kept is quiet, from wherever but the record.
LEMMA ElsewhereQuiet ==
  ASSUME NEW q, DOMAIN job[q] = JobFields, job[q].at # "record", NEW p \in Elsewhere
  PROVE  Quiet(q, [job[q] EXCEPT !.at = p]) /\ Quiet(q, [NewJob EXCEPT !.at = p])
<1>1. [job[q] EXCEPT !.at = p].at = p /\ [NewJob EXCEPT !.at = p].at = p
  BY DEF JobFields, NewJob
<1>2. p \notin {"record", "lookup", "call", "compatible"}
  BY DEF Elsewhere
<1>. QED BY <1>1, <1>2 DEF Quiet, UnderWay

\* Whoever calls without a budget is no account's.
LEMMA CallingQuiet ==
  ASSUME NEW q, DOMAIN job[q] = JobFields, job[q].at # "record",
         NEW who \in {"route", "plan", "probe", "pilot", "preflight"}
  PROVE  Quiet(q, Calling(q, who))
<1>1. Calling(q, who).who = who /\ Calling(q, who).at = "call"
  BY DEF Calling, JobFields
<1>. QED BY <1>1 DEF Quiet, UnderWay

\* Nor is who goes on without the model.
LEMMA WithoutQuiet ==
  ASSUME NEW q, DOMAIN job[q] = JobFields, job[q].at # "record"
  PROVE  Quiet(q, Without(q)) /\ Quiet(q, Failed(q))
<1>1. Without(q).at \in {"judged", "made", "answered"}
  BY DEF Without, JudgeUnavailable, JobFields
<1>2. Failed(q).at \in {"judged", "store", "answered"}
  <2>1. job[q].who = "nl2sql" => "at" \in DOMAIN Without(q)
    BY DEF Without, JobFields
  <2>2. CASE job[q].who = "nl2sql"
    <3>. DEFINE j == Without(q)
    <3>1. Failed(q) = [j EXCEPT !.at = "store"] /\ "at" \in DOMAIN j
      BY <2>1, <2>2 DEF Failed
    <3>. HIDE DEF j
    <3>. QED BY <3>1
  <2>3. CASE job[q].who # "nl2sql"
    BY <2>3 DEF Failed, Without, JudgeUnavailable, JobFields
  <2>. QED BY <2>2, <2>3
<1>. QED BY <1>1, <1>2 DEF Quiet, UnderWay

\* The steps of the pipeline.
LEMMA PipelineBooks ==
  ASSUME NL2SQLRequestsAssumption, DOMAIN job = Requests, NEW r \in Requests,
         JobKeyed(r, job[r]), PipelineStep(r)
  PROVE  Books(r)
<1>0. DOMAIN job[r] = JobFields
  BY DEF JobKeyed
<1>1. CASE Generate(r)
  <2>1. job[r].at = "generate" /\ UNCHANGED Ledger
    BY <1>1 DEF Generate, At, Ledger, shared
  <2>2. job'[r].at \in {"made", "check"}
    <3>1. \E j : /\ Update(r, j)
                 /\ \/ \E result : j = [job[r] EXCEPT !.at = "made", !.schema = schema, !.result = result]
                    \/ j = [job[r] EXCEPT !.at = "check", !.schema = schema]
      BY <1>1 DEF Generate
    <3>2. PICK j : /\ job'[r] = j
                   /\ \/ \E result : j = [job[r] EXCEPT !.at = "made", !.schema = schema, !.result = result]
                      \/ j = [job[r] EXCEPT !.at = "check", !.schema = schema]
      BY <3>1, Gets
    <3>3. ASSUME NEW result
          PROVE  [job[r] EXCEPT !.at = "made", !.schema = schema, !.result = result].at = "made"
      BY <1>0 DEF JobFields
    <3>4. [job[r] EXCEPT !.at = "check", !.schema = schema].at = "check"
      BY <1>0 DEF JobFields
    <3>. QED BY <3>2, <3>3, <3>4
  <2>. QED BY <2>1, <2>2 DEF Books, Quiet, UnderWay
<1>2. CASE GenerateRaises(r)
  <2>1. job[r].at = "generate" /\ UNCHANGED Ledger /\ job'[r] = [job[r] EXCEPT !.at = "raised"]
    BY <1>2, Gets DEF GenerateRaises, At, Ledger, shared
  <2>2. job'[r].at = "raised"
    BY <1>0, <2>1 DEF JobFields
  <2>. QED BY <2>1, <2>2 DEF Books, Quiet, UnderWay
<1>3. CASE Check(r)
  <2>1. job[r].at = "check" /\ UNCHANGED Ledger
    BY <1>3 DEF Check, At, Ledger, shared
  <2>2. CASE CheckBudget /\ Goto(r, "lookup")
    <3>1. job'[r] = [job[r] EXCEPT !.at = "lookup"]
      BY <2>2, Gets
    <3>2. job'[r].at = "lookup"
      BY <1>0, <3>1 DEF JobFields
    <3>. QED BY <2>1, <2>2, <3>2 DEF Books, Admits
  <2>3. CASE Update(r, Without(r))
    <3>1. job'[r] = Without(r)
      BY <2>3, Gets
    <3>. QED BY <1>0, <2>1, <3>1, WithoutQuiet DEF Books
  <2>. QED BY <1>3, <2>2, <2>3 DEF Check
<1>4. CASE LookupHit(r)
  <2>. DEFINE kept == cache[CacheKey(r)].value
  <2>1. job[r].at = "lookup" /\ UNCHANGED Ledger
    BY <1>4 DEF LookupHit, At, Ledger
  <2>2. job'[r] = [job[r] EXCEPT !.at = IF job[r].who = "judge" THEN "judged" ELSE "made",
                              !.result = kept.result, !.via = "cache", !.stored = kept.at]
    BY <1>4, Gets DEF LookupHit
  <2>. HIDE DEF kept
  <2>3. job'[r].at \in {"judged", "made"}
    BY <1>0, <2>2 DEF JobFields
  <2>. QED BY <2>1, <2>3 DEF Books, Quiet, UnderWay
<1>5. CASE LookupMiss(r)
  <2>1. job[r].at = "lookup" /\ UNCHANGED Ledger
    BY <1>5 DEF LookupMiss, At, Ledger
  <2>2. CASE Goto(r, "call")
    <3>1. job'[r] = [job[r] EXCEPT !.at = "call"]
      BY <2>2, Gets
    <3>2. job'[r].at = "call" /\ job'[r].who = job[r].who
      BY <1>0, <3>1 DEF JobFields
    <3>. QED BY <2>1, <3>2 DEF Books, Quiet, UnderWay
  <2>3. CASE Update(r, Without(r))
    <3>1. job'[r] = Without(r)
      BY <2>3, Gets
    <3>. QED BY <1>0, <2>1, <3>1, WithoutQuiet DEF Books
  <2>. QED BY <1>5, <2>2, <2>3 DEF LookupMiss
<1>6. ASSUME NEW usable \in BOOLEAN, NEW cost \in Costs \cup {0}, NEW loses,
             Answered(r, usable, cost, loses), job[r].at \in {"call", "compatible"}, UNCHANGED <<spent, recorded>>
      PROVE  Books(r)
  <2>. DEFINE result == IF job[r].who # "nl2sql" THEN job[r].result
                        ELSE IF usable THEN Result("llm", TRUE, r, job[r].schema)
                        ELSE Unavailable(r, job[r].schema)
              at == NextOfAnswer(r, usable)
              answer == [usable |-> usable, cost |-> cost]
  <2>1. /\ job'[r] = [job[r] EXCEPT !.at = at, !.answer = answer, !.via = "provider",
                                    !.result = result]
        /\ told' = [told EXCEPT ![job[r].who] = @ + cost]
    BY <1>6, Gets DEF Answered, Charge
  <2>2. /\ job[r].who = "nl2sql" => at = "record"
        /\ job[r].who \notin {"nl2sql", "judge"} => at = "answered"
    BY DEF NextOfAnswer
  <2>3. answer.cost = cost /\ answer # NoAnswer
    <3>1. cost \in Nat
      BY DEF NL2SQLRequestsAssumption
    <3>2. answer \in [usable : BOOLEAN, cost : Nat]
      BY <3>1
    <3>. QED BY <3>2 DEF NL2SQLRequestsAssumption
  <2>. HIDE DEF result, at, answer
  <2>4. job'[r].at = at /\ job'[r].who = job[r].who /\ job'[r].answer = answer
    BY <1>0, <2>1 DEF JobFields
  <2>5. /\ job'[r].who = job[r].who /\ job'[r].answer.cost = cost
        /\ job'[r].answer # NoAnswer
        /\ job[r].who = "nl2sql" => job'[r].at = "record"
        /\ job[r].who \notin {"nl2sql", "judge"} => job'[r].at = "answered"
    BY <2>2, <2>3, <2>4
  <2>6. UNCHANGED <<spent, recorded>> /\ told' = [told EXCEPT ![job[r].who] = @ + cost]
    BY <1>6, <2>1
  <2>7. Charges(r)
    BY <1>6, <2>5, <2>6 DEF Charges
  <2>. QED BY <2>7 DEF Books
<1>7. CASE FakeAnswers(r) \/ LiteLLMAnswers(r) \/ OpenAIAnswers(r) \/ CompatibleAnswers(r)
  <2>1. /\ UNCHANGED <<spent, recorded>> /\ job[r].at \in {"call", "compatible"}
        /\ \E usable \in BOOLEAN, cost \in Costs \cup {0} : \E loses :
             Answered(r, usable, cost, loses)
    <3>1. Usefulness \subseteq BOOLEAN
      BY DEF Usefulness, Usable
    <3>2. CASE FakeAnswers(r)
      BY <3>2 DEF FakeAnswers, At, shared
    <3>3. CASE LiteLLMAnswers(r)
      BY <3>1, <3>3 DEF LiteLLMAnswers, AnyAnswer, At, shared
    <3>4. CASE OpenAIAnswers(r) \/ CompatibleAnswers(r)
      BY <3>1, <3>4 DEF OpenAIAnswers, CompatibleAnswers, UnpricedAnswer, AnyAnswer, At, shared
    <3>. QED BY <1>7, <3>2, <3>3, <3>4
  <2>. QED BY <1>6, <2>1
<1>8. CASE LiteLLMErrs(r) \/ OpenAIErrs(r) \/ CompatibleErrs(r)
  <2>1. job[r].at \in {"call", "compatible"} /\ UNCHANGED Ledger
    BY <1>8 DEF LiteLLMErrs, OpenAIErrs, CompatibleErrs, Wasted, At, Ledger, shared
  <2>2. \/ job'[r] = Failed(r)
        \/ At(r, "call") /\ job'[r] = [job[r] EXCEPT !.attempt = @ + 1]
        \/ At(r, "call") /\ job'[r] = [job[r] EXCEPT !.at = "compatible"]
    BY <1>8, Gets DEF LiteLLMErrs, OpenAIErrs, CompatibleErrs, Erred
  <2>3. CASE job'[r] = Failed(r)
    BY <1>0, <2>1, <2>3, WithoutQuiet DEF Books
  <2>4. CASE \/ At(r, "call") /\ job'[r] = [job[r] EXCEPT !.attempt = @ + 1]
             \/ At(r, "call") /\ job'[r] = [job[r] EXCEPT !.at = "compatible"]
    <3>1. job'[r].at \in {"call", "compatible"} /\ job'[r].who = job[r].who
      BY <1>0, <2>4 DEF JobFields, At
    <3>. QED BY <2>1, <3>1 DEF Books, Quiet, UnderWay
  <2>. QED BY <2>2, <2>3, <2>4
<1>9. CASE Record(r)
  <2>1. job'[r] = [job[r] EXCEPT !.at = "store"] /\ job[r].at = "record"
    BY <1>9, Gets DEF Record, At
  <2>2. job'[r].at = "store" /\ job[r].who \in {"nl2sql", "judge"}
    BY <1>0, <2>1 DEF JobKeyed, JobFields
  <2>. QED BY <1>9, <2>2 DEF Books, Settles
<1>10. CASE Store(r)
  <2>1. /\ job[r].at = "store" /\ UNCHANGED Ledger
        /\ job'[r] = [job[r] EXCEPT !.at = IF job[r].who = "judge" THEN "judged" ELSE "made"]
    BY <1>10, Gets DEF Store, At, Ledger
  <2>2. job'[r].at \in {"judged", "made"}
    BY <1>0, <2>1 DEF JobFields
  <2>. QED BY <2>1, <2>2 DEF Books, Quiet, UnderWay
<1>. QED BY <1>1, <1>2, <1>3, <1>4, <1>5, <1>7, <1>8, <1>9, <1>10 DEF PipelineStep

\* The endpoints keep no accounts.
LEMMA EndpointQuiet ==
  ASSUME DOMAIN job = Requests, NEW r \in Requests, JobKeyed(r, job[r]), EndpointStep(r)
  PROVE  Quiet(r, job'[r]) /\ UNCHANGED Ledger
<1>0. DOMAIN job[r] = JobFields
  BY DEF JobKeyed
<1>1. ASSUME job[r].at # "record", job'[r].at \notin {"record", "lookup", "call", "compatible"}
      PROVE  Quiet(r, job'[r])
  BY <1>1 DEF Quiet, UnderWay
<1>2. CASE Arrive(r) \/ OpenStream(r)
  <2>1. /\ job[r].at = "new" /\ UNCHANGED Ledger
        /\ \/ job'[r] = [job[r] EXCEPT !.at = "made"] \/ job'[r] = [job[r] EXCEPT !.at = "generate"]
           \/ job'[r] = [job[r] EXCEPT !.at = "opened"]
    BY <1>2, Gets DEF Arrive, OpenStream, Blocked, At, Ledger, shared
  <2>. QED BY <1>0, <1>1, <2>1 DEF JobFields
<1>3. CASE Reply(r) \/ FinishStream(r) \/ Disconnect(r)
  <2>1. UNCHANGED Ledger /\ job[r].at # "record"
    BY <1>3 DEF Reply, Replies, FinishStream, Disconnect, At, Ledger, shared
  <2>2. \E p \in Elsewhere : job'[r] = [NewJob EXCEPT !.at = p]
    BY <1>3, Gets DEF Reply, FinishStream, Disconnect, Elsewhere
  <2>. QED BY <1>0, <2>1, <2>2, ElsewhereQuiet
<1>4. CASE ArriveBadCases(r) \/ NextBadCase(r)
  <2>1. UNCHANGED Ledger /\ job[r].at \in {"new", "judged"} /\ JudgeCase(r)
    BY <1>4 DEF ArriveBadCases, NextBadCase, At, Ledger, shared
  <2>2. job'[r] = [NewJob EXCEPT !.who = "judge", !.case = job[r].case + 1,
                                 !.at = IF FakeJudges(r) THEN "judged" ELSE "check"]
    BY <2>1, Gets DEF JudgeCase
  <2>3. job'[r].at \in {"judged", "check"}
    BY <2>2 DEF NewJob
  <2>. QED BY <1>1, <2>1, <2>3
<1>5. CASE ArriveEval(r)
  <2>1. /\ job[r].at = "new" /\ UNCHANGED Ledger
        /\ job'[r] = [job[r] EXCEPT !.who = "eval",
                              !.at = IF Generator(r) THEN "evaluate" ELSE "made"]
    BY <1>5, Gets DEF ArriveEval, At, Ledger, shared
  <2>2. job'[r].at \in {"evaluate", "made"}
    BY <1>0, <2>1 DEF JobFields
  <2>. QED BY <1>1, <2>1, <2>2
<1>6. CASE EvaluateCase(r)
  <2>. DEFINE next == job[r].case + 1
              p == IF Makes(Provider[r]) /\ Cases[r][next] = "normal"
                   THEN "call" ELSE "evaluate"
  <2>1. /\ job'[r] = [NewJob EXCEPT !.who = "eval", !.case = next, !.at = p]
        /\ job[r].at = "evaluate" /\ UNCHANGED Ledger
    BY <1>6, Gets DEF EvaluateCase, At, Ledger, shared
  <2>2. p \in {"call", "evaluate"}
    OBVIOUS
  <2>. HIDE DEF next, p
  <2>3. job'[r].at = p /\ job'[r].who = "eval"
    BY <2>1 DEF NewJob
  <2>. QED BY <2>1, <2>2, <2>3 DEF Quiet, UnderWay
<1>7. CASE ExplainFailure(r)
  <2>1. /\ job'[r] = [job[r] EXCEPT !.at = "call", !.attempt = 0, !.again = TRUE]
        /\ job[r].who = "eval" /\ job[r].at = "answered" /\ UNCHANGED Ledger
    BY <1>7, Gets DEF ExplainFailure, At, Ledger, shared
  <2>2. job'[r].who = "eval" /\ job'[r].at = "call"
    BY <1>0, <2>1 DEF JobFields
  <2>. QED BY <2>1, <2>2 DEF Quiet, UnderWay
<1>8. CASE EvalRaises(r) \/ CaseEvaluated(r) \/ AdvanceStream(r)
  <2>1. UNCHANGED Ledger /\ job[r].at \in {"evaluate", "answered", "opened"}
    BY <1>8 DEF EvalRaises, CaseEvaluated, AdvanceStream, At, Ledger, shared
  <2>2. \E p \in {"raised", "evaluate", "generate"} : job'[r] = [job[r] EXCEPT !.at = p]
    BY <1>8, Gets DEF EvalRaises, CaseEvaluated, AdvanceStream
  <2>3. job'[r].at \in {"raised", "evaluate", "generate"}
    BY <1>0, <2>2 DEF JobFields
  <2>. QED BY <1>1, <2>1, <2>3
<1>. QED BY <1>2, <1>3, <1>4, <1>5, <1>6, <1>7, <1>8 DEF EndpointStep

\* Pilots and preflights keep none, and the checks of the settings.
LEMMA PilotQuiet ==
  ASSUME DOMAIN job = Requests, NEW r \in Requests, JobKeyed(r, job[r]),
         PilotStep(r) \/ ArrivePreflight(r) \/ ArriveCheck(r)
  PROVE  Quiet(r, job'[r]) /\ UNCHANGED Ledger
<1>0. DOMAIN job[r] = JobFields
  BY DEF JobKeyed
<1>1. UNCHANGED Ledger
  <2>1. CASE PilotStep(r)
    BY <2>1 DEF PilotStep, StartPilot, ProbeEnds, Load, DangerousCase, NormalCase, CaseEnds,
       Evaluated, WriteJson, WriteMarkdown, Writes, Others, shared, Ledger
  <2>2. CASE ArrivePreflight(r) \/ ArriveCheck(r)
    BY <2>2 DEF ArrivePreflight, ArriveCheck, shared, Ledger
  <2>. QED BY <2>1, <2>2
<1>2. job[r].at # "record"
  <2>1. CASE PilotStep(r)
    BY <2>1 DEF PilotStep, StartPilot, ProbeEnds, Load, DangerousCase, NormalCase, CaseEnds,
       Evaluated, WriteJson, WriteMarkdown, Writes, At
  <2>2. CASE ArrivePreflight(r) \/ ArriveCheck(r)
    BY <2>2 DEF ArrivePreflight, ArriveCheck, At
  <2>. QED BY <2>1, <2>2
<1>. DEFINE Goes == \/ \E p \in Elsewhere : job'[r] = [job[r] EXCEPT !.at = p]
                    \/ \E p \in Elsewhere : job'[r] = [NewJob EXCEPT !.at = p]
                    \/ job'[r] = Calling(r, "probe") \/ job'[r] = Calling(r, "pilot")
                    \/ job'[r] = Calling(r, "preflight")
<1>3. Goes => Quiet(r, job'[r])
  <2>1. /\ Quiet(r, Calling(r, "probe")) /\ Quiet(r, Calling(r, "pilot"))
        /\ Quiet(r, Calling(r, "preflight"))
    BY <1>0, <1>2, CallingQuiet
  <2>2. ASSUME NEW p \in Elsewhere
        PROVE  Quiet(r, [job[r] EXCEPT !.at = p]) /\ Quiet(r, [NewJob EXCEPT !.at = p])
    BY <1>0, <1>2, ElsewhereQuiet
  <2>. QED BY <2>1, <2>2, Zenon
<1>4. CASE StartPilot(r)
  <2>1. Goes
    BY <1>4, Gets DEF StartPilot, Exit, Elsewhere
  <2>. QED BY <1>1, <1>3, <2>1
<1>5. CASE ProbeEnds(r)
  <2>1. Goes
    BY <1>5, Gets DEF ProbeEnds, Exit, Elsewhere
  <2>. QED BY <1>1, <1>3, <2>1
<1>6. CASE Load(r)
  <2>1. \/ job'[r] = [NewJob EXCEPT !.at = "done"]
        \/ job'[r] = [job[r] EXCEPT !.at = "case", !.schema = schema]
    BY <1>6, Gets DEF Load, Exit
  <2>2. job'[r].at \in {"done", "case"}
    BY <1>0, <2>1 DEF JobFields, NewJob
  <2>. QED BY <1>1, <1>2, <2>2 DEF Quiet, UnderWay
<1>7. CASE DangerousCase(r) \/ CaseEnds(r) \/ NormalCase(r)
  <2>1. CASE DangerousCase(r)
    <3>1. Goes
      BY <2>1, Gets DEF DangerousCase, Put, Elsewhere
    <3>. QED BY <1>1, <1>3, <3>1
  <2>2. CASE CaseEnds(r)
    <3>1. Goes
      BY <2>2, Gets DEF CaseEnds, Put, Elsewhere
    <3>. QED BY <1>1, <1>3, <3>1
  <2>3. CASE NormalCase(r)
    <3>1. Goes
      BY <2>3, Gets DEF NormalCase, AskModel, Put, Elsewhere
    <3>. QED BY <1>1, <1>3, <3>1
  <2>. QED BY <1>7, <2>1, <2>2, <2>3
<1>8. CASE Evaluated(r) \/ WriteJson(r) \/ WriteMarkdown(r)
  <2>1. Goes
    BY <1>8, Gets DEF Evaluated, WriteJson, WriteMarkdown, Writes, Exit, Elsewhere
  <2>. QED BY <1>1, <1>3, <2>1
<1>9. CASE ArrivePreflight(r)
  <2>1. \/ job'[r] = Calling(r, "preflight")
        \/ job'[r] = [job[r] EXCEPT !.who = "preflight", !.at = "answered"]
    BY <1>9, Gets DEF ArrivePreflight
  <2>2. job'[r] = [job[r] EXCEPT !.who = "preflight", !.at = "answered"]
          => job'[r].at = "answered"
    BY <1>0 DEF JobFields
  <2>3. job'[r].at = "answered" => Quiet(r, job'[r])
    BY <1>2 DEF Quiet, UnderWay
  <2>. QED BY <1>1, <1>3, <2>1, <2>2, <2>3
<1>10. CASE ArriveCheck(r)
  <2>1. Goes
    BY <1>10, Gets DEF ArriveCheck, Elsewhere
  <2>. QED BY <1>1, <1>3, <2>1
<1>. QED BY <1>4, <1>5, <1>6, <1>7, <1>8, <1>9, <1>10 DEF PilotStep

\* Nor does what is between the runs of a task.
LEMMA StartRunQuiet ==
  ASSUME DOMAIN job = Requests, NEW r \in Requests, DOMAIN job[r] = JobFields,
         job[r].at # "record", NEW t, StartRun(r, t), Head(t.todo) \in RunModes
  PROVE  Quiet(r, job'[r])
<1>. DEFINE j == [job[r] EXCEPT !.who = "nl2sql", !.at = "generate", !.attempt = 0,
                                !.answer = NoAnswer, !.via = "none"]
            k == [job[r] EXCEPT !.at = Head(t.todo)]
<1>1. \/ job'[r] = j \/ job'[r] = Calling(r, "plan")
      \/ Head(t.todo) # "nl2sql" /\ job'[r] = k
  BY Gets DEF StartRun
<1>2. j.at = "generate" /\ k.at = Head(t.todo)
  BY DEF JobFields
<1>3. Quiet(r, Calling(r, "plan"))
  BY CallingQuiet
<1>. HIDE DEF j, k
<1>4. Head(t.todo) \notin {"record", "lookup", "call", "compatible"}
  BY DEF RunModes
<1>5. CASE job'[r] = Calling(r, "plan")
  BY <1>3, <1>5
<1>6. CASE job'[r] # Calling(r, "plan")
  <2>1. job'[r].at \notin {"record", "lookup", "call", "compatible"}
    BY <1>1, <1>2, <1>4, <1>6
  <2>. QED BY <2>1 DEF Quiet, UnderWay
<1>. QED BY <1>5, <1>6

\* A task that ends is quiet.
LEMMA ConcludeQuiet ==
  ASSUME DOMAIN job = Requests, NEW r \in Requests, DOMAIN job[r] = JobFields,
         job[r].at # "record", NEW t, Conclude(r, t)
  PROVE  Quiet(r, job'[r])
<1>1. job'[r] = [NewJob EXCEPT !.at = "done"]
  BY Gets DEF Conclude
<1>. QED BY <1>1, ElsewhereQuiet DEF Elsewhere

\* So are the steps of a task but those of its pipeline.
LEMMA TaskQuiet ==
  ASSUME Shape, TaskModesAssumption, NEW r \in Tasks, JobKeyed(r, job[r]), TaskKeyed(r),
         TaskStep(r)
  PROVE  Quiet(r, job'[r]) /\ UNCHANGED Ledger
<1>0. /\ DOMAIN job = Requests /\ r \in Requests /\ DOMAIN job[r] = JobFields
      /\ DOMAIN task[r] = TaskFields
  BY DEF Shape, Tasks, JobKeyed, TaskRecord
<1>1. UNCHANGED Ledger
  BY DEF TaskStep, ArriveTask, ConcludeRefused, NextRun, RouteByLLM, RouteByRule,
     Planned, NL2SQLRunEnds, RunRaises, MultitoolRunEnds, KeywordRunEnds, Only, shared, Ledger
<1>2. job[r].at # "record"
  BY DEF TaskStep, ArriveTask, ConcludeRefused, NextRun, RouteByLLM, RouteByRule,
     Planned, NL2SQLRunEnds, RunRaises, MultitoolRunEnds, KeywordRunEnds, At
<1>3. ASSUME NEW t, StartRun(r, t), t.todo \in Seq(RunModes), t.todo # <<>>
      PROVE  Quiet(r, job'[r])
  <2>1. Head(t.todo) \in RunModes
    BY <1>3
  <2>. QED BY <1>0, <1>2, <1>3, <2>1, StartRunQuiet
<1>4. ASSUME NEW t, Conclude(r, t) PROVE Quiet(r, job'[r])
  BY <1>0, <1>2, <1>4, ConcludeQuiet
<1>5. CASE ArriveTask(r)
  <2>1. \/ job'[r] = [job[r] EXCEPT !.at = "refused"]
        \/ job'[r] = [job[r] EXCEPT !.at = "route"]
        \/ job'[r] = Calling(r, "route")
        \/ job'[r] = [job[r] EXCEPT !.at = "next"]
    BY <1>0, <1>5, Gets DEF ArriveTask
  <2>2. Quiet(r, Calling(r, "route"))
    BY <1>0, <1>2, CallingQuiet
  <2>3. ASSUME NEW p \in {"refused", "route", "next"}, job'[r] = [job[r] EXCEPT !.at = p]
        PROVE  Quiet(r, job'[r])
    <3>1. job'[r].at = p
      BY <1>0, <2>3 DEF JobFields
    <3>. QED BY <1>2, <3>1 DEF Quiet, UnderWay
  <2>. QED BY <1>1, <2>1, <2>2, <2>3
<1>6. CASE ConcludeRefused(r)
  BY <1>1, <1>4, <1>6 DEF ConcludeRefused
<1>7. CASE NextRun(r)
  <2>1. StartRun(r, task[r]) /\ task[r].todo # <<>> /\ task[r].todo \in Seq(RunModes)
    BY <1>7 DEF NextRun, TaskKeyed, At
  <2>. QED BY <1>1, <1>3, <2>1
<1>8. CASE RouteByLLM(r) \/ RouteByRule(r)
  <2>1. PICK mode \in Selectable : Select(r, mode)
    BY <1>8 DEF RouteByLLM, RouteByRule, TaskModesAssumption
  <2>. DEFINE t == [task[r] EXCEPT !.selected = mode, !.todo = Cascade(mode)]
  <2>2. StartRun(r, t)
    BY <2>1 DEF Select
  <2>3. t.todo = Cascade(mode)
    BY <1>0 DEF TaskFields
  <2>. HIDE DEF t
  <2>4. t.todo \in Seq(RunModes) /\ t.todo # <<>>
    BY <2>3, CascadeModes
  <2>. QED BY <1>1, <1>3, <2>2, <2>4
<1>9. CASE Planned(r)
  <2>1. job'[r] = [job[r] EXCEPT !.at = "keyword"]
    BY <1>0, <1>9, Gets DEF Planned
  <2>2. job'[r].at = "keyword"
    BY <1>0, <2>1 DEF JobFields
  <2>. QED BY <1>1, <1>2, <2>2 DEF Quiet, UnderWay
<1>10. CASE NL2SQLRunEnds(r) \/ MultitoolRunEnds(r) \/ KeywordRunEnds(r)
  <2>1. PICK run \in Runs : RunEnds(r, run)
    BY <1>10, OutcomeIsRun DEF NL2SQLRunEnds, MultitoolRunEnds, KeywordRunEnds, RunModes
  <2>2. CASE CascadeGoesOn(r, run)
    <3>1. PICK t : t.todo = task[r].todo /\ StartRun(r, t)
      BY <2>2 DEF CascadeGoesOn
    <3>2. t.todo \in Seq(RunModes) /\ t.todo # <<>>
      BY <2>2, <3>1 DEF CascadeGoesOn, TaskKeyed
    <3>. QED BY <1>1, <1>3, <3>1, <3>2
  <2>3. CASE FallsBack(r, run)
    <3>. DEFINE mode == SuggestFallback(task[r].selected)
    <3>1. PICK t : t.todo = Cascade(mode) /\ StartRun(r, t)
      BY <2>3 DEF FallsBack
    <3>2. mode \in Selectable
      BY DEF SuggestFallback, Selectable, RunModes
    <3>. HIDE DEF mode
    <3>3. t.todo \in Seq(RunModes) /\ t.todo # <<>>
      BY <3>1, <3>2, CascadeModes
    <3>. QED BY <1>1, <1>3, <3>1, <3>3
  <2>4. CASE Concludes(r, run)
    <3>1. job'[r] = [NewJob EXCEPT !.at = "done"]
      BY <2>4 DEF Concludes
    <3>. QED BY <1>0, <1>1, <1>2, <3>1, ElsewhereQuiet DEF Elsewhere
  <2>. QED BY <2>1, <2>2, <2>3, <2>4, RunEndsMeans
<1>11. CASE RunRaises(r)
  <2>. DEFINE mode == IF At(r, "raised") THEN "nl2sql" ELSE "multitool"
              t == [task[r] EXCEPT !.runs = Append(@, Outcome(mode, "failed"))]
              u == [t EXCEPT !.todo = <<"keyword">>]
              v == [t EXCEPT !.todo = <<>>,
                         !.adopted = IF Mode[r] = "multi_agent" THEN 0 ELSE Len(t.runs)]
  <2>1. IF Mode[r] = "auto" THEN StartRun(r, u) ELSE Conclude(r, v)
    BY <1>11 DEF RunRaises
  <2>2. DOMAIN t = TaskFields
    BY <1>0 DEF TaskFields
  <2>. HIDE DEF t
  <2>3. u.todo = <<"keyword">>
    BY <2>2 DEF TaskFields
  <2>. HIDE DEF u, v
  <2>4. u.todo \in Seq(RunModes) /\ u.todo # <<>>
    BY <2>3 DEF RunModes
  <2>5. CASE Mode[r] = "auto"
    <3>1. StartRun(r, u)
      BY <2>1, <2>5
    <3>. QED BY <1>1, <1>3, <2>4, <3>1
  <2>6. CASE Mode[r] # "auto"
    <3>1. Conclude(r, v)
      BY <2>1, <2>6
    <3>. QED BY <1>1, <1>4, <3>1
  <2>. QED BY <2>5, <2>6
<1>. QED BY <1>5, <1>6, <1>7, <1>8, <1>9, <1>10, <1>11 DEF TaskStep

\* Whatever happens happens to the accounts in one of the four ways, or outside
\* of all requests.
LEMMA StepBooks ==
  ASSUME NL2SQLRequestsAssumption, TaskModesAssumption, Keyed, [Next]_pilotVars
  PROVE  \/ UNCHANGED <<job, task, Ledger, loop>>
         \/ \E q \in Requests : Frame(q) /\ Books(q)
<1>0. /\ Shape /\ DOMAIN job = Requests
      /\ \A r \in Requests : JobKeyed(r, job[r])
      /\ \A r \in Tasks : r \in Requests /\ TaskKeyed(r)
  BY DEF Keyed, Shape, Tasks
<1>1. CASE UNCHANGED pilotVars \/ Finished
  BY <1>1 DEF Finished, pilotVars, taskVars, vars, shared, Ledger
<1>2. CASE Environment /\ UNCHANGED <<task, pilot, gate>>
  BY <1>2 DEF Environment, Tick, shared, Ledger
<1>3. ASSUME NEW q \in Open, PipelineStep(q) PROVE q \in Requests /\ Frame(q) /\ Books(q)
  BY <1>0, <1>3, PipelineFrame, PipelineBooks DEF Open
<1>4. ASSUME NEW q \in Open, EndpointStep(q) PROVE q \in Requests /\ Frame(q) /\ Books(q)
  BY <1>0, <1>4, EndpointFrame, EndpointQuiet DEF Open, Books
<1>5. ASSUME NEW q \in Open, PilotStep(q) \/ ArrivePreflight(q) \/ ArriveCheck(q)
      PROVE  q \in Requests /\ Frame(q) /\ Books(q)
  BY <1>0, <1>5, PilotFrame, PilotQuiet DEF Open, Books
<1>6. ASSUME NEW q \in Tasks, TaskStep(q) PROVE q \in Requests /\ Frame(q) /\ Books(q)
  BY <1>0, <1>6, TaskStepMeans, RunEndsMeans, RunRaisesMeans, TaskQuiet DEF RunStep, Books
<1>. QED BY <1>1, <1>2, <1>3, <1>4, <1>5, <1>6 DEF Next

-----------------------------------------------------------------------------
(* Who holds the loop.                                                     *)

Coroutine(r) == Kind[r] \notin {"stream", "pilot", "dry_run", "check"}
Out == {"new", "absent", "done", "gone"}

\* A coroutine holds the loop from its first step to its last.
HeldBy(jobs, l) ==
  /\ l \in Requests \cup {Idle}
  /\ \A r \in Requests : Coroutine(r) /\ jobs[r].at \notin Out => l = r
Holding == HeldBy(job, loop)

\* A step of one request takes the loop when it is free, leaves it at the end, or
\* leaves it alone.
LoopStep(q) ==
  \/ loop = Idle /\ loop' = q
  \/ Coroutine(q) /\ job[q].at \notin Out /\ loop' = Idle /\ job'[q].at \in Out
  \/ loop = q /\ loop' = Idle /\ job'[q].at \in Out
  \/ loop' = loop /\ (~Coroutine(q) \/ job[q].at \notin Out \/ job'[q].at \in Out)

\* Holding is kept by such a step.
LEMMA HoldingStep ==
  ASSUME Holding, Idle \notin Requests, DOMAIN job = Requests,
         NEW q \in Requests, Frame(q), LoopStep(q)
  PROVE  Holding'
<1>1. ASSUME NEW r \in Requests, r # q PROVE job'[r] = job[r]
  BY <1>1 DEF Frame
<1>2. loop' \in Requests \cup {Idle}
  BY DEF Holding, HeldBy, LoopStep
<1>3. ASSUME NEW r \in Requests, Coroutine(r), job'[r].at \notin Out PROVE loop' = r
  <2>1. CASE r = q
    BY <1>3, <2>1 DEF Holding, HeldBy, LoopStep
  <2>2. CASE r # q
    <3>1. job[r].at \notin Out
      BY <1>1, <1>3, <2>2
    <3>2. loop = r /\ loop # Idle /\ loop # q
      BY <1>3, <2>2, <3>1 DEF Holding, HeldBy
    <3>3. loop' = loop
      BY <3>2 DEF LoopStep, Holding, HeldBy
    <3>. QED BY <3>2, <3>3
  <2>. QED BY <2>1, <2>2
<1>. QED BY <1>2, <1>3 DEF Holding, HeldBy, Coroutine

\* The steps, each on its way from somewhere.
LEMMA PipelineLoop ==
  ASSUME NEW q, PipelineStep(q)
  PROVE  LoopStep(q) /\ loop' = loop
<1>1. job[q].at \notin Out
  BY DEF PipelineStep, Generate, GenerateRaises, Check, LookupHit, LookupMiss, FakeAnswers,
     LiteLLMAnswers, LiteLLMErrs, OpenAIAnswers, OpenAIErrs, CompatibleAnswers, CompatibleErrs,
     Record, Store, At, Out
<1>2. loop' = loop
  BY DEF PipelineStep, Generate, GenerateRaises, Check, LookupHit, LookupMiss, FakeAnswers,
     LiteLLMAnswers, LiteLLMErrs, OpenAIAnswers, OpenAIErrs, CompatibleAnswers, CompatibleErrs,
     Record, Store
<1>. QED BY <1>1, <1>2 DEF LoopStep

\* The endpoints take the loop and give it back; a stream borrows it.
LEMMA EndpointLoop ==
  ASSUME DOMAIN job = Requests, NEW q \in Requests, EndpointStep(q)
  PROVE  LoopStep(q)
<1>1. CASE Arrive(q) \/ ArriveBadCases(q) \/ ArriveEval(q)
  BY <1>1 DEF Arrive, ArriveBadCases, ArriveEval, Take, LoopStep
<1>2. CASE Reply(q)
  <2>1. job'[q] = [NewJob EXCEPT !.at = "done"]
    BY <1>2, Gets DEF Reply
  <2>2. job'[q].at \in Out
    BY <2>1 DEF NewJob, Out
  <2>. QED BY <1>2, <2>2 DEF Reply, LoopStep
<1>3. CASE NextBadCase(q) \/ EvalRaises(q) \/ EvaluateCase(q) \/ CaseEvaluated(q) \/ ExplainFailure(q)
  BY <1>3 DEF NextBadCase, EvalRaises, EvaluateCase, CaseEvaluated, ExplainFailure, LoopStep, At,
     Out
<1>4. CASE OpenStream(q) \/ FinishStream(q) \/ Disconnect(q)
  BY <1>4 DEF OpenStream, FinishStream, Disconnect, LoopStep, Coroutine
<1>5. CASE AdvanceStream(q)
  BY <1>5 DEF AdvanceStream, LoopStep, At, Out
<1>. QED BY <1>1, <1>2, <1>3, <1>4, <1>5 DEF EndpointStep

\* A pilot and a check are no coroutines of this process, a preflight is one.
LEMMA PilotLoop ==
  ASSUME NEW q, (q \in Pilots /\ PilotStep(q)) \/ ArrivePreflight(q) \/ ArriveCheck(q)
  PROVE  LoopStep(q)
<1>1. CASE q \in Pilots /\ PilotStep(q)
  <2>1. ~Coroutine(q)
    BY <1>1 DEF Pilots, Coroutine
  <2>2. loop' = loop
    BY <1>1 DEF PilotStep, StartPilot, ProbeEnds, Load, DangerousCase, NormalCase, CaseEnds,
       Evaluated, WriteJson, WriteMarkdown, Writes, Others
  <2>. QED BY <2>1, <2>2 DEF LoopStep
<1>2. CASE ArrivePreflight(q)
  BY <1>2 DEF ArrivePreflight, Take, LoopStep
<1>3. CASE ArriveCheck(q)
  BY <1>3 DEF ArriveCheck, LoopStep, Coroutine
<1>. QED BY <1>1, <1>2, <1>3

\* A task holds the loop from its arrival to its end.
LEMMA TaskLoop ==
  ASSUME DOMAIN job = Requests, NEW q \in Requests, Kind[q] = "task", TaskStep(q)
  PROVE  LoopStep(q)
<1>0. Coroutine(q)
  BY DEF Coroutine
<1>1. CASE ArriveTask(q)
  BY <1>1 DEF ArriveTask, Take, LoopStep
<1>2. CASE ~ArriveTask(q)
  <2>1. job[q].at \notin Out
    BY <1>2 DEF TaskStep, ConcludeRefused, NextRun, RouteByLLM, RouteByRule,
       Planned, NL2SQLRunEnds, RunRaises, MultitoolRunEnds, KeywordRunEnds, At, Out
  <2>2. ASSUME NEW t, Conclude(q, t) PROVE loop' = Idle /\ job'[q].at \in Out
    <3>1. job'[q] = [NewJob EXCEPT !.at = "done"] /\ loop' = Idle
      BY <2>2, Gets DEF Conclude
    <3>. QED BY <3>1 DEF NewJob, Out
  <2>3. ASSUME NEW t, StartRun(q, t) PROVE loop' = loop
    BY <2>3 DEF StartRun
  <2>4. ASSUME NEW run, RunEnds(q, run) PROVE \E t : StartRun(q, t) \/ Conclude(q, t)
    BY <2>4 DEF RunEnds
  <2>5. RunRaises(q) => \E t : StartRun(q, t) \/ Conclude(q, t)
    BY DEF RunRaises
  <2>6. loop' = loop \/ \E t : StartRun(q, t) \/ Conclude(q, t)
    <3>1. CASE NL2SQLRunEnds(q) \/ MultitoolRunEnds(q) \/ KeywordRunEnds(q)
      BY <2>4, <3>1 DEF NL2SQLRunEnds, MultitoolRunEnds, KeywordRunEnds
    <3>2. CASE ConcludeRefused(q) \/ NextRun(q) \/ RouteByLLM(q) \/ RouteByRule(q)
      BY <3>2 DEF ConcludeRefused, NextRun, RouteByLLM, RouteByRule, Select
    <3>3. CASE Planned(q)
      BY <3>3 DEF Planned
    <3>. QED BY <1>2, <2>5, <3>1, <3>2, <3>3 DEF TaskStep
  <2>. QED BY <1>0, <2>1, <2>2, <2>3, <2>6 DEF LoopStep
<1>. QED BY <1>1, <1>2

\* The loop is held by one coroutine at a time.
LEMMA HoldingKept ==
  ASSUME NL2SQLRequestsAssumption, Holding, DOMAIN job = Requests, [Next]_pilotVars
  PROVE  Holding'
<1>0. Idle \notin Requests
  BY DEF NL2SQLRequestsAssumption
<1>1. CASE UNCHANGED pilotVars \/ Finished
  BY <1>1 DEF Finished, pilotVars, taskVars, vars, shared, Holding, HeldBy
<1>2. CASE Environment /\ UNCHANGED <<task, pilot, gate>>
  BY <1>2 DEF Environment, Tick, shared, Holding, HeldBy
<1>3. ASSUME NEW q \in Open, PipelineStep(q) \/ EndpointStep(q) PROVE Holding'
  BY <1>0, <1>3, PipelineFrame, EndpointFrame, PipelineLoop, EndpointLoop, HoldingStep DEF Open
<1>4. ASSUME NEW q \in Open, (q \in Pilots /\ PilotStep(q)) \/ ArrivePreflight(q) \/ ArriveCheck(q)
      PROVE  Holding'
  BY <1>0, <1>4, PilotFrame, PilotLoop, HoldingStep DEF Open
<1>5. ASSUME NEW q \in Open \cap Tasks, TaskStep(q) PROVE Holding'
  <2>1. q \in Requests /\ Kind[q] = "task"
    BY DEF Tasks
  <2>2. Frame(q)
    <3>1. ASSUME NEW t, Conclude(q, t) \/ StartRun(q, t) PROVE Frame(q)
      BY <3>1, EndFrame, UpdateFrame DEF Conclude, StartRun
    <3>2. ASSUME NEW run, RunEnds(q, run) PROVE Frame(q)
      BY <3>1, <3>2 DEF RunEnds
    <3>3. CASE NL2SQLRunEnds(q) \/ MultitoolRunEnds(q) \/ KeywordRunEnds(q)
      BY <3>2, <3>3 DEF NL2SQLRunEnds, MultitoolRunEnds, KeywordRunEnds
    <3>4. CASE ConcludeRefused(q) \/ NextRun(q) \/ RouteByLLM(q) \/ RouteByRule(q)
      BY <3>1, <3>4 DEF ConcludeRefused, NextRun, RouteByLLM, RouteByRule, Select
    <3>5. CASE ArriveTask(q) \/ Planned(q)
      BY <3>5, UpdateFrame, GotoFrame DEF ArriveTask, Planned
    <3>6. CASE RunRaises(q)
      BY <3>1, <3>6 DEF RunRaises
    <3>. QED BY <1>5, <3>3, <3>4, <3>5, <3>6 DEF TaskStep
  <2>. QED BY <1>0, <1>5, <2>1, <2>2, TaskLoop, HoldingStep
<1>. QED BY <1>1, <1>2, <1>3, <1>4, <1>5 DEF Next

-----------------------------------------------------------------------------
(* BudgetBound.                                                            *)

\* The calls that were let through and have not come to an end.
Calls(jobs) == {r \in Requests : UnderWay(jobs[r])}
Flying == Calls(job)

\* Few calls are under way: those of the streams, and one.
LEMMA FlyingFew ==
  ASSUME NL2SQLRequestsAssumption, NEW jobs, NEW l, HeldBy(jobs, l),
         \A r \in Requests : JobKeyed(r, jobs[r])
  PROVE  /\ IsFiniteSet(Calls(jobs)) /\ Cardinality(Calls(jobs)) \in Nat
         /\ AtOnce \in Nat /\ Cardinality(Calls(jobs)) <= AtOnce
<1>1. IsFiniteSet(Streams) /\ Cardinality(Streams) \in Nat
  <2>1. Streams \subseteq Requests /\ IsFiniteSet(Requests)
    BY DEF Streams, NL2SQLRequestsAssumption
  <2>. QED BY <2>1, FS_Subset, FS_CardinalityType
<1>2. Calls(jobs) \subseteq Streams \cup {l}
  <2>. SUFFICES ASSUME NEW r \in Requests, UnderWay(jobs[r]), r \notin Streams PROVE r = l
    BY DEF Calls
  <2>1. jobs[r].at \in {"lookup", "call", "compatible", "record"}
        /\ jobs[r].who \in {"nl2sql", "judge"}
    BY DEF UnderWay
  <2>2. Kind[r] \in Generating \cup {"judge"} /\ Kind[r] # "stream"
    BY <2>1 DEF JobKeyed, Asking, Streams
  <2>3. Coroutine(r) /\ jobs[r].at \notin Out
    BY <2>1, <2>2 DEF Coroutine, Out, Generating
  <2>. QED BY <2>3 DEF HeldBy
<1>3. /\ IsFiniteSet(Streams \cup {l})
      /\ Cardinality(Streams \cup {l}) <= Cardinality(Streams) + 1
  <2>1. IsFiniteSet(Streams \cup {l})
        /\ Cardinality(Streams \cup {l}) =
             IF l \in Streams THEN Cardinality(Streams) ELSE Cardinality(Streams) + 1
    BY <1>1, FS_AddElement
  <2>. QED BY <1>1, <2>1
<1>4. /\ IsFiniteSet(Calls(jobs)) /\ Cardinality(Calls(jobs)) <= Cardinality(Streams \cup {l})
  BY <1>2, <1>3, FS_Subset
<1>5. Cardinality(Calls(jobs)) \in Nat /\ Cardinality(Streams \cup {l}) \in Nat
  BY <1>3, <1>4, FS_CardinalityType
<1>. QED BY <1>1, <1>3, <1>4, <1>5 DEF AtOnce

\* No answer costs more than the dearest.
LEMMA DearestIs ==
  ASSUME NL2SQLRequestsAssumption
  PROVE  Dearest \in Nat /\ \A c \in Costs \cup {0} : c \in Nat /\ c <= Dearest
<1>1. PICK c \in Costs : \A d \in Costs : d <= c
  BY DEF NL2SQLRequestsAssumption
<1>2. Dearest \in Costs \cup {0} /\ \A d \in Costs : d <= Dearest
  BY <1>1 DEF Dearest
<1>. QED BY <1>2 DEF NL2SQLRequestsAssumption

\* A product grows with its factor.
LEMMA TimesMonotone ==
  ASSUME NEW m \in Nat, NEW n \in Nat, m <= n, NEW d \in Nat
  PROVE  m * d \in Nat /\ n * d \in Nat /\ m * d <= n * d
  OBVIOUS

\* One call less leaves room for its answer.
LEMMA OneLess ==
  ASSUME NEW m \in Nat, NEW n \in Nat, m + 1 <= n, NEW d \in Nat
  PROVE  m * d \in Nat /\ n * d \in Nat /\ m * d + d <= n * d
<1>1. (m + 1) * d = m * d + d
  OBVIOUS
<1>2. (m + 1) * d <= n * d
  BY TimesMonotone
<1>. QED BY <1>1, <1>2

\* What is left below the hard limit for the calls under way.
Base == IF HardLimit > Estimate THEN HardLimit - 1 - Estimate ELSE 0
Most == Base + AtOnce * Dearest

\* In no scope more is spent than the most, nothing in the scopes to come, and in
\* the present one there is room for every call under way.
Room ==
  /\ now \in 0..MaxTime /\ spent \in [Scopes -> Nat]
  /\ \A r \in Requests : Priced(job[r])
  /\ \A s \in Scopes : s > ScopeOf(now) => spent[s] = 0
  /\ BudgetEnabled /\ HardLimit > 0 =>
       /\ \A s \in Scopes : spent[s] <= Most
       /\ spent[ScopeOf(now)] + Cardinality(Flying) * Dearest <= Most

\* The scope of an instant is one of the scopes, and time does not turn back.
LEMMA ScopeFacts ==
  ASSUME LLMBudgetAssumption
  PROVE  /\ \A t \in 0..MaxTime : ScopeOf(t) \in Scopes /\ ScopeOf(t) \in Nat
         /\ \A s, t \in Nat : s <= t => ScopeOf(s) <= ScopeOf(t)
         /\ Scopes \subseteq Nat
<1>0. ScopeTicks \in Nat \ {0} /\ MaxTime \in Nat
  BY DEF LLMBudgetAssumption
<1>1. ASSUME NEW s \in Nat, NEW t \in Nat, s <= t PROVE ScopeOf(s) <= ScopeOf(t)
  BY <1>0, <1>1, QuotientMonotone DEF ScopeOf
<1>2. ASSUME NEW t \in Nat PROVE ScopeOf(t) \in Nat
  BY <1>0, Quotient DEF ScopeOf
<1>3. ASSUME NEW t \in 0..MaxTime PROVE ScopeOf(t) \in Scopes /\ ScopeOf(t) \in Nat
  <2>1. t \in Nat /\ MaxTime \in Nat /\ t <= MaxTime
    BY <1>0
  <2>2. ScopeOf(t) \in Nat /\ ScopeOf(MaxTime) \in Nat /\ ScopeOf(t) <= ScopeOf(MaxTime)
    BY <1>1, <1>2, <2>1
  <2>. QED BY <2>2 DEF Scopes
<1>. QED BY <1>1, <1>3 DEF Scopes

\* Only the clock moves the clock, and then nothing else.
LEMMA ClockStep ==
  ASSUME [Next]_pilotVars
  PROVE  now' = now \/ (Tick /\ UNCHANGED <<job, loop, Ledger>>)
<1>1. CASE UNCHANGED pilotVars \/ Finished
  BY <1>1 DEF Finished, pilotVars, taskVars, vars, shared
<1>2. CASE Environment
  BY <1>2 DEF Environment, shared, Ledger
<1>3. ASSUME NEW r, PipelineStep(r) PROVE now' = now
  BY <1>3, PipelineCache
<1>4. ASSUME NEW r, EndpointStep(r) \/ TaskStep(r) \/ PilotStep(r) \/ ArrivePreflight(r)
                    \/ ArriveCheck(r)
      PROVE  now' = now
  BY <1>4, NoCache
<1>. QED BY <1>1, <1>2, <1>3, <1>4 DEF Next

\* What a step of a request does to the set of calls under way.
LEMMA CallsStep ==
  ASSUME DOMAIN job = Requests, NEW q \in Requests, Frame(q)
  PROVE  /\ Quiet(q, job'[q]) \/ Charges(q) => Calls(job') \subseteq Flying
         /\ Settles(q) => q \in Flying /\ Calls(job') \subseteq Flying \ {q}
<1>1. ASSUME NEW r \in Requests, r # q PROVE job'[r] = job[r]
  BY <1>1 DEF Frame
<1>2. ASSUME UnderWay(job'[q]) => UnderWay(job[q]) PROVE Calls(job') \subseteq Flying
  BY <1>1, <1>2 DEF Calls, Flying
<1>3. Quiet(q, job'[q]) => (UnderWay(job'[q]) => UnderWay(job[q]))
  BY DEF Quiet
<1>4. Charges(q) => (UnderWay(job'[q]) => UnderWay(job[q]))
  BY DEF Charges, UnderWay
<1>5. ASSUME Settles(q) PROVE q \in Flying /\ Calls(job') \subseteq Flying \ {q}
  <2>1. UnderWay(job[q]) /\ ~UnderWay(job'[q])
    BY <1>5 DEF Settles, Record, At, UnderWay
  <2>. QED BY <1>1, <2>1 DEF Calls, Flying
<1>. QED BY <1>2, <1>3, <1>4, <1>5

\* The calls under way fit below the most, whatever is spent already.
LEMMA MostFacts ==
  ASSUME NL2SQLRequestsAssumption, LLMBudgetAssumption, AtOnce \in Nat
  PROVE  /\ Base \in Nat /\ AtOnce * Dearest \in Nat /\ Most \in Nat
         /\ \A n \in Nat : n <= AtOnce => n * Dearest \in Nat /\ Base + n * Dearest <= Most
<1>1. Dearest \in Nat
  BY DearestIs
<1>2. Base \in Nat
  BY DEF Base, LLMBudgetAssumption
<1>3. \A m \in Nat, n \in Nat : m * n \in Nat
  OBVIOUS
<1>4. AtOnce * Dearest \in Nat
  BY <1>1, <1>3
<1>5. ASSUME NEW n \in Nat, n <= AtOnce PROVE n * Dearest \in Nat /\ n * Dearest <= AtOnce * Dearest
  BY <1>1, <1>5, TimesMonotone
<1>. DEFINE AD == AtOnce * Dearest
<1>6. Most = Base + AD /\ AD \in Nat
  BY <1>4 DEF Most
<1>7. ASSUME NEW n \in Nat, n <= AtOnce PROVE n * Dearest \in Nat /\ Base + n * Dearest <= Most
  <2>. DEFINE nD == n * Dearest
  <2>1. nD \in Nat /\ nD <= AD
    BY <1>5, <1>7
  <2>. HIDE DEF nD, AD
  <2>2. Base + nD <= Most
    BY <1>2, <1>6, <2>1
  <2>. QED BY <2>1, <2>2 DEF nD
<1>. HIDE DEF AD
<1>8. Most \in Nat
  BY <1>2, <1>6
<1>. QED BY <1>2, <1>4, <1>7, <1>8

\* As long as nothing is put down, there is room for no more calls than before.
LEMMA RoomStays ==
  ASSUME Room, now' = now, spent' = spent,
         IsFiniteSet(Flying), Cardinality(Flying) \in Nat, Dearest \in Nat, Most \in Nat,
         Calls(job') \subseteq Flying, \A r \in Requests : Priced(job'[r]), LLMBudgetAssumption
  PROVE  Room'
<1>1. Cardinality(Calls(job')) <= Cardinality(Flying) /\ Cardinality(Calls(job')) \in Nat
  BY FS_Subset, FS_CardinalityType
<1>. DEFINE n == Cardinality(Flying) * Dearest
            m == Cardinality(Calls(job')) * Dearest
<1>2. m \in Nat /\ n \in Nat /\ m <= n
  BY <1>1, TimesMonotone
<1>3. spent[ScopeOf(now)] \in Nat
  BY ScopeFacts DEF Room
<1>4. Flying' = Calls(job')
  BY DEF Flying, Calls
<1>5. ASSUME BudgetEnabled, HardLimit > 0
      PROVE  spent[ScopeOf(now)] + Cardinality(Flying') * Dearest <= Most
  <2>1. spent[ScopeOf(now)] + n <= Most
    BY <1>5 DEF Room
  <2>. HIDE DEF n, m
  <2>2. spent[ScopeOf(now)] + m <= Most
    BY <1>2, <1>3, <2>1
  <2>. QED BY <1>4, <2>2 DEF m
<1>6. Dearest' = Dearest /\ Most' = Most /\ ScopeOf(now)' = ScopeOf(now) /\ Scopes' = Scopes
  BY DEF Dearest, Most, Base, AtOnce, Streams, ScopeOf, Scopes
<1>. HIDE DEF m, n
<1>. QED BY <1>5, <1>6 DEF Room

\* An answer that is put down takes the room that was left for its call.
LEMMA RoomUsed ==
  ASSUME NL2SQLRequestsAssumption, LLMBudgetAssumption, Room, now' = now,
         NEW q \in Requests, Settles(q),
         IsFiniteSet(Flying), Cardinality(Flying) \in Nat, Most \in Nat,
         q \in Flying, Calls(job') \subseteq Flying \ {q},
         \A r \in Requests : Priced(job'[r])
  PROVE  Room'
<1>. DEFINE scope == ScopeOf(now)
            cost == job[q].answer.cost
<1>1. /\ Cardinality(Flying \ {q}) = Cardinality(Flying) - 1
      /\ IsFiniteSet(Flying \ {q}) /\ Cardinality(Flying \ {q}) \in Nat
  BY FS_RemoveElement, FS_CardinalityType
<1>2. Cardinality(Calls(job')) <= Cardinality(Flying \ {q}) /\ Cardinality(Calls(job')) \in Nat
  BY <1>1, FS_Subset, FS_CardinalityType
<1>3. Cardinality(Calls(job')) + 1 <= Cardinality(Flying)
  BY <1>1, <1>2
<1>4. Dearest \in Nat /\ cost \in Nat /\ cost <= Dearest
  <2>1. Priced(job[q]) /\ job[q].at = "record"
    BY DEF Room, Settles, Record, At
  <2>2. cost \in Costs \cup {0}
    BY <2>1 DEF Priced
  <2>. QED BY <2>2, DearestIs
<1>. DEFINE n == Cardinality(Flying) * Dearest
            m == Cardinality(Calls(job')) * Dearest
<1>5. m \in Nat /\ n \in Nat /\ m + Dearest <= n
  BY <1>2, <1>3, <1>4, OneLess
<1>6. scope \in Scopes /\ scope \in Nat /\ spent \in [Scopes -> Nat] /\ spent[scope] \in Nat
  BY ScopeFacts DEF Room
<1>7. spent' = IF BudgetEnabled THEN [spent EXCEPT ![scope] = @ + cost] ELSE spent
  BY DEF Settles, Record, RecordUsage
<1>8. spent' \in [Scopes -> Nat]
  <2>. HIDE DEF scope, cost
  <2>. QED BY <1>4, <1>6, <1>7
<1>9. \A s \in Scopes : s > scope => spent'[s] = 0
  <2>1. \A s \in Scopes : s > scope => spent[s] = 0 /\ s # scope
    BY <1>6, ScopeFacts DEF Room
  <2>. HIDE DEF scope, cost
  <2>. QED BY <1>6, <1>7, <2>1
<1>10. Flying' = Calls(job')
  BY DEF Flying, Calls
<1>11. ASSUME BudgetEnabled, HardLimit > 0
       PROVE  /\ \A s \in Scopes : spent'[s] <= Most
              /\ spent'[scope] + Cardinality(Flying') * Dearest <= Most
  <2>1. /\ \A s \in Scopes : spent[s] <= Most
        /\ spent[scope] + n <= Most
    BY <1>11 DEF Room
  <2>2. spent'[scope] = spent[scope] + cost /\ \A s \in Scopes : s # scope => spent'[s] = spent[s]
    <3>. HIDE DEF scope, cost
    <3>. QED BY <1>6, <1>7, <1>11
  <2>. HIDE DEF scope, cost, n, m
  <2>3. spent'[scope] + m <= Most /\ spent'[scope] <= Most
    BY <1>4, <1>5, <1>6, <2>1, <2>2
  <2>4. \A s \in Scopes : spent'[s] <= Most
    BY <2>1, <2>2, <2>3
  <2>. QED BY <1>10, <2>3, <2>4 DEF m
<1>12. Dearest' = Dearest /\ Most' = Most /\ ScopeOf(now)' = scope /\ Scopes' = Scopes
  BY DEF Dearest, Most, Base, AtOnce, Streams, ScopeOf, Scopes
<1>13. now \in 0..MaxTime
  BY DEF Room
<1>. HIDE DEF scope, cost, n, m
<1>. QED BY <1>8, <1>9, <1>11, <1>12, <1>13 DEF Room

\* Who is let through is let through with what is left below the limit.
LEMMA RoomTaken ==
  ASSUME NL2SQLRequestsAssumption, LLMBudgetAssumption, Room, now' = now, spent' = spent,
         CheckBudget, AtOnce \in Nat,
         Cardinality(Calls(job')) \in Nat, Cardinality(Calls(job')) <= AtOnce,
         \A r \in Requests : Priced(job'[r])
  PROVE  Room'
<1>. DEFINE m == Cardinality(Calls(job')) * Dearest
<1>1. m \in Nat /\ Base + m <= Most /\ Base \in Nat /\ Most \in Nat
  BY MostFacts
<1>2. spent[ScopeOf(now)] \in Nat
  BY ScopeFacts DEF Room
<1>3. Flying' = Calls(job')
  BY DEF Flying, Calls
<1>4. ASSUME BudgetEnabled, HardLimit > 0
      PROVE  spent[ScopeOf(now)] + Cardinality(Flying') * Dearest <= Most
  <2>1. spent[ScopeOf(now)] + Estimate < HardLimit
    BY <1>4 DEF CheckBudget, Projected
  <2>2. spent[ScopeOf(now)] <= Base
    BY <1>2, <2>1 DEF Base, LLMBudgetAssumption
  <2>. HIDE DEF m
  <2>3. spent[ScopeOf(now)] + m <= Most
    BY <1>1, <1>2, <2>2
  <2>. QED BY <1>3, <2>3 DEF m
<1>5. Dearest' = Dearest /\ Most' = Most /\ ScopeOf(now)' = ScopeOf(now) /\ Scopes' = Scopes
  BY DEF Dearest, Most, Base, AtOnce, Streams, ScopeOf, Scopes
<1>. HIDE DEF m
<1>. QED BY <1>4, <1>5 DEF Room

\* At the turn of a scope the calls under way go over into an empty one.
LEMMA RoomTicks ==
  ASSUME NL2SQLRequestsAssumption, LLMBudgetAssumption, Room, Tick, UNCHANGED <<job, Ledger>>,
         AtOnce \in Nat, Cardinality(Flying) \in Nat, Cardinality(Flying) <= AtOnce
  PROVE  Room'
<1>1. now \in Nat /\ now' = now + 1 /\ now' \in 0..MaxTime /\ spent' = spent
  BY DEF Room, Tick, Ledger, LLMBudgetAssumption
<1>2. /\ ScopeOf(now) \in Scopes /\ ScopeOf(now') \in Scopes /\ ScopeOf(now) <= ScopeOf(now')
      /\ Scopes \subseteq Nat
  BY <1>1, ScopeFacts DEF Room
<1>3. ASSUME NEW s \in Scopes, s > ScopeOf(now') PROVE spent[s] = 0
  <2>1. \A i, j, k \in Nat : i > k /\ j <= k => i > j
    OBVIOUS
  <2>2. s > ScopeOf(now)
    BY <1>2, <1>3, <2>1
  <2>. QED BY <2>2 DEF Room
<1>4. ScopeOf(now') = ScopeOf(now) \/ spent[ScopeOf(now')] = 0
  BY <1>2 DEF Room
<1>. DEFINE n == Cardinality(Flying) * Dearest
<1>5. n \in Nat /\ Base + n <= Most /\ Base \in Nat /\ Most \in Nat
  BY MostFacts
<1>6. ASSUME BudgetEnabled, HardLimit > 0
      PROVE  spent[ScopeOf(now')] + n <= Most
  <2>1. spent[ScopeOf(now)] + n <= Most
    BY <1>6 DEF Room
  <2>. HIDE DEF n
  <2>. QED BY <1>4, <1>5, <2>1
<1>7. Flying' = Flying /\ \A r \in Requests : Priced(job'[r])
  BY DEF Flying, Calls, Room
<1>8. Dearest' = Dearest /\ Most' = Most /\ ScopeOf(now)' = ScopeOf(now') /\ Scopes' = Scopes
  BY DEF Dearest, Most, Base, AtOnce, Streams, ScopeOf, Scopes
<1>9. Cardinality(Flying') * Dearest = n
  BY <1>7
<1>10. spent \in [Scopes -> Nat]
       /\ (BudgetEnabled /\ HardLimit > 0 => \A s \in Scopes : spent[s] <= Most)
  BY DEF Room
<1>. HIDE DEF n
<1>11. BudgetEnabled /\ HardLimit > 0 =>
         spent'[ScopeOf(now')] + Cardinality(Flying') * Dearest <= Most
  BY <1>1, <1>6, <1>9
<1>12. /\ now' \in 0..MaxTime /\ spent' \in [Scopes -> Nat]
       /\ \A s \in Scopes : s > ScopeOf(now') => spent'[s] = 0
       /\ (BudgetEnabled /\ HardLimit > 0 => \A s \in Scopes : spent'[s] <= Most)
  BY <1>1, <1>3, <1>10
<1>. QED BY <1>7, <1>8, <1>11, <1>12 DEF Room

\* Together: the keys, the loop and the room for the calls under way.
Accounted == Keyed /\ Holding /\ Room

\* Every step keeps it.
LEMMA AccountedStep ==
  ASSUME KeysAssumption, NL2SQLRequestsAssumption, LLMBudgetAssumption, TaskModesAssumption,
         Accounted, [Next]_pilotVars
  PROVE  Accounted'
<1>1. /\ Keyed /\ Holding /\ Room /\ DOMAIN job = Requests
      /\ \A r \in Requests : JobKeyed(r, job[r])
  BY DEF Accounted, Keyed, Shape
<1>2. Keyed' /\ \A r \in Requests : JobKeyed(r, job'[r])
  <2>1. Keyed'
    BY <1>1, KeyedStep
  <2>. QED BY <2>1 DEF Keyed, JobKeyed
<1>3. Holding' /\ HeldBy(job', loop') /\ HeldBy(job, loop)
  <2>1. Holding'
    BY <1>1, HoldingKept
  <2>. QED BY <1>1, <2>1 DEF Holding, HeldBy
<1>4. /\ IsFiniteSet(Flying) /\ Cardinality(Flying) \in Nat
      /\ AtOnce \in Nat /\ Cardinality(Flying) <= AtOnce
  BY <1>1, <1>3, FlyingFew DEF Flying
<1>5. Cardinality(Calls(job')) \in Nat /\ Cardinality(Calls(job')) <= AtOnce
  BY <1>2, <1>3, FlyingFew
<1>6. Dearest \in Nat /\ Most \in Nat
  BY <1>4, DearestIs, MostFacts
<1>7. CASE now' # now
  BY <1>1, <1>4, <1>7, ClockStep, RoomTicks, <1>2, <1>3 DEF Accounted
<1>8. CASE now' = now /\ UNCHANGED <<job, task, Ledger, loop>>
  <2>1. Calls(job') \subseteq Flying /\ \A r \in Requests : Priced(job'[r])
    BY <1>1, <1>8 DEF Calls, Flying, Room
  <2>2. spent' = spent
    BY <1>8 DEF Ledger
  <2>3. Room'
    BY <1>1, <1>4, <1>6, <1>8, <2>1, <2>2, RoomStays
  <2>. QED BY <1>2, <1>3, <2>3 DEF Accounted
<1>9. ASSUME now' = now, NEW q \in Requests, Frame(q), Books(q) PROVE Room'
  <2>1. Priced(job'[q])
    BY <1>9 DEF Books, Quiet, Admits, Charges, Settles, Priced
  <2>2. \A r \in Requests : Priced(job'[r])
    BY <1>1, <1>9, <2>1 DEF Frame, Room
  <2>3. CASE UNCHANGED Ledger /\ Quiet(q, job'[q])
    <3>1. spent' = spent /\ Calls(job') \subseteq Flying
      BY <1>1, <1>9, <2>3, CallsStep DEF Ledger
    <3>. QED BY <1>1, <1>4, <1>6, <1>9, <2>2, <3>1, RoomStays
  <2>4. CASE Charges(q)
    <3>1. spent' = spent /\ Calls(job') \subseteq Flying
      <4>1. spent' = spent
        BY <2>4 DEF Charges
      <4>. QED BY <1>1, <1>9, <2>4, <4>1, CallsStep
    <3>. QED BY <1>1, <1>4, <1>6, <1>9, <2>2, <3>1, RoomStays
  <2>5. CASE Settles(q)
    <3>1. q \in Flying /\ Calls(job') \subseteq Flying \ {q}
      BY <1>1, <1>9, <2>5, CallsStep
    <3>. QED BY <1>1, <1>4, <1>6, <1>9, <2>2, <2>5, <3>1, RoomUsed
  <2>6. CASE Admits(q)
    <3>1. spent' = spent /\ CheckBudget
      BY <2>6 DEF Admits, Ledger
    <3>. QED BY <1>1, <1>4, <1>5, <1>9, <2>2, <3>1, RoomTaken
  <2>. QED BY <1>9, <2>3, <2>4, <2>5, <2>6 DEF Books
<1>10. CASE now' = now /\ \E q \in Requests : Frame(q) /\ Books(q)
  BY <1>2, <1>3, <1>9, <1>10 DEF Accounted
<1>. QED BY <1>1, <1>7, <1>8, <1>10, StepBooks

\* At the beginning nothing is spent, and nobody is under way.
LEMMA InitAccounted ==
  ASSUME NL2SQLRequestsAssumption, LLMBudgetAssumption, Init
  PROVE  Accounted
<1>1. Keyed
  BY InitKeyed
<1>2. /\ now = 0 /\ spent = [s \in Scopes |-> 0] /\ loop = Idle
      /\ \A r \in Requests : job[r] = NewJob \/ job[r] = [NewJob EXCEPT !.at = "absent"]
  BY DEF Init, InitPilots, InitTasks, InitRequests, InitBudget
<1>3. \A r \in Requests : job[r].at \in {"new", "absent"}
  BY <1>2 DEF NewJob
<1>4. Holding
  BY <1>2, <1>3 DEF Holding, HeldBy, Out
<1>5. Flying = {} /\ \A r \in Requests : Priced(job[r])
  BY <1>3 DEF Flying, Calls, UnderWay, Priced
<1>6. Cardinality(Flying) = 0
  BY <1>5, FS_EmptySet
<1>7. AtOnce \in Nat
  BY <1>1, <1>4, FlyingFew DEF Holding, Keyed
<1>8. /\ Base \in Nat /\ Most \in Nat /\ 0 * Dearest \in Nat /\ Base + 0 * Dearest <= Most
      /\ Dearest \in Nat
  BY <1>7, MostFacts, DearestIs
<1>9. now \in 0..MaxTime /\ ScopeOf(now) \in Scopes /\ spent \in [Scopes -> Nat]
  BY <1>2, ScopeFacts DEF LLMBudgetAssumption
<1>10. Room
  <2>1. \A s \in Scopes : spent[s] = 0
    BY <1>2
  <2>2. Cardinality(Flying) * Dearest = 0 /\ 0 <= Most
    BY <1>6, <1>8
  <2>. QED BY <1>5, <1>9, <2>1, <2>2 DEF Room
<1>. QED BY <1>1, <1>4, <1>10 DEF Accounted

\* However the checks of the budget and the entries into it interleave, a scope
\* exceeds what is left below the hard limit by no more than the calls that can
\* be under way at once.
THEOREM BudgetBoundAlways == Spec => []BudgetBound
<1>1. Init => Accounted
  BY InitAccounted, NL2SQLRequestsAssumption, LLMBudgetAssumption
<1>2. Accounted /\ [Next]_pilotVars => Accounted'
  BY AccountedStep, KeysAssumption, NL2SQLRequestsAssumption, LLMBudgetAssumption,
     TaskModesAssumption
<1>3. Accounted => BudgetBound
  BY DEF Accounted, Room, BudgetBound, Most, Base
<1>. QED BY <1>1, <1>2, <1>3, PTL DEF Spec

-----------------------------------------------------------------------------
(* What is told of the charges, and what is put down of it.                *)

\* What a request has still to put down for a caller, and all of them together.
Owes(j, w) == IF j.at = "record" /\ j.who = w THEN j.answer.cost ELSE 0
Owed(jobs, w) == [r \in Requests |-> Owes(jobs[r], w)]
Due(jobs, w) == SumFunctionOnSet(Owed(jobs, w), Requests)

\* The books are balanced.
Balanced ==
  /\ told \in [Callers -> Nat] /\ recorded \in [Callers -> Nat]
  /\ spent \in [Scopes -> Nat]
  /\ \A w \in Callers \ {"nl2sql", "judge"} : recorded[w] = 0
  /\ BudgetEnabled =>
       /\ told["nl2sql"] = recorded["nl2sql"] + Due(job, "nl2sql")
       /\ recorded["judge"] + Due(job, "judge") <= told["judge"]
       /\ SumFunction(spent) = SumFunction(recorded)

\* What is owed is a number.
LEMMA OwedNat ==
  ASSUME NL2SQLRequestsAssumption, NEW jobs, NEW w, \A r \in Requests : Priced(jobs[r])
  PROVE  /\ \A r \in Requests : Owed(jobs, w)[r] = Owes(jobs[r], w) /\ Owed(jobs, w)[r] \in Nat
         /\ Due(jobs, w) \in Nat
<1>1. ASSUME NEW r \in Requests
      PROVE  Owed(jobs, w)[r] = Owes(jobs[r], w) /\ Owed(jobs, w)[r] \in Nat
  <2>1. Owes(jobs[r], w) \in Nat
    <3>1. jobs[r].at = "record" => jobs[r].answer.cost \in Costs \cup {0}
      BY DEF Priced
    <3>2. Costs \cup {0} \subseteq Nat
      BY DEF NL2SQLRequestsAssumption
    <3>. QED BY <3>1, <3>2 DEF Owes
  <2>. QED BY <2>1 DEF Owed
<1>2. IsFiniteSet(Requests)
  BY DEF NL2SQLRequestsAssumption
<1>3. Due(jobs, w) \in Nat
  <2>. DEFINE h == Owed(jobs, w)
  <2>1. \A r \in Requests : h[r] \in Nat
    BY <1>1
  <2>. HIDE DEF h
  <2>2. SumFunctionOnSet(h, Requests) \in Nat
    BY <1>2, <2>1, SumNat
  <2>. QED BY <2>2 DEF Due, h
<1>. QED BY <1>1, <1>3

\* A step of one request changes what is due by what it changes of its own.
LEMMA DueStep ==
  ASSUME NL2SQLRequestsAssumption, NEW w, NEW jobs, NEW next, NEW q \in Requests,
         \A r \in Requests : Priced(jobs[r]) /\ Priced(next[r]),
         \A r \in Requests \ {q} : next[r] = jobs[r]
  PROVE  /\ Owes(next[q], w) + Due(jobs, w) = Owes(jobs[q], w) + Due(next, w)
         /\ Owes(next[q], w) \in Nat /\ Owes(jobs[q], w) \in Nat
         /\ Due(jobs, w) \in Nat /\ Due(next, w) \in Nat
<1>. DEFINE h == Owed(jobs, w)
            k == Owed(next, w)
<1>1. /\ \A r \in Requests : h[r] = Owes(jobs[r], w) /\ h[r] \in Nat
      /\ Due(jobs, w) \in Nat
  BY OwedNat
<1>2. /\ \A r \in Requests : k[r] = Owes(next[r], w) /\ k[r] \in Nat
      /\ Due(next, w) \in Nat
  BY OwedNat
<1>3. \A r \in Requests \ {q} : h[r] = k[r]
  BY <1>1, <1>2
<1>4. IsFiniteSet(Requests)
  BY DEF NL2SQLRequestsAssumption
<1>5. Due(jobs, w) = SumFunctionOnSet(h, Requests) /\ Due(next, w) = SumFunctionOnSet(k, Requests)
  BY DEF Due
<1>. HIDE DEF h, k
<1>6. k[q] + SumFunctionOnSet(h, Requests) = h[q] + SumFunctionOnSet(k, Requests)
  BY <1>1, <1>2, <1>3, <1>4, SumUpdate
<1>. QED BY <1>1, <1>2, <1>5, <1>6

\* The callers and the scopes can be counted.
LEMMA CallersFinite == IsFiniteSet(Callers)
<1>1. IsFiniteSet({}) /\ \A S, x : IsFiniteSet(S) => IsFiniteSet(S \cup {x})
  BY FS_EmptySet, FS_AddElement
<1>2. IsFiniteSet(((({} \cup {"nl2sql"}) \cup {"judge"}) \cup {"eval"}) \cup {"route"})
  BY <1>1
<1>3. \A S : IsFiniteSet(S) =>
        IsFiniteSet((((S \cup {"plan"}) \cup {"preflight"}) \cup {"probe"}) \cup {"pilot"})
  BY <1>1
<1>. DEFINE S == ((({} \cup {"nl2sql"}) \cup {"judge"}) \cup {"eval"}) \cup {"route"}
            T == (((S \cup {"plan"}) \cup {"preflight"}) \cup {"probe"}) \cup {"pilot"}
<1>4. IsFiniteSet(T)
  BY <1>2, <1>3
<1>5. T = Callers
  BY DEF Callers
<1>. QED BY <1>4, <1>5

\* The scopes are a range of numbers.
LEMMA ScopesFinite ==
  ASSUME LLMBudgetAssumption
  PROVE  IsFiniteSet(Scopes) /\ ScopeOf(MaxTime) \in Nat
<1>1. ScopeOf(MaxTime) \in Nat
  BY Quotient DEF ScopeOf, LLMBudgetAssumption
<1>2. IsFiniteSet(0..ScopeOf(MaxTime))
  BY <1>1, FS_Interval
<1>. QED BY <1>1, <1>2 DEF Scopes

\* What the primed accounts are.
LEMMA BalancedNext ==
  ASSUME told' \in [Callers -> Nat], recorded' \in [Callers -> Nat], spent' \in [Scopes -> Nat],
         \A w \in Callers \ {"nl2sql", "judge"} : recorded'[w] = 0,
         BudgetEnabled =>
           /\ told'["nl2sql"] = recorded'["nl2sql"] + Due(job', "nl2sql")
           /\ recorded'["judge"] + Due(job', "judge") <= told'["judge"]
           /\ SumFunctionOnSet(spent', Scopes) = SumFunctionOnSet(recorded', Callers)
  PROVE  Balanced'
<1>1. Scopes' = Scopes /\ Callers' = Callers
  BY DEF Scopes, ScopeOf, Callers
<1>2. SumFunction(spent)' = SumFunctionOnSet(spent', Scopes)
      /\ SumFunction(recorded)' = SumFunctionOnSet(recorded', Callers)
  BY DEF SumFunction
<1>3. \A w : Due(job, w)' = Due(job', w)
  BY DEF Due, Owed, Owes
<1>. QED BY <1>1, <1>2, <1>3 DEF Balanced

\* Where nothing is put down and nothing becomes due the balance stays.
LEMMA BalancedStays ==
  ASSUME Balanced, UNCHANGED Ledger, \A w : Due(job', w) = Due(job, w)
  PROVE  Balanced'
<1>1. spent' = spent /\ told' = told /\ recorded' = recorded
  BY DEF Ledger
<1>2. DOMAIN spent = Scopes /\ DOMAIN recorded = Callers
  BY DEF Balanced
<1>3. SumFunction(spent) = SumFunctionOnSet(spent', Scopes)
      /\ SumFunction(recorded) = SumFunctionOnSet(recorded', Callers)
  BY <1>1, <1>2 DEF SumFunction
<1>4. BudgetEnabled =>
        /\ told'["nl2sql"] = recorded'["nl2sql"] + Due(job', "nl2sql")
        /\ recorded'["judge"] + Due(job', "judge") <= told'["judge"]
        /\ SumFunctionOnSet(spent', Scopes) = SumFunctionOnSet(recorded', Callers)
  BY <1>1, <1>3 DEF Balanced
<1>5. /\ told' \in [Callers -> Nat] /\ recorded' \in [Callers -> Nat] /\ spent' \in [Scopes -> Nat]
      /\ \A w \in Callers \ {"nl2sql", "judge"} : recorded'[w] = 0
  BY <1>1 DEF Balanced
<1>. QED BY <1>4, <1>5, BalancedNext

\* What is told becomes due, if it is for the generator, and may if it is for
\* the judge.
LEMMA BalancedCharged ==
  ASSUME NL2SQLRequestsAssumption, Balanced, NEW q \in Requests, Charges(q),
         \A r \in Requests : Priced(job[r]) /\ Priced(job'[r]),
         \A r \in Requests \ {q} : job'[r] = job[r]
  PROVE  Balanced'
<1>1. PICK cost \in Costs \cup {0} :
        /\ spent' = spent /\ recorded' = recorded
        /\ told' = [told EXCEPT ![job[q].who] = @ + cost]
        /\ job[q].at \in {"call", "compatible"} /\ job'[q].who = job[q].who
        /\ job'[q].answer.cost = cost
        /\ job[q].who = "nl2sql" => job'[q].at = "record"
  BY DEF Charges
<1>2. cost \in Nat
  <2>1. Costs \cup {0} \subseteq Nat
    BY DEF NL2SQLRequestsAssumption
  <2>. QED BY <2>1
<1>. DEFINE D(w) == Due(job, w)
            E(w) == Due(job', w)
            O(w) == Owes(job'[q], w)
            me == job[q].who
<1>3. ASSUME NEW w
      PROVE  /\ E(w) = O(w) + D(w) /\ E(w) \in Nat /\ D(w) \in Nat
             /\ w # me => O(w) = 0
             /\ O(w) \in {0, cost}
             /\ w = me /\ w = "nl2sql" => O(w) = cost
  <2>1. Owes(job[q], w) = 0
    BY <1>1 DEF Owes
  <2>2. /\ O(w) + D(w) = Owes(job[q], w) + E(w)
        /\ O(w) \in Nat /\ D(w) \in Nat /\ E(w) \in Nat
    BY DueStep
  <2>3. /\ w # me => O(w) = 0
        /\ O(w) \in {0, cost}
        /\ w = me /\ w = "nl2sql" => O(w) = cost
    BY <1>1 DEF Owes
  <2>. HIDE DEF O, D, E, me
  <2>. QED BY <2>1, <2>2, <2>3
<1>. HIDE DEF O, D, E, me
<1>4. /\ told \in [Callers -> Nat] /\ recorded \in [Callers -> Nat] /\ spent \in [Scopes -> Nat]
      /\ \A w \in Callers \ {"nl2sql", "judge"} : recorded[w] = 0
  BY DEF Balanced
<1>5. /\ told' = [told EXCEPT ![me] = @ + cost] /\ told' \in [Callers -> Nat]
      /\ \A w \in Callers : told'[w] = IF w = me THEN told[w] + cost ELSE told[w]
  <2>1. told' = [told EXCEPT ![me] = @ + cost]
    BY <1>1 DEF me
  <2>2. Raised(told', told, me, cost)
    BY <2>1 DEF Raised
  <2>3. /\ told' \in [Callers -> Nat]
        /\ \A w \in Callers : told'[w] = IF w = me THEN told[w] + cost ELSE told[w]
    BY ONLY <1>2, <1>4, <2>2, CountsUp
  <2>. QED BY <2>1, <2>3
<1>6. "nl2sql" \in Callers /\ "judge" \in Callers
  BY DEF Callers
<1>7. ASSUME BudgetEnabled
      PROVE  /\ told'["nl2sql"] = recorded["nl2sql"] + E("nl2sql")
             /\ recorded["judge"] + E("judge") <= told'["judge"]
             /\ SumFunctionOnSet(spent, Scopes) = SumFunctionOnSet(recorded, Callers)
  <2>1. /\ told["nl2sql"] = recorded["nl2sql"] + D("nl2sql")
        /\ recorded["judge"] + D("judge") <= told["judge"]
        /\ SumFunction(spent) = SumFunction(recorded)
    BY <1>7 DEF Balanced, D
  <2>2. /\ recorded["nl2sql"] \in Nat /\ recorded["judge"] \in Nat
        /\ told["nl2sql"] \in Nat /\ told["judge"] \in Nat
    BY <1>4, <1>6
  <2>3. told'["nl2sql"] = recorded["nl2sql"] + E("nl2sql")
    <3>1. /\ E("nl2sql") = O("nl2sql") + D("nl2sql") /\ D("nl2sql") \in Nat
          /\ O("nl2sql") = IF "nl2sql" = me THEN cost ELSE 0
      BY <1>3
    <3>2. told'["nl2sql"] = IF "nl2sql" = me THEN told["nl2sql"] + cost ELSE told["nl2sql"]
      BY <1>5, <1>6
    <3>. QED BY <1>2, <2>1, <2>2, <3>1, <3>2
  <2>4. recorded["judge"] + E("judge") <= told'["judge"]
    <3>1. /\ E("judge") = O("judge") + D("judge") /\ D("judge") \in Nat
          /\ O("judge") \in {0, cost} /\ ("judge" # me => O("judge") = 0)
      BY <1>3
    <3>2. told'["judge"] = IF "judge" = me THEN told["judge"] + cost ELSE told["judge"]
      BY <1>5, <1>6
    <3>. QED BY <1>2, <2>1, <2>2, <3>1, <3>2
  <2>5. DOMAIN spent = Scopes /\ DOMAIN recorded = Callers
    BY <1>4
  <2>. QED BY <2>1, <2>3, <2>4, <2>5 DEF SumFunction
<1>8. \A w \in Callers \ {"nl2sql", "judge"} : recorded'[w] = 0
  BY <1>1, <1>4
<1>. QED BY <1>1, <1>4, <1>5, <1>7, <1>8, BalancedNext DEF E

\* What is put down was due, and goes into the scope as it goes to the caller.
LEMMA BalancedSettled ==
  ASSUME NL2SQLRequestsAssumption, LLMBudgetAssumption, Balanced, NEW q \in Requests, Settles(q),
         ScopeOf(now) \in Scopes,
         \A r \in Requests : Priced(job[r]) /\ Priced(job'[r]),
         \A r \in Requests \ {q} : job'[r] = job[r]
  PROVE  Balanced'
<1>. DEFINE D(w) == Due(job, w)
            E(w) == Due(job', w)
            me == job[q].who
            cost == job[q].answer.cost
            scope == ScopeOf(now)
<1>1. /\ told' = told /\ me \in {"nl2sql", "judge"}
      /\ job[q].at = "record" /\ job'[q].at = "store"
      /\ spent' = IF BudgetEnabled THEN [spent EXCEPT ![scope] = @ + cost] ELSE spent
      /\ recorded' = IF BudgetEnabled THEN [recorded EXCEPT ![me] = @ + cost] ELSE recorded
  BY DEF Settles, Record, RecordUsage, At
<1>2. cost \in Nat
  <2>1. Priced(job[q]) /\ Costs \cup {0} \subseteq Nat
    BY DEF NL2SQLRequestsAssumption
  <2>. QED BY <1>1, <2>1 DEF Priced
<1>3. ASSUME NEW w
      PROVE  D(w) = (IF w = me THEN cost ELSE 0) + E(w) /\ D(w) \in Nat /\ E(w) \in Nat
  <2>1. Owes(job'[q], w) = 0 /\ Owes(job[q], w) = IF w = me THEN cost ELSE 0
    BY <1>1 DEF Owes
  <2>2. /\ Owes(job'[q], w) + D(w) = Owes(job[q], w) + E(w)
        /\ D(w) \in Nat /\ E(w) \in Nat
    BY DueStep
  <2>. HIDE DEF D, E, me, cost
  <2>. QED BY <1>2, <2>1, <2>2
<1>4. /\ told \in [Callers -> Nat] /\ recorded \in [Callers -> Nat] /\ spent \in [Scopes -> Nat]
      /\ \A w \in Callers \ {"nl2sql", "judge"} : recorded[w] = 0
  BY DEF Balanced
<1>5. "nl2sql" \in Callers /\ "judge" \in Callers /\ scope \in Scopes /\ me \in Callers
  BY <1>1 DEF Callers
<1>6. BudgetEnabled =>
        /\ told["nl2sql"] = recorded["nl2sql"] + D("nl2sql")
        /\ recorded["judge"] + D("judge") <= told["judge"]
        /\ SumFunctionOnSet(spent, Scopes) = SumFunctionOnSet(recorded, Callers)
  <2>1. DOMAIN spent = Scopes /\ DOMAIN recorded = Callers
    BY <1>4
  <2>. QED BY <2>1 DEF Balanced, SumFunction
<1>. HIDE DEF D, E, me, cost, scope
<1>7. /\ recorded' \in [Callers -> Nat] /\ spent' \in [Scopes -> Nat]
      /\ \A w \in Callers \ {"nl2sql", "judge"} : recorded'[w] = 0
      /\ BudgetEnabled =>
           /\ \A w \in Callers : recorded'[w] = IF w = me THEN recorded[w] + cost ELSE recorded[w]
           /\ \A s \in Scopes : spent'[s] = IF s = scope THEN spent[s] + cost ELSE spent[s]
  <2>1. CASE ~BudgetEnabled
    BY <1>1, <1>4, <2>1
  <2>2. CASE BudgetEnabled
    <3>1. /\ recorded' \in [Callers -> Nat]
          /\ \A w \in Callers : recorded'[w] = IF w = me THEN recorded[w] + cost ELSE recorded[w]
      <4>1. Raised(recorded', recorded, me, cost)
        BY <1>1, <2>2 DEF Raised
      <4>. QED BY ONLY <1>2, <1>4, <4>1, CountsUp
    <3>2. /\ spent' \in [Scopes -> Nat]
          /\ \A s \in Scopes : spent'[s] = IF s = scope THEN spent[s] + cost ELSE spent[s]
      <4>1. Raised(spent', spent, scope, cost)
        BY <1>1, <2>2 DEF Raised
      <4>. QED BY ONLY <1>2, <1>4, <4>1, CountsUp
    <3>3. \A w \in Callers \ {"nl2sql", "judge"} : recorded'[w] = 0
      BY <1>1, <1>4, <3>1
    <3>. QED BY <3>1, <3>2, <3>3
  <2>. QED BY <2>1, <2>2
<1>8. ASSUME BudgetEnabled
      PROVE  /\ told["nl2sql"] = recorded'["nl2sql"] + E("nl2sql")
             /\ recorded'["judge"] + E("judge") <= told["judge"]
             /\ SumFunctionOnSet(spent', Scopes) = SumFunctionOnSet(recorded', Callers)
  <2>1. /\ \A w \in Callers : recorded'[w] = IF w = me THEN recorded[w] + cost ELSE recorded[w]
        /\ \A s \in Scopes : spent'[s] = IF s = scope THEN spent[s] + cost ELSE spent[s]
    BY <1>7, <1>8
  <2>2. /\ recorded["nl2sql"] \in Nat /\ recorded["judge"] \in Nat
        /\ told["nl2sql"] \in Nat /\ told["judge"] \in Nat
        /\ recorded[me] \in Nat /\ spent[scope] \in Nat
    BY <1>4, <1>5
  <2>3. told["nl2sql"] = recorded'["nl2sql"] + E("nl2sql")
    <3>1. D("nl2sql") = (IF "nl2sql" = me THEN cost ELSE 0) + E("nl2sql") /\ E("nl2sql") \in Nat
      BY <1>3
    <3>2. recorded'["nl2sql"]
            = IF "nl2sql" = me THEN recorded["nl2sql"] + cost ELSE recorded["nl2sql"]
      BY <1>5, <2>1
    <3>. QED BY <1>2, <1>6, <1>8, <2>2, <3>1, <3>2
  <2>4. recorded'["judge"] + E("judge") <= told["judge"]
    <3>1. D("judge") = (IF "judge" = me THEN cost ELSE 0) + E("judge") /\ E("judge") \in Nat
      BY <1>3
    <3>2. recorded'["judge"]
            = IF "judge" = me THEN recorded["judge"] + cost ELSE recorded["judge"]
      BY <1>5, <2>1
    <3>. QED BY <1>2, <1>6, <1>8, <2>2, <3>1, <3>2
  <2>5. /\ spent'[scope] + SumFunctionOnSet(spent, Scopes)
             = spent[scope] + SumFunctionOnSet(spent', Scopes)
        /\ SumFunctionOnSet(spent, Scopes) \in Nat /\ SumFunctionOnSet(spent', Scopes) \in Nat
    <3>1. IsFiniteSet(Scopes)
      BY ScopesFinite
    <3>2. \A s \in Scopes : spent[s] \in Nat /\ spent'[s] \in Nat
      BY <1>4, <1>7
    <3>3. \A s \in Scopes \ {scope} : spent[s] = spent'[s]
      BY <2>1
    <3>. QED BY <1>5, <3>1, <3>2, <3>3, SumUpdate, SumNat
  <2>6. /\ recorded'[me] + SumFunctionOnSet(recorded, Callers)
             = recorded[me] + SumFunctionOnSet(recorded', Callers)
        /\ SumFunctionOnSet(recorded, Callers) \in Nat
        /\ SumFunctionOnSet(recorded', Callers) \in Nat
    <3>1. \A w \in Callers : recorded[w] \in Nat /\ recorded'[w] \in Nat
      BY <1>4, <1>7
    <3>2. \A w \in Callers \ {me} : recorded[w] = recorded'[w]
      BY <2>1
    <3>. QED BY <1>5, <3>1, <3>2, CallersFinite, SumUpdate, SumNat
  <2>7. spent'[scope] = spent[scope] + cost /\ recorded'[me] = recorded[me] + cost
    BY <1>5, <2>1
  <2>8. SumFunctionOnSet(spent', Scopes) = SumFunctionOnSet(recorded', Callers)
    <3>. DEFINE a == SumFunctionOnSet(spent, Scopes)
                b == SumFunctionOnSet(spent', Scopes)
                c == SumFunctionOnSet(recorded', Callers)
    <3>1. \A m, i, j, k \in Nat : (m + i) + j = m + k => k = i + j
      OBVIOUS
    <3>2. a \in Nat /\ b \in Nat /\ c \in Nat /\ a = SumFunctionOnSet(recorded, Callers)
      BY <1>6, <1>8, <2>5, <2>6
    <3>3. (spent[scope] + cost) + a = spent[scope] + b
      BY <2>5, <2>7
    <3>4. (recorded[me] + cost) + a = recorded[me] + c
      BY <2>6, <2>7, <3>2
    <3>. HIDE DEF a, b, c
    <3>5. b = cost + a
      BY ONLY <1>2, <2>2, <3>1, <3>2, <3>3
    <3>6. c = cost + a
      BY ONLY <1>2, <2>2, <3>1, <3>2, <3>4
    <3>7. b = c
      BY <3>5, <3>6
    <3>. QED BY <3>7 DEF b, c
  <2>. QED BY <2>3, <2>4, <2>8
<1>. QED BY <1>1, <1>4, <1>7, <1>8, BalancedNext DEF E

\* Every step keeps the balance.
LEMMA BalancedStep ==
  ASSUME KeysAssumption, NL2SQLRequestsAssumption, LLMBudgetAssumption, TaskModesAssumption,
         Accounted, Balanced, [Next]_pilotVars
  PROVE  Balanced'
<1>1. Accounted'
  BY AccountedStep
<1>2. /\ DOMAIN job = Requests /\ ScopeOf(now) \in Scopes
      /\ \A r \in Requests : Priced(job[r]) /\ Priced(job'[r])
  <2>1. \A r \in Requests : Priced(job'[r])
    BY <1>1 DEF Accounted, Room, Priced
  <2>. QED BY <2>1, ScopeFacts DEF Accounted, Keyed, Shape, Room
<1>3. CASE UNCHANGED <<job, task, Ledger, loop>>
  BY <1>3, BalancedStays
<1>4. ASSUME NEW q \in Requests, Frame(q), Books(q) PROVE Balanced'
  <2>1. \A r \in Requests \ {q} : job'[r] = job[r]
    BY <1>2, <1>4 DEF Frame
  <2>2. ASSUME UNCHANGED Ledger, job[q].at # "record", job'[q].at # "record"
        PROVE  Balanced'
    <3>1. ASSUME NEW w PROVE Due(job', w) = Due(job, w)
      <4>1. Owes(job[q], w) = 0 /\ Owes(job'[q], w) = 0
        BY <2>2 DEF Owes
      <4>2. /\ Owes(job'[q], w) + Due(job, w) = Owes(job[q], w) + Due(job', w)
            /\ Due(job, w) \in Nat /\ Due(job', w) \in Nat
        BY <1>2, <2>1, DueStep
      <4>. QED BY <4>1, <4>2
    <3>. QED BY <2>2, <3>1, BalancedStays
  <2>3. CASE UNCHANGED Ledger /\ Quiet(q, job'[q])
    BY <2>2, <2>3 DEF Quiet
  <2>4. CASE Admits(q)
    BY <2>2, <2>4 DEF Admits
  <2>5. CASE Charges(q)
    BY <1>2, <2>1, <2>5, BalancedCharged
  <2>6. CASE Settles(q)
    BY <1>2, <2>1, <2>6, BalancedSettled
  <2>. QED BY <1>4, <2>3, <2>4, <2>5, <2>6 DEF Books
<1>5. Keyed
  BY DEF Accounted
<1>. QED BY <1>3, <1>4, <1>5, StepBooks

\* At the beginning there is nothing to put down.
LEMMA InitBalanced ==
  ASSUME NL2SQLRequestsAssumption, LLMBudgetAssumption, Init
  PROVE  Balanced
<1>1. /\ spent = [s \in Scopes |-> 0] /\ told = [w \in Callers |-> 0]
      /\ recorded = [w \in Callers |-> 0]
      /\ \A r \in Requests : job[r] = NewJob \/ job[r] = [NewJob EXCEPT !.at = "absent"]
  BY DEF Init, InitPilots, InitTasks, InitRequests, InitBudget
<1>2. \A r \in Requests : job[r].at \in {"new", "absent"}
  BY <1>1 DEF NewJob
<1>3. ASSUME NEW w PROVE Due(job, w) = 0
  <2>. DEFINE h == Owed(job, w)
  <2>1. \A r \in Requests : h[r] = 0
    BY <1>2 DEF Owed, Owes
  <2>2. IsFiniteSet(Requests)
    BY DEF NL2SQLRequestsAssumption
  <2>. HIDE DEF h
  <2>3. SumFunctionOnSet(h, Requests) = 0
    BY <2>1, <2>2, SumZero
  <2>. QED BY <2>3 DEF Due, h
<1>4. SumFunction(spent) = 0
  <2>1. DOMAIN spent = Scopes /\ \A s \in Scopes : spent[s] = 0
    BY <1>1
  <2>. QED BY <2>1, ScopesFinite, SumZero DEF SumFunction
<1>5. SumFunction(recorded) = 0
  <2>1. DOMAIN recorded = Callers /\ \A w \in Callers : recorded[w] = 0
    BY <1>1
  <2>. QED BY <2>1, CallersFinite, SumZero DEF SumFunction
<1>6. "nl2sql" \in Callers /\ "judge" \in Callers
  BY DEF Callers
<1>7. told["nl2sql"] = 0 /\ recorded["nl2sql"] = 0 /\ recorded["judge"] = 0 /\ told["judge"] = 0
  BY <1>1, <1>6
<1>8. /\ told \in [Callers -> Nat] /\ recorded \in [Callers -> Nat]
      /\ spent \in [Scopes -> Nat] /\ \A w \in Callers : recorded[w] = 0
  BY <1>1
<1>9. /\ told["nl2sql"] = recorded["nl2sql"] + Due(job, "nl2sql")
      /\ recorded["judge"] + Due(job, "judge") <= told["judge"]
  <2>1. Due(job, "nl2sql") = 0 /\ Due(job, "judge") = 0
    BY <1>3
  <2>. QED BY <1>7, <2>1
<1>10. SumFunction(spent) = SumFunction(recorded)
  BY <1>4, <1>5
<1>. QED BY <1>8, <1>9, <1>10 DEF Balanced

\* The answers of some requests, added up, are what these requests have added up.
LEMMA CostsSum ==
  ASSUME NEW S, S \subseteq Requests, NEW h, \A r \in S : h[r] = job[r].answer.cost,
         IsFiniteSet(Requests)
  PROVE  MapThenSumSet(LAMBDA r : job[r].answer.cost, S) = SumFunctionOnSet(h, S)
<1>1. IsFiniteSet(S)
  BY FS_Subset
<1>. DEFINE cost == [r \in S |-> job[r].answer.cost]
            Iterates(g) ==
              g = [s \in SUBSET S |-> IF s = {} THEN 0
                                      ELSE job[Pick(s)].answer.cost + g[s \ {Pick(s)}]]
            f == CHOOSE g : Iterates(g)
<1>2. MapThenSumSet(LAMBDA r : job[r].answer.cost, S) = f[S]
  BY DEF MapThenSumSet, MapThenFoldSet, Pick
<1>3. ASSUME NEW g PROVE Iterates(g) <=> Adds(g, cost, S)
  <2>1. \A s \in SUBSET S : s # {} => cost[Pick(s)] = job[Pick(s)].answer.cost
    BY PickIn
  <2>. HIDE DEF cost
  <2>2. [s \in SUBSET S |-> IF s = {} THEN 0
                            ELSE job[Pick(s)].answer.cost + g[s \ {Pick(s)}]]
        = [s \in SUBSET S |-> IF s = {} THEN 0 ELSE cost[Pick(s)] + g[s \ {Pick(s)}]]
    BY <2>1
  <2>. QED BY <2>2 DEF Adds
<1>4. \E g : Iterates(g)
  <2>1. PICK g : Adds(g, cost, S)
    BY <1>1, AddsExists
  <2>. HIDE DEF cost, Iterates
  <2>. QED BY <1>3, <2>1
<1>5. Iterates(f)
  <2>. HIDE DEF Iterates
  <2>. QED BY <1>4
<1>6. Adds(f, cost, S)
  <2>. HIDE DEF Iterates, f, cost
  <2>. QED BY <1>3, <1>5
<1>7. \A r \in S : h[r] = cost[r]
  OBVIOUS
<1>. HIDE DEF f, cost, Iterates
<1>8. SumFunctionOnSet(h, S) = f[S]
  <2>1. ASSUME NEW g, NEW k, Adds(g, k, S), \A r \in S : h[r] = k[r]
        PROVE  SumFunctionOnSet(h, S) = g[S]
    BY ONLY <1>1, <2>1, SumIs
  <2>. QED BY <1>6, <1>7, <2>1
<1>. QED BY <1>2, <1>8

\* What the provider's class tells of the charge for an NL2SQL request is put down
\* once, and what it tells a judge at most once, whatever the interleaving; all of
\* it is in the scopes, and nothing else.  What the class does not tell (no price
\* in the answer, an attempt that raised) is outside of this account.
THEOREM ChargedOnceAlways == Spec => []ChargedOnce
<1>1. Init => Accounted /\ Balanced
  BY InitAccounted, InitBalanced, NL2SQLRequestsAssumption, LLMBudgetAssumption
<1>2. Accounted /\ Balanced /\ [Next]_pilotVars => (Accounted /\ Balanced)'
  BY AccountedStep, BalancedStep, KeysAssumption, NL2SQLRequestsAssumption,
     LLMBudgetAssumption, TaskModesAssumption
<1>3. Accounted /\ Balanced => ChargedOnce
  <2>. SUFFICES ASSUME Accounted, Balanced, BudgetEnabled PROVE ChargedOnce
    BY DEF ChargedOnce
  <2>. DEFINE pending == {r \in Requests : At(r, "record") /\ job[r].who = "nl2sql"}
              h == Owed(job, "nl2sql")
  <2>1. IsFiniteSet(Requests) /\ \A r \in Requests : Priced(job[r])
    BY NL2SQLRequestsAssumption DEF Accounted, Room, NL2SQLRequestsAssumption
  <2>2. \A r \in Requests : h[r] = Owes(job[r], "nl2sql") /\ h[r] \in Nat
    BY <2>1, OwedNat, NL2SQLRequestsAssumption
  <2>3. /\ pending \subseteq Requests
        /\ \A r \in pending : h[r] = job[r].answer.cost
        /\ \A r \in Requests \ pending : h[r] = 0
    BY <2>2 DEF Owes, At
  <2>4. Due(job, "nl2sql") = SumFunctionOnSet(h, Requests)
    BY DEF Due
  <2>. HIDE DEF h, pending
  <2>5. Due(job, "nl2sql") = SumFunctionOnSet(h, pending)
    BY <2>1, <2>2, <2>3, <2>4, SumPart
  <2>6. Due(job, "nl2sql") = MapThenSumSet(LAMBDA r : job[r].answer.cost, pending)
    BY <2>1, <2>3, <2>5, CostsSum
  <2>7. Due(job, "judge") \in Nat /\ recorded["judge"] \in Nat /\ told["judge"] \in Nat
    <3>1. "judge" \in Callers
      BY DEF Callers
    <3>. QED BY <2>1, <3>1, OwedNat, NL2SQLRequestsAssumption DEF Balanced
  <2>8. recorded["judge"] <= told["judge"]
    BY <2>7 DEF Balanced
  <2>9. told["nl2sql"]
          = recorded["nl2sql"] + MapThenSumSet(LAMBDA r : job[r].answer.cost, pending)
    BY <2>6 DEF Balanced
  <2>10. /\ \A w \in Callers \ {"nl2sql", "judge"} : recorded[w] = 0
         /\ SumFunction(spent) = SumFunction(recorded)
    BY DEF Balanced
  <2>. QED BY <2>8, <2>9, <2>10 DEF ChargedOnce, pending
<1>. QED BY <1>1, <1>2, <1>3, PTL DEF Spec

-----------------------------------------------------------------------------
(* What is claimed of a call, and what it has cost.                        *)

\* A generator that has not been answered has no answer to show.
Unasked == {"new", "opened", "generate", "check", "lookup", "call", "compatible"}

\* What a reply can say of the call: that of the cache, nothing, or the truth.
Claims(j) ==
  j.who = "nl2sql" =>
    /\ j.at \in Unasked => j.via = "none" /\ j.answer = NoAnswer
    /\ j.at \in {"record", "store", "made"} =>
         \/ j.via = "cache" \/ j.answer = NoAnswer
         \/ j.via = "provider" /\ j.result.by \in {"llm", "mock_fallback"}

\* Where the job of a pilot can be, and what an answer it has not yet put into a
\* record has cost.
PilotPoints ==
  {"new", "absent", "call", "compatible", "answered", "load", "case", "json",
   "markdown", "done"}
PilotJob(r, j) ==
  /\ j.at \in PilotPoints
  /\ j.at \in {"call", "compatible", "answered"} => j.who \in {"probe", "pilot"}
  /\ j.at \in {"call", "compatible"} => j.answer = NoAnswer
  /\ j.at = "answered" /\ j.answer # NoAnswer =>
       j.answer.cost \in Costs \cup {0} /\ (DryRun(r) => j.answer.cost = 0)

JobTrue(r, j) ==
  /\ Claims(j)
  /\ j.who = "pilot" => r \in Pilots
  /\ r \in Pilots => PilotJob(r, j)

\* The records of a pilot.
CaseRecords(r) ==
  {c \in [called : BOOLEAN, fallback : BOOLEAN, passed : BOOLEAN, cost : Nat] :
     (c.fallback => c.called) /\ (DryRun(r) => c.cost = 0)}

\* One for each case that has been evaluated; all of them when there are reports.
\* A pilot that is refused writes none.
PilotTrue(r, j, p) ==
  /\ DOMAIN p = {"records", "files", "exit"}
  /\ p.records \in Seq(CaseRecords(r)) /\ Len(p.records) <= Len(Sample(r))
  /\ j.who = "pilot" /\ j.at \in {"call", "compatible", "answered"} =>
       Len(p.records) < Len(Sample(r))
  /\ j.at \in {"json", "markdown"} \/ p.files # {} => Len(p.records) = Len(Sample(r))
  /\ ~DryRun(r) /\ RefusalReasons(Settings[r]) # {} =>
       p.files = {} /\ j.at \in {"new", "absent", "done"}

\* What a pilot has been told of a charge and is in no record yet.
Pends(j) ==
  IF j.at = "answered" /\ j.who = "pilot" /\ j.answer # NoAnswer THEN j.answer.cost ELSE 0

\* The same of all pilots together; and what is in the records.
Pending(jobs) == SumFunctionOnSet([r \in Pilots |-> Pends(jobs[r])], Pilots)
InRecords(pilots) == SumFunctionOnSet([r \in Pilots |-> CostOf(pilots[r].records)], Pilots)

Evident ==
  /\ DOMAIN pilot = Pilots
  /\ \A r \in Requests : JobTrue(r, job[r])
  /\ \A r \in Pilots : PilotTrue(r, job[r], pilot[r])
  /\ told["pilot"] = InRecords(pilot) + Pending(job)

-----------------------------------------------------------------------------
(* What the records cost.                                                  *)

\* The costs of the records.
CostsOf(records) == [i \in DOMAIN records |-> records[i].cost]

\* What a pilot reports to have cost is what its records add up to.
LEMMA CostOfIs ==
  ASSUME NEW records, IsFiniteSet(DOMAIN records)
  PROVE  CostOf(records) = SumFunctionOnSet(CostsOf(records), DOMAIN records)
<1>. DEFINE S == DOMAIN records
            cost == CostsOf(records)
            Iterates(g) ==
              g = [s \in SUBSET S |-> IF s = {} THEN 0
                                      ELSE records[Pick(s)].cost + g[s \ {Pick(s)}]]
            f == CHOOSE g : Iterates(g)
<1>1. CostOf(records) = f[S]
  BY DEF CostOf, FoldFunction, FoldFunctionOnSet, MapThenFoldSet, Pick
<1>2. ASSUME NEW g PROVE Iterates(g) <=> Adds(g, cost, S)
  <2>1. \A s \in SUBSET S : s # {} => cost[Pick(s)] = records[Pick(s)].cost
    BY PickIn DEF CostsOf
  <2>. HIDE DEF cost
  <2>2. [s \in SUBSET S |-> IF s = {} THEN 0
                            ELSE records[Pick(s)].cost + g[s \ {Pick(s)}]]
        = [s \in SUBSET S |-> IF s = {} THEN 0 ELSE cost[Pick(s)] + g[s \ {Pick(s)}]]
    BY <2>1
  <2>. QED BY <2>2 DEF Adds
<1>3. \E g : Iterates(g)
  <2>1. PICK g : Adds(g, cost, S)
    BY AddsExists
  <2>. HIDE DEF cost, Iterates
  <2>. QED BY <1>2, <2>1
<1>4. Adds(f, cost, S)
  <2>. HIDE DEF Iterates, cost, S
  <2>1. Iterates(f)
    BY <1>3
  <2>. HIDE DEF f
  <2>. QED BY <1>2, <2>1
<1>. HIDE DEF f, cost, Iterates
<1>5. SumFunctionOnSet(cost, S) = f[S]
  BY <1>4, SumIs
<1>. QED BY <1>1, <1>5 DEF cost

\* Nothing has cost nothing, and a record adds its own cost.
LEMMA CostOfAppend ==
  ASSUME NEW R, \A c \in R : c.cost \in Nat
  PROVE  /\ CostOf(<<>>) = 0
         /\ \A records \in Seq(R) :
              /\ CostOf(records) \in Nat
              /\ \A c \in R : CostOf(Append(records, c)) = CostOf(records) + c.cost
<1>1. CostOf(<<>>) = 0
  <2>1. DOMAIN <<>> = {}
    OBVIOUS
  <2>2. IsFiniteSet({})
    BY FS_EmptySet
  <2>. QED BY <2>1, <2>2, CostOfIs, SumEmpty
<1>2. ASSUME NEW records \in Seq(R)
      PROVE  /\ IsFiniteSet(DOMAIN records) /\ DOMAIN records = 1..Len(records)
             /\ CostOf(records) \in Nat
  <2>1. DOMAIN records = 1..Len(records) /\ Len(records) \in Nat
    OBVIOUS
  <2>2. IsFiniteSet(DOMAIN records)
    BY <2>1, FS_Interval
  <2>3. \A i \in DOMAIN records : CostsOf(records)[i] \in Nat
    BY <2>1 DEF CostsOf
  <2>. QED BY <2>1, <2>2, <2>3, CostOfIs, SumNat
<1>3. ASSUME NEW records \in Seq(R), NEW c \in R
      PROVE  CostOf(Append(records, c)) = CostOf(records) + c.cost
  <2>. DEFINE more == Append(records, c)
              n == Len(records) + 1
              h == CostsOf(more)
              k == CostsOf(records)
  <2>1. /\ more \in Seq(R) /\ Len(more) = n /\ n \in Nat
        /\ \A i \in DOMAIN records : more[i] = records[i]
        /\ more[n] = c
    OBVIOUS
  <2>2. DOMAIN more = 1..n /\ DOMAIN records = (1..n) \ {n} /\ n \in 1..n
    <3>1. DOMAIN more = 1..Len(more) /\ DOMAIN records = 1..Len(records) /\ Len(records) \in Nat
      BY <2>1
    <3>2. \A m \in Nat : 1..m = (1..(m + 1)) \ {m + 1} /\ m + 1 \in 1..(m + 1)
      OBVIOUS
    <3>. HIDE DEF more
    <3>. QED BY <2>1, <3>1, <3>2
  <2>3. /\ \A i \in DOMAIN records : h[i] = k[i]
        /\ h[n] = c.cost /\ \A i \in DOMAIN more : h[i] \in Nat
    <3>1. \A i \in DOMAIN more : h[i] = more[i].cost /\ more[i] \in R
      BY <2>1 DEF CostsOf
    <3>2. \A i \in DOMAIN records : k[i] = records[i].cost
      BY DEF CostsOf
    <3>3. \A i \in DOMAIN more : more[i].cost \in Nat
      BY <3>1
    <3>. HIDE DEF more, h, k, n
    <3>4. n \in DOMAIN more /\ \A i \in DOMAIN records : i \in DOMAIN more
      BY <2>2
    <3>. QED BY <2>1, <3>1, <3>2, <3>3, <3>4
  <2>4. CostOf(more) = SumFunctionOnSet(h, DOMAIN more) /\ IsFiniteSet(DOMAIN more)
    BY <1>2, <2>1, CostOfIs
  <2>5. CostOf(records) = SumFunctionOnSet(k, DOMAIN records) /\ IsFiniteSet(DOMAIN records)
    BY <1>2, CostOfIs
  <2>6. CostOf(records) \in Nat /\ c.cost \in Nat
    BY <1>2
  <2>. HIDE DEF more, h, k, n
  <2>7. n \in DOMAIN more /\ DOMAIN records = DOMAIN more \ {n}
    BY <2>2
  <2>8. SumFunctionOnSet(h, DOMAIN more) = h[n] + SumFunctionOnSet(h, DOMAIN records)
    <3>. DEFINE S == DOMAIN more
    <3>1. IsFiniteSet(S) /\ (\A i \in S : h[i] \in Nat) /\ n \in S /\ DOMAIN records = S \ {n}
      BY <2>3, <2>4, <2>7
    <3>. HIDE DEF S
    <3>2. SumFunctionOnSet(h, S) = h[n] + SumFunctionOnSet(h, S \ {n})
      BY ONLY <3>1, SumRemove
    <3>. QED BY <3>1, <3>2 DEF S
  <2>9. SumFunctionOnSet(h, DOMAIN records) = SumFunctionOnSet(k, DOMAIN records)
    BY <2>3, <2>5, SumSame
  <2>10. CostOf(more) = CostOf(records) + c.cost
    BY <2>3, <2>4, <2>5, <2>6, <2>8, <2>9
  <2>. QED BY <2>10 DEF more
<1>. QED BY <1>1, <1>2, <1>3

-----------------------------------------------------------------------------
(* What a reply claims.                                                    *)

\* Where a reply claims nothing of a call.
LEMMA ElsewhereClaims ==
  ASSUME NEW j, j.at \notin Unasked \cup {"record", "store", "made"}
  PROVE  Claims(j)
BY DEF Claims

\* Who is not the generator claims nothing.
LEMMA OthersClaim ==
  ASSUME NEW j, j.who # "nl2sql"
  PROVE  Claims(j)
BY DEF Claims

\* Whoever has not been answered claims nothing.
LEMMA UnansweredClaims ==
  ASSUME NEW j, j.answer = NoAnswer, j.at \in Unasked => j.via = "none"
  PROVE  Claims(j)
BY DEF Claims, Unasked

\* The steps of the pipeline call for the same caller, and claim what is true.
LEMMA PipelineClaims ==
  ASSUME DOMAIN job = Requests, NEW r \in Requests, JobKeyed(r, job[r]), Claims(job[r]),
         PipelineStep(r)
  PROVE  job'[r].who = job[r].who /\ Claims(job'[r])
<1>. DEFINE Good(j) == j.who = job[r].who /\ Claims(j)
<1>0. DOMAIN job[r] = JobFields
  BY DEF JobKeyed
<1>1. ASSUME NEW j, job[r].who = "nl2sql", j.who = "nl2sql", j.answer = NoAnswer,
             j.at \in Unasked => j.via = "none"
      PROVE  Good(j)
  BY <1>1, UnansweredClaims
<1>2. ASSUME NEW j, job[r].who # "nl2sql", j.who = job[r].who
      PROVE  Good(j)
  BY <1>2, OthersClaim
<1>3. job[r].who = "nl2sql" /\ job[r].at \in Unasked =>
        job[r].via = "none" /\ job[r].answer = NoAnswer
  BY DEF Claims
<1>4. CASE Generate(r)
  <2>1. \/ \E result : job'[r] = [job[r] EXCEPT !.at = "made", !.schema = schema, !.result = result]
        \/ job'[r] = [job[r] EXCEPT !.at = "check", !.schema = schema]
    <3>1. \E j : /\ Update(r, j)
                 /\ \/ \E result : j = [job[r] EXCEPT !.at = "made", !.schema = schema, !.result = result]
                    \/ j = [job[r] EXCEPT !.at = "check", !.schema = schema]
      BY <1>4 DEF Generate
    <3>. QED BY <3>1, Gets
  <2>2. /\ job'[r].who = job[r].who /\ job'[r].answer = job[r].answer
        /\ job'[r].via = job[r].via
    BY <1>0, <2>1 DEF JobFields
  <2>3. job[r].at = "generate" /\ job[r].who = "nl2sql"
    BY <1>4 DEF Generate, At, JobKeyed
  <2>. QED BY <1>1, <1>3, <2>2, <2>3 DEF Unasked
<1>5. /\ job[r].at \in Unasked => Good(Without(r)) /\ Good(Failed(r))
      /\ Without(r).who = job[r].who /\ Failed(r).who = job[r].who
  <2>1. CASE job[r].who # "nl2sql"
    <3>1. Without(r).who = job[r].who /\ Failed(r).who = job[r].who
      BY <1>0, <2>1 DEF Without, Failed, JudgeUnavailable, JobFields
    <3>. QED BY <1>2, <2>1, <3>1
  <2>2. CASE job[r].who = "nl2sql"
    <3>. DEFINE j == [job[r] EXCEPT !.at = "made", !.result = Unavailable(r, job[r].schema)]
                k == [j EXCEPT !.at = "store"]
    <3>1. Without(r) = j /\ Failed(r) = k
      BY <2>2 DEF Without, Failed
    <3>2. /\ DOMAIN j = JobFields /\ j.who = job[r].who /\ j.answer = job[r].answer
          /\ j.at = "made"
      BY <1>0 DEF JobFields
    <3>. HIDE DEF j
    <3>3. k.who = job[r].who /\ k.answer = job[r].answer /\ k.at = "store"
      BY <3>2 DEF JobFields
    <3>. HIDE DEF k
    <3>. QED BY <1>1, <1>3, <2>2, <3>1, <3>2, <3>3 DEF Unasked
  <2>. QED BY <2>1, <2>2
<1>6. ASSUME job[r].at \in Unasked,
             \/ \E p \in Unasked \cup {"raised"} : job'[r] = [job[r] EXCEPT !.at = p]
             \/ job'[r] = [job[r] EXCEPT !.attempt = @ + 1]
      PROVE  Good(job'[r])
  <2>1. /\ job'[r].who = job[r].who /\ job'[r].answer = job[r].answer
        /\ job'[r].via = job[r].via
    BY <1>0, <1>6 DEF JobFields
  <2>. QED BY <1>1, <1>2, <1>3, <1>6, <2>1
<1>7. CASE GenerateRaises(r) \/ Check(r) \/ LookupMiss(r)
  <2>1. job[r].at \in Unasked
    BY <1>7 DEF GenerateRaises, Check, LookupMiss, At, Unasked
  <2>2. \/ \E p \in Unasked \cup {"raised"} : job'[r] = [job[r] EXCEPT !.at = p]
        \/ job'[r] = Without(r)
    BY <1>7, Gets DEF GenerateRaises, Check, LookupMiss, Unasked
  <2>. QED BY <1>5, <1>6, <2>1, <2>2
<1>8. CASE LookupHit(r)
  <2>. DEFINE kept == cache[CacheKey(r)].value
              at == IF job[r].who = "judge" THEN "judged" ELSE "made"
  <2>1. job'[r] = [job[r] EXCEPT !.at = at, !.result = kept.result, !.via = "cache",
                                 !.stored = kept.at]
    BY <1>8, Gets DEF LookupHit
  <2>2. at \notin Unasked
    BY DEF Unasked
  <2>. HIDE DEF kept, at
  <2>3. job'[r].who = job[r].who /\ job'[r].at = at /\ job'[r].via = "cache"
    BY <1>0, <2>1 DEF JobFields
  <2>. QED BY <2>2, <2>3 DEF Claims
<1>9. ASSUME NEW usable, NEW cost, NEW loses, Answered(r, usable, cost, loses)
      PROVE  Good(job'[r])
  <2>. DEFINE result == IF job[r].who # "nl2sql" THEN job[r].result
                        ELSE IF usable THEN Result("llm", TRUE, r, job[r].schema)
                        ELSE Unavailable(r, job[r].schema)
              at == NextOfAnswer(r, usable)
              answer == [usable |-> usable, cost |-> cost]
  <2>1. job'[r] = [job[r] EXCEPT !.at = at, !.answer = answer, !.via = "provider",
                                 !.result = result]
    BY <1>9, Gets DEF Answered
  <2>2. job[r].who = "nl2sql" => result.by \in {"llm", "mock_fallback"} /\ at \notin Unasked
    BY DEF Result, Unavailable, Mock, NextOfAnswer, Unasked
  <2>. HIDE DEF result, at, answer
  <2>3. /\ job'[r].who = job[r].who /\ job'[r].at = at /\ job'[r].via = "provider"
        /\ job'[r].result = result
    BY <1>0, <2>1 DEF JobFields
  <2>. QED BY <2>2, <2>3 DEF Claims
<1>10. CASE FakeAnswers(r) \/ LiteLLMAnswers(r) \/ OpenAIAnswers(r) \/ CompatibleAnswers(r)
  BY <1>9, <1>10 DEF FakeAnswers, LiteLLMAnswers, OpenAIAnswers, CompatibleAnswers,
       UnpricedAnswer, AnyAnswer
<1>11. CASE LiteLLMErrs(r) \/ OpenAIErrs(r) \/ CompatibleErrs(r)
  <2>1. \/ job'[r] = Failed(r)
        \/ job'[r] = [job[r] EXCEPT !.attempt = @ + 1]
        \/ job'[r] = [job[r] EXCEPT !.at = "compatible"]
    BY <1>11, Gets DEF LiteLLMErrs, OpenAIErrs, CompatibleErrs, Erred
  <2>2. job[r].at \in Unasked /\ "compatible" \in Unasked
    BY <1>11 DEF LiteLLMErrs, OpenAIErrs, CompatibleErrs, At, Unasked
  <2>. QED BY <1>5, <1>6, <2>1, <2>2
<1>12. CASE Record(r) \/ Store(r)
  <2>1. job[r].at \in {"record", "store"}
    BY <1>12 DEF Record, Store, At
  <2>2. \E at \in {"store", "judged", "made"} : job'[r] = [job[r] EXCEPT !.at = at]
    BY <1>12, Gets DEF Record, Store
  <2>3. /\ job'[r].who = job[r].who /\ job'[r].at \in {"store", "judged", "made"}
        /\ job'[r].answer = job[r].answer /\ job'[r].via = job[r].via
        /\ job'[r].result = job[r].result
    BY <1>0, <2>2 DEF JobFields
  <2>. QED BY <2>1, <2>3 DEF Claims, Unasked
<1>. QED BY <1>4, <1>7, <1>8, <1>10, <1>11, <1>12 DEF PipelineStep

-----------------------------------------------------------------------------
(* What a pilot is told of its charges.                                    *)

\* A call of a pilot goes on unanswered and untold of any charge, or is answered
\* and told its cost.
Unanswered(q) ==
  /\ UNCHANGED told /\ job'[q].answer = NoAnswer
  /\ job'[q].at \in {"call", "compatible", "answered"}
Told(q) ==
  \E cost \in Costs \cup {0} :
    /\ DryRun(q) => cost = 0
    /\ Raised(told', told, job[q].who, cost)
    /\ job'[q].at = "answered"
    /\ job'[q].answer # NoAnswer /\ job'[q].answer.cost = cost

\* The only steps a pilot takes in the pipeline are those of the provider.
LEMMA PilotCalls ==
  ASSUME NL2SQLRequestsAssumption, LLMPilotAssumption, DOMAIN job = Requests,
         NEW r \in Pilots, JobKeyed(r, job[r]), PilotJob(r, job[r]), PipelineStep(r)
  PROVE  /\ job[r].at \in {"call", "compatible"} /\ job[r].who \in {"probe", "pilot"}
         /\ job'[r].who = job[r].who
         /\ Unanswered(r) \/ Told(r)
<1>0. DOMAIN job[r] = JobFields /\ r \in Requests
  BY DEF JobKeyed, Pilots
<1>1. /\ ~Generate(r) /\ ~GenerateRaises(r) /\ ~Check(r) /\ ~LookupHit(r) /\ ~LookupMiss(r)
      /\ ~Record(r) /\ ~Store(r)
  BY DEF PilotJob, PilotPoints, Generate, GenerateRaises, Check, LookupHit, LookupMiss, Record,
     Store, At
<1>2. job[r].at \in {"call", "compatible"} =>
        job[r].who \in {"probe", "pilot"} /\ job[r].answer = NoAnswer
  BY DEF PilotJob
<1>3. ASSUME NEW usable \in BOOLEAN, NEW cost \in Costs \cup {0}, DryRun(r) => cost = 0,
             NEW loses, Answered(r, usable, cost, loses), job[r].at \in {"call", "compatible"}
      PROVE  job'[r].who = job[r].who /\ Told(r)
  <2>. DEFINE at == NextOfAnswer(r, usable)
              answer == [usable |-> usable, cost |-> cost]
  <2>1. /\ job'[r] = [job[r] EXCEPT !.at = at, !.answer = answer, !.via = "provider",
                                    !.result = job[r].result]
        /\ told' = [told EXCEPT ![job[r].who] = @ + cost]
    <3>1. job[r].who # "nl2sql"
      BY <1>2, <1>3
    <3>2. Update(r, [job[r] EXCEPT !.at = at, !.answer = answer, !.via = "provider",
                                   !.result = job[r].result])
      BY <1>3, <3>1 DEF Answered
    <3>3. told' = [told EXCEPT ![job[r].who] = @ + cost]
      BY <1>3 DEF Answered, Charge
    <3>. HIDE DEF at, answer
    <3>. QED BY <1>0, <3>2, <3>3, Gets
  <2>2. at = "answered"
    BY <1>2, <1>3 DEF NextOfAnswer
  <2>3. answer.cost = cost /\ answer # NoAnswer
    <3>1. cost \in Nat
      BY DEF NL2SQLRequestsAssumption
    <3>2. answer \in [usable : BOOLEAN, cost : Nat]
      BY <3>1
    <3>. QED BY <3>2 DEF NL2SQLRequestsAssumption
  <2>. HIDE DEF at, answer
  <2>4. job'[r].at = at /\ job'[r].who = job[r].who /\ job'[r].answer = answer
    BY <1>0, <2>1 DEF JobFields
  <2>5. Raised(told', told, job[r].who, cost)
    BY <2>1 DEF Raised
  <2>. QED BY <1>3, <2>2, <2>3, <2>4, <2>5 DEF Told
<1>4. CASE FakeAnswers(r) \/ LiteLLMAnswers(r) \/ OpenAIAnswers(r) \/ CompatibleAnswers(r)
  <2>0. job[r].at \in {"call", "compatible"}
    BY <1>4 DEF FakeAnswers, LiteLLMAnswers, OpenAIAnswers, CompatibleAnswers, At
  <2>1. Usefulness \subseteq BOOLEAN
    BY DEF Usefulness, Usable
  <2>2. CASE FakeAnswers(r) \/ OpenAIAnswers(r) \/ CompatibleAnswers(r)
    <3>1. PICK usable \in BOOLEAN : \E loses : Answered(r, usable, 0, loses)
      <4>1. CASE FakeAnswers(r)
        BY <4>1 DEF FakeAnswers
      <4>2. CASE OpenAIAnswers(r) \/ CompatibleAnswers(r)
        BY <2>1, <4>2 DEF OpenAIAnswers, CompatibleAnswers, UnpricedAnswer, AnyAnswer
      <4>. QED BY <2>2, <4>1, <4>2
    <3>2. PICK loses : Answered(r, usable, 0, loses)
      BY <3>1
    <3>3. 0 \in Costs \cup {0} /\ (DryRun(r) => 0 = 0)
      OBVIOUS
    <3>. QED BY <1>2, <1>3, <2>0, <3>2, <3>3
  <2>3. CASE LiteLLMAnswers(r)
    <3>1. Asked(r) = Provider[r]
      BY <1>2, <2>0 DEF Asked
    <3>2. ~DryRun(r)
      BY <2>3, <3>1 DEF LiteLLMAnswers, LLMPilotAssumption
    <3>3. \E usable \in BOOLEAN, cost \in Costs \cup {0} : \E loses : Answered(r, usable, cost, loses)
      BY <2>1, <2>3 DEF LiteLLMAnswers, AnyAnswer
    <3>. QED BY <1>2, <1>3, <2>0, <3>2, <3>3
  <2>. QED BY <1>4, <2>2, <2>3
<1>5. CASE LiteLLMErrs(r) \/ OpenAIErrs(r) \/ CompatibleErrs(r)
  <2>1. \/ job'[r] = Failed(r)
        \/ At(r, "call") /\ job'[r] = [job[r] EXCEPT !.attempt = @ + 1]
        \/ At(r, "call") /\ job'[r] = [job[r] EXCEPT !.at = "compatible"]
    BY <1>0, <1>5, Gets DEF LiteLLMErrs, OpenAIErrs, CompatibleErrs, Erred
  <2>2. job[r].at \in {"call", "compatible"} /\ UNCHANGED told
    BY <1>5 DEF LiteLLMErrs, OpenAIErrs, CompatibleErrs, Wasted, At
  <2>3. Failed(r) = [job[r] EXCEPT !.at = "answered"]
    BY <1>2, <2>2 DEF Failed, Without
  <2>4. /\ job'[r].who = job[r].who /\ job'[r].answer = job[r].answer
        /\ job'[r].at \in {"call", "compatible", "answered"}
    BY <1>0, <2>1, <2>3 DEF JobFields, At
  <2>. QED BY <1>2, <2>2, <2>4 DEF Unanswered
<1>. QED BY <1>1, <1>4, <1>5 DEF PipelineStep

\* A pilot is told of no charge but what is pending, and nothing pending is put
\* into a record but what it was told.
Evens(q) ==
  IF q \in Pilots
  THEN told'["pilot"] + (Pends(job[q]) + CostOf(pilot[q].records))
         = told["pilot"] + (Pends(job'[q]) + CostOf(pilot'[q].records))
  ELSE told'["pilot"] = told["pilot"]

\* The steps of the pipeline keep a pilot and its accounts in order.
LEMMA PipelineTrue ==
  ASSUME NL2SQLRequestsAssumption, LLMPilotAssumption, DOMAIN job = Requests,
         told \in [Callers -> Nat], NEW r \in Requests, JobKeyed(r, job[r]),
         JobTrue(r, job[r]), PipelineStep(r), pilot' = pilot,
         r \in Pilots => PilotTrue(r, job[r], pilot[r]) /\ CostOf(pilot[r].records) \in Nat
  PROVE  /\ JobTrue(r, job'[r]) /\ Evens(r)
         /\ r \in Pilots => PilotTrue(r, job'[r], pilot'[r])
<1>1. job'[r].who = job[r].who /\ Claims(job'[r])
  BY PipelineClaims DEF JobTrue
<1>2. CASE r \notin Pilots
  <2>1. job[r].who # "pilot"
    BY <1>2 DEF JobTrue
  <2>2. told'["pilot"] = told["pilot"]
    <3>1. Books(r)
      BY PipelineBooks
    <3>2. Settles(r) => UNCHANGED told
      BY DEF Settles, Record
    <3>3. ASSUME NEW cost, told' = [told EXCEPT ![job[r].who] = @ + cost]
          PROVE  told'["pilot"] = told["pilot"]
      BY <2>1, <3>3
    <3>. QED BY <3>1, <3>2, <3>3 DEF Books, Admits, Charges, Ledger
  <2>. QED BY <1>1, <1>2, <2>1, <2>2 DEF JobTrue, Evens
<1>3. CASE r \in Pilots
  <2>1. PilotJob(r, job[r])
    BY <1>3 DEF JobTrue
  <2>2. /\ job[r].at \in {"call", "compatible"} /\ job[r].who \in {"probe", "pilot"}
        /\ Unanswered(r) \/ Told(r)
    BY <1>3, <2>1, PilotCalls
  <2>3. PilotJob(r, job'[r])
    BY <1>1, <2>2 DEF Unanswered, Told, PilotJob, PilotPoints
  <2>4. PilotTrue(r, job'[r], pilot'[r])
    BY <1>1, <1>3, <2>2 DEF Unanswered, Told, PilotTrue
  <2>5. Evens(r)
    <3>1. Pends(job[r]) = 0
      BY <2>2 DEF Pends
    <3>2. told["pilot"] \in Nat /\ "pilot" \in Callers
      BY DEF Callers
    <3>3. CASE Unanswered(r)
      <4>1. Pends(job'[r]) = 0 /\ told' = told
        BY <3>3 DEF Unanswered, Pends
      <4>. QED BY <1>3, <3>1, <4>1 DEF Evens
    <3>4. CASE Told(r)
      <4>1. PICK cost \in Costs \cup {0} :
              /\ Raised(told', told, job[r].who, cost)
              /\ job'[r].at = "answered"
              /\ job'[r].answer # NoAnswer /\ job'[r].answer.cost = cost
        BY <3>4 DEF Told
      <4>2. cost \in Nat
        BY DEF NL2SQLRequestsAssumption
      <4>3. told'["pilot"] = IF "pilot" = job[r].who THEN told["pilot"] + cost ELSE told["pilot"]
        <5>1. Raised(told', told, job[r].who, cost)
          BY <4>1
        <5>2. \A w \in Callers :
                told'[w] = IF w = job[r].who THEN told[w] + cost ELSE told[w]
          BY ONLY told \in [Callers -> Nat], <4>2, <5>1, CountsUp
        <5>. QED BY <3>2, <5>2
      <4>4. Pends(job'[r]) = IF job[r].who = "pilot" THEN cost ELSE 0
        BY <1>1, <4>1 DEF Pends
      <4>5. CostOf(pilot[r].records) \in Nat /\ pilot' = pilot
        BY <1>3
      <4>6. \A m, n, k \in Nat : (m + n) + (0 + k) = m + (n + k)
        OBVIOUS
      <4>. QED BY <1>3, <3>1, <3>2, <4>2, <4>3, <4>4, <4>5, <4>6 DEF Evens
    <3>. QED BY <2>2, <3>3, <3>4
  <2>. QED BY <1>1, <1>3, <2>3, <2>4, <2>5 DEF JobTrue
<1>. QED BY <1>2, <1>3

-----------------------------------------------------------------------------
(* The steps of the others are none of a pilot's.                          *)

\* What the job of a request that is no pilot has to be.
NoPilot(r, j) == r \notin Pilots /\ Claims(j) /\ j.who # "pilot"

\* A job that is not a pilot's is in order if its claims are.
LEMMA NoPilotTrue ==
  ASSUME NEW r, NEW j, NoPilot(r, j)
  PROVE  JobTrue(r, j)
BY DEF NoPilot, JobTrue

\* A job that has had no answer from a model, or is not the generator's, or is
\* where nothing is claimed.
LEMMA NoPilotJobs ==
  ASSUME NEW r, DOMAIN job[r] = JobFields, r \notin Pilots, job[r].who # "pilot"
  PROVE  /\ \A p : p \notin Unasked \cup {"record", "store", "made"} =>
              NoPilot(r, [job[r] EXCEPT !.at = p]) /\ NoPilot(r, [NewJob EXCEPT !.at = p])
         /\ \A p : job[r].via = "none" /\ job[r].answer = NoAnswer =>
              NoPilot(r, [job[r] EXCEPT !.at = p])
         /\ \A who \in {"route", "plan", "preflight"} : NoPilot(r, Calling(r, who))
<1>1. ASSUME NEW p, p \notin Unasked \cup {"record", "store", "made"}
      PROVE  NoPilot(r, [job[r] EXCEPT !.at = p]) /\ NoPilot(r, [NewJob EXCEPT !.at = p])
  <2>. DEFINE j == [job[r] EXCEPT !.at = p]
              k == [NewJob EXCEPT !.at = p]
  <2>1. j.at = p /\ j.who # "pilot" /\ k.at = p /\ k.who = "nl2sql"
    BY DEF JobFields, NewJob
  <2>. HIDE DEF j, k
  <2>2. NoPilot(r, j) /\ NoPilot(r, k)
    BY <1>1, <2>1, ElsewhereClaims DEF NoPilot
  <2>. QED BY <2>2 DEF j, k
<1>2. ASSUME NEW p, job[r].via = "none", job[r].answer = NoAnswer
      PROVE  NoPilot(r, [job[r] EXCEPT !.at = p])
  <2>. DEFINE j == [job[r] EXCEPT !.at = p]
  <2>1. j.via = "none" /\ j.answer = NoAnswer /\ j.who # "pilot"
    BY <1>2 DEF JobFields
  <2>. HIDE DEF j
  <2>2. NoPilot(r, j)
    BY <2>1, UnansweredClaims DEF NoPilot
  <2>. QED BY <2>2 DEF j
<1>3. ASSUME NEW who \in {"route", "plan", "preflight"} PROVE NoPilot(r, Calling(r, who))
  <2>1. Calling(r, who).who = who
    BY DEF Calling, JobFields
  <2>. QED BY <2>1, OthersClaim DEF NoPilot
<1>. QED BY <1>1, <1>2, <1>3

\* An endpoint is no pilot, and its reply claims what is true.
LEMMA EndpointTrue ==
  ASSUME DOMAIN job = Requests, NEW r \in Requests, JobKeyed(r, job[r]), JobTrue(r, job[r]),
         EndpointStep(r)
  PROVE  NoPilot(r, job'[r])
<1>0. DOMAIN job[r] = JobFields
  BY DEF JobKeyed
<1>1. r \notin Pilots
  <2>. SUFFICES ASSUME r \in Pilots PROVE FALSE
    OBVIOUS
  <2>1. Kind[r] \in {"pilot", "dry_run"}
    BY DEF Pilots
  <2>2. job[r].at \notin {"opened", "judged", "evaluate", "made", "raised"}
        /\ (job[r].at = "answered" => job[r].who \in {"probe", "pilot"})
    BY DEF JobTrue, PilotJob, PilotPoints
  <2>3. ~Arrive(r) /\ ~ArriveBadCases(r) /\ ~ArriveEval(r) /\ ~OpenStream(r)
        /\ ~FinishStream(r) /\ ~Disconnect(r)
    BY <2>1 DEF Arrive, ArriveBadCases, ArriveEval, OpenStream, FinishStream, Disconnect
  <2>4. ~NextBadCase(r) /\ ~EvalRaises(r) /\ ~EvaluateCase(r) /\ ~CaseEvaluated(r)
        /\ ~ExplainFailure(r) /\ ~AdvanceStream(r) /\ ~Reply(r)
    BY <2>2 DEF NextBadCase, EvalRaises, EvaluateCase, CaseEvaluated, ExplainFailure,
       AdvanceStream, Reply, Replies, At
  <2>. QED BY <2>3, <2>4 DEF EndpointStep
<1>2. job[r].who # "pilot"
  BY <1>1 DEF JobTrue
<1>. DEFINE Silent(p) == p \notin Unasked \cup {"record", "store", "made"}
<1>3. /\ \A p : Silent(p) =>
           NoPilot(r, [job[r] EXCEPT !.at = p]) /\ NoPilot(r, [NewJob EXCEPT !.at = p])
      /\ job[r].via = "none" /\ job[r].answer = NoAnswer =>
           \A p : NoPilot(r, [job[r] EXCEPT !.at = p])
  BY <1>0, <1>1, <1>2, NoPilotJobs
<1>4. ASSUME NEW j, j.who \in {"judge", "eval"} PROVE NoPilot(r, j)
  BY <1>1, <1>4, OthersClaim DEF NoPilot
<1>5. CASE Arrive(r) \/ OpenStream(r) \/ AdvanceStream(r)
  <2>1. \E p : job'[r] = [job[r] EXCEPT !.at = p]
    BY <1>5, Gets DEF Arrive, OpenStream, AdvanceStream, Blocked
  <2>2. job[r].at \in {"new", "opened"}
    BY <1>5 DEF Arrive, OpenStream, AdvanceStream, At
  <2>3. job[r].via = "none" /\ job[r].answer = NoAnswer
    BY <2>2 DEF JobKeyed, JobTrue, Claims, Unasked
  <2>. QED BY <1>3, <2>1, <2>3
<1>6. CASE Reply(r) \/ FinishStream(r) \/ Disconnect(r)
  <2>1. \E p \in {"done", "gone"} : job'[r] = [NewJob EXCEPT !.at = p]
    BY <1>6, Gets DEF Reply, FinishStream, Disconnect
  <2>2. \A p \in {"done", "gone"} : Silent(p)
    BY DEF Unasked
  <2>. QED BY <1>3, <2>1, <2>2
<1>7. CASE EvalRaises(r) \/ CaseEvaluated(r)
  <2>1. \E p \in {"raised", "evaluate"} : job'[r] = [job[r] EXCEPT !.at = p]
    BY <1>7, Gets DEF EvalRaises, CaseEvaluated
  <2>2. \A p \in {"raised", "evaluate"} : Silent(p)
    BY DEF Unasked
  <2>. QED BY <1>3, <2>1, <2>2
<1>8. CASE ArriveBadCases(r) \/ NextBadCase(r)
  <2>1. job'[r] = [NewJob EXCEPT !.who = "judge", !.case = job[r].case + 1,
                                 !.at = IF FakeJudges(r) THEN "judged" ELSE "check"]
    BY <1>8, Gets DEF ArriveBadCases, NextBadCase, JudgeCase
  <2>2. job'[r].who = "judge"
    BY <2>1 DEF NewJob
  <2>. QED BY <1>4, <2>2
<1>9. CASE ArriveEval(r) \/ ExplainFailure(r)
  <2>1. \/ \E p : job'[r] = [job[r] EXCEPT !.who = "eval", !.at = p]
        \/ /\ job[r].who = "eval"
           /\ job'[r] = [job[r] EXCEPT !.at = "call", !.attempt = 0, !.again = TRUE]
    BY <1>9, Gets DEF ArriveEval, ExplainFailure
  <2>2. job'[r].who = "eval"
    BY <1>0, <2>1 DEF JobFields
  <2>. QED BY <1>4, <2>2
<1>10. CASE EvaluateCase(r)
  <2>. DEFINE next == job[r].case + 1
              p == IF Makes(Provider[r]) /\ Cases[r][next] = "normal"
                   THEN "call" ELSE "evaluate"
  <2>1. job'[r] = [NewJob EXCEPT !.who = "eval", !.case = next, !.at = p]
    BY <1>10, Gets DEF EvaluateCase
  <2>. HIDE DEF next, p
  <2>2. job'[r].who = "eval"
    BY <2>1 DEF NewJob
  <2>. QED BY <1>4, <2>2
<1>. QED BY <1>5, <1>6, <1>7, <1>8, <1>9, <1>10 DEF EndpointStep

\* Nor is who checks the settings.
LEMMA ArrivalTrue ==
  ASSUME DOMAIN job = Requests, NEW r \in Requests, JobKeyed(r, job[r]), JobTrue(r, job[r]),
         ArrivePreflight(r) \/ ArriveCheck(r)
  PROVE  NoPilot(r, job'[r]) /\ pilot' = pilot
<1>0. DOMAIN job[r] = JobFields
  BY DEF JobKeyed
<1>1. r \notin Pilots /\ pilot' = pilot
  BY DEF ArrivePreflight, ArriveCheck, Pilots
<1>2. job[r].who # "pilot"
  BY <1>1 DEF JobTrue
<1>3. CASE ArrivePreflight(r)
  <2>1. \/ job'[r] = Calling(r, "preflight")
        \/ job'[r] = [job[r] EXCEPT !.who = "preflight", !.at = "answered"]
    BY <1>3, Gets DEF ArrivePreflight
  <2>2. CASE job'[r] = [job[r] EXCEPT !.who = "preflight", !.at = "answered"]
    <3>1. job'[r].who = "preflight"
      BY <1>0, <2>2 DEF JobFields
    <3>. QED BY <1>1, <3>1, OthersClaim DEF NoPilot
  <2>3. NoPilot(r, Calling(r, "preflight"))
    BY <1>0, <1>1, <1>2, NoPilotJobs
  <2>. QED BY <1>1, <2>1, <2>2, <2>3, Zenon
<1>4. CASE ArriveCheck(r)
  <2>1. job'[r] = [NewJob EXCEPT !.at = "done"]
    BY <1>4, Gets DEF ArriveCheck
  <2>2. "done" \notin Unasked \cup {"record", "store", "made"}
    BY DEF Unasked
  <2>3. NoPilot(r, [NewJob EXCEPT !.at = "done"])
    BY <1>0, <1>1, <1>2, <2>2, NoPilotJobs, Zenon
  <2>. QED BY <1>1, <2>1, <2>3, Zenon
<1>. QED BY <1>1, <1>3, <1>4

\* A run of a task begins with nothing to claim.
LEMMA StartRunTrue ==
  ASSUME DOMAIN job = Requests, NEW r \in Requests, DOMAIN job[r] = JobFields,
         r \notin Pilots, job[r].who # "pilot",
         NEW t, StartRun(r, t), Head(t.todo) \in RunModes
  PROVE  NoPilot(r, job'[r])
<1>. DEFINE j == [job[r] EXCEPT !.who = "nl2sql", !.at = "generate", !.attempt = 0,
                                !.answer = NoAnswer, !.via = "none"]
            k == [job[r] EXCEPT !.at = Head(t.todo)]
<1>1. \/ job'[r] = j \/ job'[r] = Calling(r, "plan")
      \/ Head(t.todo) # "nl2sql" /\ job'[r] = k
  BY Gets DEF StartRun
<1>2. NoPilot(r, j)
  <2>1. j.who = "nl2sql" /\ j.answer = NoAnswer /\ j.via = "none"
    BY DEF JobFields
  <2>. HIDE DEF j
  <2>. QED BY <2>1, UnansweredClaims DEF NoPilot
<1>3. NoPilot(r, Calling(r, "plan"))
  BY NoPilotJobs
<1>4. Head(t.todo) # "nl2sql" => NoPilot(r, k)
  <2>1. Head(t.todo) # "nl2sql" => Head(t.todo) \notin Unasked \cup {"record", "store", "made"}
    BY DEF RunModes, Unasked
  <2>. QED BY <2>1, NoPilotJobs
<1>. HIDE DEF j, k
<1>. QED BY <1>1, <1>2, <1>3, <1>4, Zenon

\* A task is no pilot, and claims nothing by itself.
LEMMA TaskTrue ==
  ASSUME Shape, TaskModesAssumption, NEW r \in Tasks, JobKeyed(r, job[r]), TaskKeyed(r),
         JobTrue(r, job[r]), TaskStep(r)
  PROVE  NoPilot(r, job'[r])
<1>0. /\ DOMAIN job = Requests /\ r \in Requests /\ DOMAIN job[r] = JobFields
      /\ DOMAIN task[r] = TaskFields
  BY DEF Shape, Tasks, JobKeyed, TaskRecord
<1>1. r \notin Pilots /\ job[r].who # "pilot"
  <2>1. r \notin Pilots
    BY DEF Tasks, Pilots
  <2>. QED BY <2>1 DEF JobTrue
<1>2. ASSUME NEW t, StartRun(r, t), t.todo \in Seq(RunModes), t.todo # <<>>
      PROVE  NoPilot(r, job'[r])
  <2>1. Head(t.todo) \in RunModes
    BY <1>2
  <2>. QED BY <1>0, <1>1, <1>2, <2>1, StartRunTrue
<1>3. ASSUME NEW p \in {"refused", "route", "next", "keyword", "done"}
      PROVE  NoPilot(r, [job[r] EXCEPT !.at = p]) /\ NoPilot(r, [NewJob EXCEPT !.at = p])
  <2>1. p \notin Unasked \cup {"record", "store", "made"}
    BY DEF Unasked
  <2>. QED BY <1>0, <1>1, <2>1, NoPilotJobs, Zenon
<1>4. ASSUME NEW t, Conclude(r, t) PROVE NoPilot(r, job'[r])
  <2>1. job'[r] = [NewJob EXCEPT !.at = "done"]
    BY <1>0, <1>4, Gets DEF Conclude
  <2>2. NoPilot(r, [NewJob EXCEPT !.at = "done"])
    BY <1>3
  <2>. QED BY <2>1, <2>2, Zenon
<1>5. CASE ArriveTask(r)
  <2>1. \/ job'[r] = [job[r] EXCEPT !.at = "refused"]
        \/ job'[r] = [job[r] EXCEPT !.at = "route"]
        \/ job'[r] = Calling(r, "route")
        \/ job'[r] = [job[r] EXCEPT !.at = "next"]
    BY <1>0, <1>5, Gets DEF ArriveTask
  <2>2. NoPilot(r, Calling(r, "route"))
    BY <1>0, <1>1, NoPilotJobs
  <2>3. ASSUME NEW p \in {"refused", "route", "next"}, job'[r] = [job[r] EXCEPT !.at = p]
        PROVE  NoPilot(r, job'[r])
    BY <1>3, <2>3, Zenon
  <2>. QED BY <2>1, <2>2, <2>3
<1>6. CASE ConcludeRefused(r)
  BY <1>4, <1>6 DEF ConcludeRefused
<1>7. CASE NextRun(r)
  <2>1. StartRun(r, task[r]) /\ task[r].todo # <<>> /\ task[r].todo \in Seq(RunModes)
    BY <1>7 DEF NextRun, TaskKeyed, At
  <2>. QED BY <1>2, <2>1
<1>8. CASE RouteByLLM(r) \/ RouteByRule(r)
  <2>1. PICK mode \in Selectable : Select(r, mode)
    BY <1>8 DEF RouteByLLM, RouteByRule, TaskModesAssumption
  <2>. DEFINE t == [task[r] EXCEPT !.selected = mode, !.todo = Cascade(mode)]
  <2>2. StartRun(r, t)
    BY <2>1 DEF Select
  <2>3. t.todo = Cascade(mode)
    BY <1>0 DEF TaskFields
  <2>. HIDE DEF t
  <2>4. t.todo \in Seq(RunModes) /\ t.todo # <<>>
    BY <2>3, CascadeModes
  <2>. QED BY <1>2, <2>2, <2>4
<1>9. CASE Planned(r)
  <2>1. job'[r] = [job[r] EXCEPT !.at = "keyword"]
    BY <1>0, <1>9, Gets DEF Planned
  <2>2. NoPilot(r, [job[r] EXCEPT !.at = "keyword"])
    BY <1>3
  <2>. QED BY <2>1, <2>2, Zenon
<1>10. CASE NL2SQLRunEnds(r) \/ MultitoolRunEnds(r) \/ KeywordRunEnds(r)
  <2>1. PICK run \in Runs : RunEnds(r, run)
    BY <1>10, OutcomeIsRun DEF NL2SQLRunEnds, MultitoolRunEnds, KeywordRunEnds, RunModes
  <2>2. CASE CascadeGoesOn(r, run)
    <3>1. PICK t : t.todo = task[r].todo /\ StartRun(r, t)
      BY <2>2 DEF CascadeGoesOn
    <3>2. t.todo \in Seq(RunModes) /\ t.todo # <<>>
      BY <2>2, <3>1 DEF CascadeGoesOn, TaskKeyed
    <3>. QED BY <1>2, <3>1, <3>2
  <2>3. CASE FallsBack(r, run)
    <3>. DEFINE mode == SuggestFallback(task[r].selected)
    <3>1. PICK t : t.todo = Cascade(mode) /\ StartRun(r, t)
      BY <2>3 DEF FallsBack
    <3>2. mode \in Selectable
      BY DEF SuggestFallback, Selectable, RunModes
    <3>. HIDE DEF mode
    <3>3. t.todo \in Seq(RunModes) /\ t.todo # <<>>
      BY <3>1, <3>2, CascadeModes
    <3>. QED BY <1>2, <3>1, <3>3
  <2>4. CASE Concludes(r, run)
    <3>1. job'[r] = [NewJob EXCEPT !.at = "done"]
      BY <2>4 DEF Concludes
    <3>2. NoPilot(r, [NewJob EXCEPT !.at = "done"])
      BY <1>3
    <3>. QED BY <3>1, <3>2, Zenon
  <2>. QED BY <2>1, <2>2, <2>3, <2>4, RunEndsMeans
<1>11. CASE RunRaises(r)
  <2>. DEFINE mode == IF At(r, "raised") THEN "nl2sql" ELSE "multitool"
              t == [task[r] EXCEPT !.runs = Append(@, Outcome(mode, "failed"))]
              u == [t EXCEPT !.todo = <<"keyword">>]
              v == [t EXCEPT !.todo = <<>>,
                         !.adopted = IF Mode[r] = "multi_agent" THEN 0 ELSE Len(t.runs)]
  <2>1. IF Mode[r] = "auto" THEN StartRun(r, u) ELSE Conclude(r, v)
    BY <1>11 DEF RunRaises
  <2>2. DOMAIN t = TaskFields
    BY <1>0 DEF TaskFields
  <2>. HIDE DEF t
  <2>3. u.todo = <<"keyword">>
    BY <2>2 DEF TaskFields
  <2>. HIDE DEF u, v
  <2>4. u.todo \in Seq(RunModes) /\ u.todo # <<>>
    BY <2>3 DEF RunModes
  <2>. QED BY <1>2, <1>4, <2>1, <2>4
<1>. QED BY <1>5, <1>6, <1>7, <1>8, <1>9, <1>10, <1>11 DEF TaskStep

-----------------------------------------------------------------------------
(* The steps of a pilot.                                                   *)

\* What the job of a pilot becomes where it goes on, or to its end.
GoesTo(r, p, k) ==
  \/ k = [job[r] EXCEPT !.at = p]
  \/ k = [NewJob EXCEPT !.at = p]
  \/ \E s : k = [job[r] EXCEPT !.at = p, !.schema = s]

\* Where a pilot goes by itself its job is in order.
LEMMA PilotGoes ==
  ASSUME NEW r \in Pilots, DOMAIN job[r] = JobFields,
         NEW p \in {"load", "case", "json", "markdown", "done"}, NEW k, GoesTo(r, p, k)
  PROVE  JobTrue(r, k) /\ k.at = p
<1>1. k.at = p
  BY DEF GoesTo, JobFields, NewJob
<1>2. Claims(k)
  BY <1>1, ElsewhereClaims DEF Unasked
<1>3. PilotJob(r, k)
  BY <1>1 DEF PilotJob, PilotPoints
<1>4. k.who = "pilot" => r \in Pilots
  OBVIOUS
<1>. QED BY <1>1, <1>2, <1>3, <1>4 DEF JobTrue

\* Nor does a call of a pilot claim anything.
LEMMA PilotAsks ==
  ASSUME NEW r \in Pilots, DOMAIN job[r] = JobFields,
         NEW who \in {"probe", "pilot"}, NEW k, k = Calling(r, who)
  PROVE  JobTrue(r, k) /\ k.at = "call" /\ k.who = who
<1>1. k.at = "call" /\ k.who = who /\ k.answer = NoAnswer
  BY DEF Calling, JobFields
<1>2. Claims(k)
  BY <1>1, OthersClaim
<1>3. PilotJob(r, k)
  BY <1>1 DEF PilotJob, PilotPoints
<1>. QED BY <1>1, <1>2, <1>3 DEF JobTrue

IsRefused(r) == ~DryRun(r) /\ RefusalReasons(Settings[r]) # {}

\* What it has recorded stays in order where it records nothing more.
LEMMA PilotKeeps ==
  ASSUME NEW r, NEW j, NEW p, PilotTrue(r, j, p), NEW k, NEW q, DOMAIN q = DOMAIN p,
         q.records = p.records,
         q.files = p.files \/ Len(p.records) = Len(Sample(r)),
         \/ k.at \in {"load", "case", "done"}
         \/ k.at \in {"json", "markdown"} /\ Len(p.records) = Len(Sample(r))
         \/ k.at = "call" /\ (k.who = "pilot" => Len(p.records) < Len(Sample(r))),
         IsRefused(r) => q.files = {} /\ k.at = "done"
  PROVE  PilotTrue(r, k, q)
BY DEF PilotTrue, IsRefused

\* Another record is one of another case.
LEMMA PilotRecords ==
  ASSUME NEW r, NEW j, NEW p, PilotTrue(r, j, p), NEW k, NEW c \in CaseRecords(r),
         Len(p.records) < Len(Sample(r)), Len(Sample(r)) \in Nat, k.at = "case", ~IsRefused(r),
         NEW q, q = [p EXCEPT !.records = Append(@, c)]
  PROVE  PilotTrue(r, k, q) /\ q.records = Append(p.records, c)
<1>. DEFINE more == Append(p.records, c)
<1>1. /\ DOMAIN q = {"records", "files", "exit"} /\ q.records = more /\ q.files = p.files
      /\ p.records \in Seq(CaseRecords(r)) /\ p.files = {}
  BY DEF PilotTrue
<1>2. more \in Seq(CaseRecords(r)) /\ Len(more) = Len(p.records) + 1 /\ Len(p.records) \in Nat
  BY <1>1
<1>. HIDE DEF more
<1>3. Len(more) <= Len(Sample(r))
  BY <1>2
<1>4. PilotTrue(r, k, q)
  BY <1>1, <1>2, <1>3 DEF PilotTrue, IsRefused
<1>. QED BY <1>1, <1>4 DEF more

\* How many cases a pilot is to evaluate.
LEMMA SampleLength ==
  ASSUME NL2SQLRequestsAssumption, LLMPilotAssumption, NEW r \in Pilots
  PROVE  Len(Sample(r)) \in Nat
<1>. DEFINE s == Cases[r]
            n == Least(Len(s), IF Limit < 1 THEN 1 ELSE Limit)
<1>1. s \in Seq({"normal", "dangerous"})
  BY DEF NL2SQLRequestsAssumption, LLMPilotAssumption
<1>2. n \in 0..Len(s)
  BY <1>1 DEF Least, LLMPilotAssumption
<1>3. Sample(r) = SubSeq(s, 1, n)
  BY DEF Sample
<1>. HIDE DEF s, n
<1>. QED BY <1>1, <1>2, <1>3

PilotFields == {"records", "files", "exit"}

\* What a step leaves of a pilot, and of the others.
PilotLeft(r) ==
  /\ DOMAIN pilot' = Pilots /\ \A q \in Pilots \ {r} : pilot'[q] = pilot[q]
  /\ DOMAIN pilot'[r] = PilotFields
Stays(r) == pilot' = pilot \/ \E code : pilot' = [pilot EXCEPT ![r].exit = code]

\* Of its own record a step changes what the code assigns.
LEMMA PilotChanges ==
  ASSUME DOMAIN pilot = Pilots, NEW r \in Pilots, DOMAIN pilot[r] = PilotFields
  PROVE  /\ Stays(r) => /\ PilotLeft(r) /\ pilot'[r].records = pilot[r].records
                        /\ pilot'[r].files = pilot[r].files
         /\ \A c : pilot' = [pilot EXCEPT ![r].records = Append(@, c)] =>
              PilotLeft(r) /\ pilot'[r] = [pilot[r] EXCEPT !.records = Append(@, c)]
         /\ \A file, code : pilot' = [pilot EXCEPT ![r].files = @ \cup {file}, ![r].exit = code] =>
              PilotLeft(r) /\ pilot'[r].records = pilot[r].records
<1>1. Stays(r) => /\ PilotLeft(r) /\ pilot'[r].records = pilot[r].records
                  /\ pilot'[r].files = pilot[r].files
  <2>1. CASE pilot' = pilot
    BY <2>1 DEF PilotLeft
  <2>2. ASSUME NEW code, pilot' = [pilot EXCEPT ![r].exit = code]
        PROVE  /\ PilotLeft(r) /\ pilot'[r].records = pilot[r].records
               /\ pilot'[r].files = pilot[r].files
    <3>1. /\ pilot'[r] = [pilot[r] EXCEPT !.exit = code]
          /\ DOMAIN pilot' = Pilots /\ \A q \in Pilots \ {r} : pilot'[q] = pilot[q]
      BY <2>2
    <3>. QED BY <3>1 DEF PilotLeft, PilotFields
  <2>. QED BY <2>1, <2>2 DEF Stays
<1>2. ASSUME NEW c, pilot' = [pilot EXCEPT ![r].records = Append(@, c)]
      PROVE  PilotLeft(r) /\ pilot'[r] = [pilot[r] EXCEPT !.records = Append(@, c)]
  <2>1. /\ pilot'[r] = [pilot[r] EXCEPT !.records = Append(@, c)]
        /\ DOMAIN pilot' = Pilots /\ \A q \in Pilots \ {r} : pilot'[q] = pilot[q]
    BY <1>2
  <2>2. DOMAIN pilot'[r] = PilotFields
    BY <2>1
  <2>. QED BY <2>1, <2>2 DEF PilotLeft
<1>3. ASSUME NEW file, NEW code,
             pilot' = [pilot EXCEPT ![r].files = @ \cup {file}, ![r].exit = code]
      PROVE  PilotLeft(r) /\ pilot'[r].records = pilot[r].records
  <2>1. /\ pilot'[r] = [pilot[r] EXCEPT !.files = @ \cup {file}, !.exit = code]
        /\ DOMAIN pilot' = Pilots /\ \A q \in Pilots \ {r} : pilot'[q] = pilot[q]
    BY <1>3
  <2>2. DOMAIN pilot'[r] = PilotFields /\ pilot'[r].records = pilot[r].records
    BY <2>1 DEF PilotFields
  <2>. QED BY <2>1, <2>2 DEF PilotLeft
<1>. QED BY <1>1, <1>2, <1>3

\* The steps of a pilot keep it and its accounts in order.
LEMMA PilotStepTrue ==
  ASSUME NL2SQLRequestsAssumption, LLMPilotAssumption, DOMAIN job = Requests,
         DOMAIN pilot = Pilots, told \in [Callers -> Nat], NEW r \in Pilots,
         JobKeyed(r, job[r]), JobTrue(r, job[r]), PilotTrue(r, job[r], pilot[r]), PilotStep(r)
  PROVE  /\ JobTrue(r, job'[r]) /\ PilotTrue(r, job'[r], pilot'[r]) /\ Evens(r)
         /\ PilotLeft(r)
<1>. DEFINE p == pilot[r]
            k == job'[r]
            Good == /\ JobTrue(r, k) /\ PilotTrue(r, k, pilot'[r]) /\ Evens(r)
                    /\ PilotLeft(r)
<1>0. /\ r \in Requests /\ DOMAIN job[r] = JobFields /\ DOMAIN p = PilotFields
      /\ Len(Sample(r)) \in Nat /\ Len(p.records) \in Nat /\ Len(p.records) <= Len(Sample(r))
      /\ p.records \in Seq(CaseRecords(r))
  <2>1. Len(Sample(r)) \in Nat
    BY SampleLength
  <2>2. p.records \in Seq(CaseRecords(r)) /\ Len(p.records) <= Len(Sample(r))
        /\ DOMAIN p = PilotFields
    BY DEF PilotTrue, PilotFields
  <2>. QED BY <2>1, <2>2 DEF JobKeyed, Pilots
<1>1. UNCHANGED told
  BY <1>0, PilotQuiet DEF Ledger
<1>2. /\ told["pilot"] \in Nat
      /\ \A c \in CaseRecords(r) : c.cost \in Nat
      /\ CostOf(p.records) \in Nat
      /\ \A c \in CaseRecords(r) : CostOf(Append(p.records, c)) = CostOf(p.records) + c.cost
  <2>1. \A c \in CaseRecords(r) : c.cost \in Nat
    BY DEF CaseRecords
  <2>. QED BY <1>0, <2>1, CostOfAppend DEF Callers
<1>3. ~StartPilot(r) => ~IsRefused(r)
  BY DEF PilotStep, ProbeEnds, Load, DangerousCase, NormalCase, CaseEnds, Evaluated, WriteJson,
     WriteMarkdown, Writes, At, PilotTrue, IsRefused
<1>4. IsRefused(r) => p.files = {}
  BY DEF PilotTrue, IsRefused
<1>. DEFINE Fits == \/ k.at \in {"load", "case", "done"}
                    \/ k.at \in {"json", "markdown"} /\ Len(p.records) = Len(Sample(r))
                    \/ k.at = "call" /\ (k.who = "pilot" => Len(p.records) < Len(Sample(r)))
            Unpaid == job[r].at # "answered" \/ job[r].who # "pilot"
            Follows == PilotLeft(r) /\ pilot'[r].records = p.records
<1>5. ASSUME JobTrue(r, k), Unpaid, Fits, Follows,
             pilot'[r].files = p.files \/ Len(p.records) = Len(Sample(r)),
             IsRefused(r) => k.at = "done" /\ pilot'[r].files = {}
      PROVE  Good
  <2>1. PilotTrue(r, k, pilot'[r])
    <3>. DEFINE q == pilot'[r]
    <3>1. DOMAIN q = DOMAIN p
      BY <1>0, <1>5 DEF PilotLeft
    <3>2. PilotTrue(r, job[r], p)
      OBVIOUS
    <3>3. q.records = p.records /\ (q.files = p.files \/ Len(p.records) = Len(Sample(r)))
          /\ (IsRefused(r) => q.files = {} /\ k.at = "done")
      BY <1>5
    <3>4. Fits
      BY <1>5
    <3>. HIDE DEF p, q, k
    <3>5. PilotTrue(r, k, q)
      BY <3>1, <3>2, <3>3, <3>4, PilotKeeps
    <3>. QED BY <3>5 DEF q
  <2>2. Pends(job[r]) = 0 /\ Pends(k) = 0
    BY <1>5 DEF Pends
  <2>3. Evens(r)
    BY <1>1, <1>5, <2>2 DEF Evens
  <2>. QED BY <1>5, <2>1, <2>3
<1>6. ASSUME JobTrue(r, k), Unpaid, Fits, Stays(r), ~IsRefused(r) \/ k.at = "done" PROVE Good
  <2>1. Follows /\ pilot'[r].files = p.files
    BY <1>0, <1>6, PilotChanges
  <2>. HIDE DEF k, p, Good, Follows, Fits, Unpaid
  <2>. QED BY <1>4, <1>5, <1>6, <2>1
<1>7. ASSUME NEW c \in CaseRecords(r), Put(r, c), Len(p.records) < Len(Sample(r)), ~IsRefused(r),
             Pends(job[r]) = c.cost
      PROVE  Good
  <2>1. pilot' = [pilot EXCEPT ![r].records = Append(@, c)] /\ k = [job[r] EXCEPT !.at = "case"]
    BY <1>0, <1>7, Gets DEF Put
  <2>2. PilotLeft(r) /\ pilot'[r] = [p EXCEPT !.records = Append(@, c)]
    BY <1>0, <2>1, PilotChanges
  <2>3. JobTrue(r, k) /\ k.at = "case"
    <3>1. GoesTo(r, "case", k)
      BY <2>1 DEF GoesTo
    <3>. HIDE DEF k
    <3>. QED BY <1>0, <3>1, PilotGoes
  <2>4. PilotTrue(r, k, pilot'[r]) /\ pilot'[r].records = Append(p.records, c)
    <3>. DEFINE q == pilot'[r]
    <3>1. PilotTrue(r, job[r], p) /\ k.at = "case" /\ q = [p EXCEPT !.records = Append(@, c)]
      BY <2>2, <2>3
    <3>2. Len(Sample(r)) \in Nat /\ Len(p.records) < Len(Sample(r)) /\ ~IsRefused(r)
      BY <1>0, <1>7
    <3>. HIDE DEF p, q, k
    <3>3. PilotTrue(r, k, q) /\ q.records = Append(p.records, c)
      <4>. DEFINE j == job[r]
      <4>1. PilotTrue(r, j, p)
        BY <3>1
      <4>. HIDE DEF j
      <4>. QED BY ONLY <3>1, <3>2, <4>1, c \in CaseRecords(r), PilotRecords
    <3>. QED BY <3>3 DEF q
  <2>5. Pends(k) = 0
    BY <2>3 DEF Pends
  <2>6. Evens(r)
    <3>1. CostOf(pilot'[r].records) = CostOf(p.records) + c.cost /\ c.cost \in Nat
      BY <1>2, <2>4
    <3>2. c.cost + CostOf(p.records) = 0 + CostOf(pilot'[r].records)
      <4>. HIDE DEF p
      <4>. QED BY <1>2, <3>1
    <3>3. told'["pilot"] = told["pilot"]
      BY <1>1
    <3>. QED BY <1>7, <2>5, <3>2, <3>3 DEF Evens
  <2>. QED BY <2>2, <2>3, <2>4, <2>6

<1>8. ASSUME NEW code, Exit(r, code), Unpaid PROVE Good
  <2>1. k = [NewJob EXCEPT !.at = "done"] /\ Stays(r)
    BY <1>0, <1>8, Gets DEF Exit, Stays
  <2>2. JobTrue(r, k) /\ k.at = "done"
    <3>1. GoesTo(r, "done", k)
      BY <2>1 DEF GoesTo
    <3>. HIDE DEF k
    <3>. QED BY <1>0, <3>1, PilotGoes
  <2>. QED BY <1>6, <1>8, <2>1, <2>2
<1>9. ASSUME NEW at \in {"load", "case", "json", "markdown"},
             k = [job[r] EXCEPT !.at = at] \/ \E s : k = [job[r] EXCEPT !.at = at, !.schema = s],
             at \in {"json", "markdown"} => Len(p.records) = Len(Sample(r))
      PROVE  JobTrue(r, k) /\ k.at = at /\ Fits
  <2>1. JobTrue(r, k) /\ k.at = at
    <3>1. GoesTo(r, at, k)
      BY <1>9 DEF GoesTo
    <3>. HIDE DEF k
    <3>. QED BY <1>0, <3>1, PilotGoes
  <2>. QED BY <1>9, <2>1
<1>10. ASSUME NEW who \in {"probe", "pilot"}, k = Calling(r, who),
              who = "pilot" => Len(p.records) < Len(Sample(r))
       PROVE  JobTrue(r, k) /\ Fits
  <2>1. JobTrue(r, k) /\ k.at = "call" /\ k.who = who
    <3>. HIDE DEF k
    <3>. QED BY <1>0, <1>10, PilotAsks
  <2>. QED BY <1>10, <2>1
<1>11. CASE StartPilot(r)
  <2>1. Unpaid
    BY <1>11 DEF StartPilot, At
  <2>2. CASE IsRefused(r)
    <3>1. Exit(r, "refused")
      BY <1>11, <2>2 DEF StartPilot, IsRefused
    <3>. QED BY <1>8, <2>1, <3>1
  <2>3. CASE ~IsRefused(r)
    <3>1. /\ k = [job[r] EXCEPT !.at = "load"] \/ k = Calling(r, "probe")
          /\ Stays(r)
      BY <1>0, <1>11, <2>3, Gets DEF StartPilot, IsRefused, Stays
    <3>2. JobTrue(r, k) /\ Fits
      BY <1>9, <1>10, <3>1
    <3>. QED BY <1>6, <2>1, <2>3, <3>1, <3>2
  <2>. QED BY <2>2, <2>3
<1>12. CASE ProbeEnds(r)
  <2>1. Unpaid /\ ~IsRefused(r)
    BY <1>3, <1>12 DEF ProbeEnds, StartPilot, At
  <2>2. CASE Exit(r, "failed")
    BY <1>8, <2>1, <2>2
  <2>3. CASE Goto(r, "load") /\ UNCHANGED pilot
    <3>1. k = [job[r] EXCEPT !.at = "load"] /\ Stays(r)
      BY <1>0, <2>3, Gets DEF Stays
    <3>2. JobTrue(r, k) /\ Fits
      BY <1>9, <3>1
    <3>. QED BY <1>6, <2>1, <3>1, <3>2
  <2>. QED BY <1>12, <2>2, <2>3 DEF ProbeEnds
<1>13. CASE Load(r)
  <2>1. Unpaid /\ ~IsRefused(r)
    BY <1>3, <1>13 DEF Load, StartPilot, At
  <2>2. CASE \E code : Exit(r, code)
    BY <1>8, <2>1, <2>2
  <2>3. CASE Update(r, [job[r] EXCEPT !.at = "case", !.schema = schema]) /\ UNCHANGED pilot
    <3>1. k = [job[r] EXCEPT !.at = "case", !.schema = schema] /\ Stays(r)
      BY <1>0, <2>3, Gets DEF Stays
    <3>2. JobTrue(r, k) /\ Fits
      BY <1>9, <3>1
    <3>. QED BY <1>6, <2>1, <3>1, <3>2
  <2>. QED BY <1>13, <2>2, <2>3 DEF Load
<1>14. CASE NormalCase(r)
  <2>1. Unpaid /\ ~IsRefused(r) /\ Len(p.records) < Len(Sample(r))
    BY <1>3, <1>14 DEF NormalCase, StartPilot, At, More
  <2>2. k = Calling(r, "pilot") /\ Stays(r)
    BY <1>0, <1>14, Gets DEF NormalCase, AskModel, Stays
  <2>3. JobTrue(r, k) /\ Fits
    BY <1>10, <2>1, <2>2
  <2>. QED BY <1>6, <2>1, <2>2, <2>3
<1>15. CASE DangerousCase(r)
  <2>1. Unpaid /\ ~IsRefused(r) /\ Len(p.records) < Len(Sample(r))
    BY <1>3, <1>15 DEF DangerousCase, StartPilot, At, More
  <2>2. PICK passed \in BOOLEAN : Put(r, Case(FALSE, FALSE, passed, 0))
    BY <1>15 DEF DangerousCase
  <2>. DEFINE c == Case(FALSE, FALSE, passed, 0)
  <2>3. c \in CaseRecords(r) /\ c.cost = 0
    BY DEF CaseRecords, Case
  <2>4. Pends(job[r]) = 0
    BY <2>1 DEF Pends
  <2>5. Put(r, c)
    BY <2>2
  <2>6. Pends(job[r]) = c.cost
    BY <2>3, <2>4
  <2>. HIDE DEF c, Good, p, k
  <2>7. Good
    BY <1>7, <2>1, <2>3, <2>5, <2>6, Zenon
  <2>. QED BY <2>7 DEF Good, k
<1>16. CASE CaseEnds(r)
  <2>1. job[r].at = "answered" /\ job[r].who = "pilot"
    BY <1>16 DEF CaseEnds, At
  <2>2. ~IsRefused(r) /\ Len(p.records) < Len(Sample(r))
    BY <1>3, <1>16, <2>1 DEF StartPilot, At, PilotTrue
  <2>. DEFINE cost == IF job[r].answer = NoAnswer THEN 0 ELSE job[r].answer.cost
  <2>3. cost \in Nat /\ (DryRun(r) => cost = 0) /\ Pends(job[r]) = cost
    <3>1. job[r].answer # NoAnswer =>
            job[r].answer.cost \in Costs \cup {0} /\ (DryRun(r) => job[r].answer.cost = 0)
      BY <2>1 DEF JobTrue, PilotJob
    <3>2. Pends(job[r]) = cost
      BY <2>1 DEF Pends
    <3>3. Costs \cup {0} \subseteq Nat
      BY DEF NL2SQLRequestsAssumption
    <3>. QED BY <3>1, <3>2, <3>3
  <2>4. PICK passed \in BOOLEAN : Put(r, Case(TRUE, ~Served(r), passed, cost))
    BY <1>16 DEF CaseEnds
  <2>. HIDE DEF cost
  <2>. DEFINE c == Case(TRUE, ~Served(r), passed, cost)
  <2>5. c \in CaseRecords(r) /\ c.cost = cost
    <3>1. (~Served(r)) \in BOOLEAN
      BY DEF Served
    <3>. HIDE DEF k, p, Good, Fits, Follows, Unpaid
    <3>. QED BY <2>3, <3>1 DEF CaseRecords, Case
  <2>6. Put(r, c)
    BY <2>4
  <2>7. Pends(job[r]) = c.cost
    BY <2>3, <2>5
  <2>. HIDE DEF c, Good, p, k
  <2>8. Good
    BY <1>7, <2>2, <2>5, <2>6, <2>7, Zenon
  <2>. QED BY <2>8 DEF Good, k
<1>17. CASE Evaluated(r)
  <2>1. Unpaid /\ ~IsRefused(r) /\ ~(Len(p.records) < Len(Sample(r)))
    BY <1>3, <1>17 DEF Evaluated, StartPilot, At, More
  <2>2. k = [job[r] EXCEPT !.at = "json"] /\ Stays(r)
    BY <1>0, <1>17, Gets DEF Evaluated, Stays
  <2>3. Len(p.records) = Len(Sample(r))
    <3>. HIDE DEF p
    <3>. QED BY <1>0, <2>1
  <2>4. JobTrue(r, k) /\ Fits
    BY <1>9, <2>2, <2>3
  <2>. QED BY <1>6, <2>1, <2>2, <2>4
<1>18. ASSUME NEW at \in {"json", "markdown"}, NEW file, NEW next \in {"markdown", "done"},
              Writes(r, at, file, next), ~IsRefused(r)
       PROVE  Good
  <2>1. Unpaid /\ Len(p.records) = Len(Sample(r))
    BY <1>18 DEF Writes, At, PilotTrue
  <2>2. CASE Exit(r, "raised")
    BY <1>8, <2>1, <2>2
  <2>3. CASE ~Exit(r, "raised")
    <3>. DEFINE code == IF next = "done" THEN "ok" ELSE pilot[r].exit
    <3>1. /\ pilot' = [pilot EXCEPT ![r].files = @ \cup {file}, ![r].exit = code]
          /\ IF next = "done" THEN End(r, "done") ELSE Goto(r, next)
      BY <1>18, <2>3 DEF Writes
    <3>. HIDE DEF code
    <3>2. Follows
      BY <1>0, <3>1, PilotChanges
    <3>3. JobTrue(r, k) /\ Fits
      <4>1. CASE next = "done"
        <5>1. k = [NewJob EXCEPT !.at = "done"]
          BY <1>0, <3>1, <4>1, Gets
        <5>2. GoesTo(r, "done", k)
          BY <5>1 DEF GoesTo
        <5>3. JobTrue(r, k) /\ k.at = "done"
          <6>. HIDE DEF k
          <6>. QED BY <1>0, <5>2, PilotGoes
        <5>. QED BY <5>3
      <4>2. CASE next = "markdown"
        <5>1. k = [job[r] EXCEPT !.at = "markdown"]
          BY <1>0, <3>1, <4>2, Gets
        <5>. QED BY <1>9, <2>1, <5>1
      <4>. QED BY <4>1, <4>2
    <3>. QED BY <1>5, <1>18, <2>1, <3>2, <3>3
  <2>. QED BY <2>2, <2>3
<1>19. CASE WriteJson(r) \/ WriteMarkdown(r)
  <2>1. ~IsRefused(r)
    BY <1>3, <1>19 DEF WriteJson, WriteMarkdown, Writes, StartPilot, At
  <2>. QED BY <1>18, <1>19, <2>1 DEF WriteJson, WriteMarkdown
<1>. QED BY <1>11, <1>12, <1>13, <1>14, <1>15, <1>16, <1>17, <1>19 DEF PilotStep

-----------------------------------------------------------------------------
(* What the pilots are told of their charges is what they report.          *)

\* What a pilot has pending and what is in its records are numbers.
LEMMA PilotNats ==
  ASSUME NL2SQLRequestsAssumption, NEW r \in Pilots, NEW j, JobTrue(r, j),
         NEW p, PilotTrue(r, j, p)
  PROVE  Pends(j) \in Nat /\ CostOf(p.records) \in Nat
<1>1. Pends(j) \in Nat
  <2>1. Costs \cup {0} \subseteq Nat
    BY DEF NL2SQLRequestsAssumption
  <2>2. Pends(j) \in Costs \cup {0}
    BY DEF JobTrue, PilotJob, Pends
  <2>. QED BY <2>1, <2>2
<1>2. CostOf(p.records) \in Nat
  <2>1. p.records \in Seq(CaseRecords(r)) /\ \A c \in CaseRecords(r) : c.cost \in Nat
    BY DEF PilotTrue, CaseRecords
  <2>. QED BY <2>1, CostOfAppend
<1>. QED BY <1>1, <1>2

\* A step of one pilot, or of none, that evens out.
Tallied(r, jobs, jobs2, pilots, pilots2, m, n) ==
  /\ \A q \in Pilots :
       /\ Pends(jobs[q]) \in Nat /\ Pends(jobs2[q]) \in Nat
       /\ CostOf(pilots[q].records) \in Nat /\ CostOf(pilots2[q].records) \in Nat
       /\ q # r => jobs2[q] = jobs[q] /\ pilots2[q] = pilots[q]
  /\ m \in Nat /\ n \in Nat
  /\ IF r \in Pilots
     THEN n + (Pends(jobs[r]) + CostOf(pilots[r].records))
          = m + (Pends(jobs2[r]) + CostOf(pilots2[r].records))
     ELSE n = m

\* If it evens out for one pilot it does for all of them.
LEMMA TotalsStep ==
  ASSUME IsFiniteSet(Pilots), NEW r, NEW jobs, NEW jobs2, NEW pilots, NEW pilots2, NEW m, NEW n,
         Tallied(r, jobs, jobs2, pilots, pilots2, m, n), m = InRecords(pilots) + Pending(jobs)
  PROVE  n = InRecords(pilots2) + Pending(jobs2)
<1>. DEFINE h == [q \in Pilots |-> Pends(jobs[q])]
            h2 == [q \in Pilots |-> Pends(jobs2[q])]
            k == [q \in Pilots |-> CostOf(pilots[q].records)]
            k2 == [q \in Pilots |-> CostOf(pilots2[q].records)]
            P == SumFunctionOnSet(h, Pilots)
            P2 == SumFunctionOnSet(h2, Pilots)
            I == SumFunctionOnSet(k, Pilots)
            I2 == SumFunctionOnSet(k2, Pilots)
<1>1. Pending(jobs) = P /\ Pending(jobs2) = P2 /\ InRecords(pilots) = I /\ InRecords(pilots2) = I2
  BY DEF Pending, InRecords
<1>2. \A q \in Pilots : h[q] \in Nat /\ h2[q] \in Nat /\ k[q] \in Nat /\ k2[q] \in Nat
  BY DEF Tallied
<1>3. \A q \in Pilots \ {r} : h[q] = h2[q] /\ k[q] = k2[q]
  BY DEF Tallied
<1>4. /\ m \in Nat /\ n \in Nat
      /\ IF r \in Pilots THEN n + (h[r] + k[r]) = m + (h2[r] + k2[r]) ELSE n = m
  BY DEF Tallied
<1>. HIDE DEF h, h2, k, k2
<1>5. P \in Nat /\ P2 \in Nat /\ I \in Nat /\ I2 \in Nat
  BY <1>2, SumNat
<1>6. CASE r \in Pilots
  <2>1. h2[r] + P = h[r] + P2
    BY <1>2, <1>3, <1>6, SumUpdate
  <2>2. k2[r] + I = k[r] + I2
    BY <1>2, <1>3, <1>6, SumUpdate
  <2>3. h[r] \in Nat /\ h2[r] \in Nat /\ k[r] \in Nat /\ k2[r] \in Nat
    BY <1>2, <1>6
  <2>4. n + (h[r] + k[r]) = m + (h2[r] + k2[r]) /\ m = I + P
    BY <1>1, <1>4, <1>6

  <2>. DEFINE a == h[r]
              b == h2[r]
              c == k[r]
              d == k2[r]
  <2>5. /\ a \in Nat /\ b \in Nat /\ c \in Nat /\ d \in Nat
        /\ b + P = a + P2 /\ d + I = c + I2 /\ n + (a + c) = m + (b + d) /\ m = I + P
    BY <2>1, <2>2, <2>3, <2>4
  <2>. HIDE DEF P, P2, I, I2, a, b, c, d
  <2>6. n = I2 + P2
    <3>1. m \in Nat /\ n \in Nat
      BY <1>4
    <3>. QED BY ONLY <1>5, <2>5, <3>1
  <2>. QED BY <1>1, <2>6
<1>7. CASE r \notin Pilots
  <2>1. P = P2 /\ I = I2
    BY <1>3, <1>7, SumSame
  <2>2. n = m /\ m = I + P
    BY <1>1, <1>4, <1>7
  <2>. HIDE DEF P, P2, I, I2
  <2>3. n = I2 + P2
    BY <2>1, <2>2
  <2>. QED BY <1>1, <2>3
<1>. QED BY <1>6, <1>7

\* A step of one request that keeps it in order, and evens out, keeps the evidence.
LEMMA EvidentNext ==
  ASSUME NL2SQLRequestsAssumption, Evident, DOMAIN job = Requests,
         told["pilot"] \in Nat, told'["pilot"] \in Nat,
         NEW r \in Requests, Frame(r), JobTrue(r, job'[r]), Evens(r),
         r \in Pilots => PilotTrue(r, job'[r], pilot'[r]),
         DOMAIN pilot' = Pilots, \A q \in Pilots \ {r} : pilot'[q] = pilot[q]
  PROVE  Evident'
<1>1. \A q \in Requests \ {r} : job'[q] = job[q]
  BY DEF Frame
<1>2. Pilots \subseteq Requests /\ IsFiniteSet(Pilots)
  <2>1. Pilots \subseteq Requests /\ IsFiniteSet(Requests)
    BY DEF Pilots, NL2SQLRequestsAssumption
  <2>. QED BY <2>1, FS_Subset
<1>3. \A q \in Requests : JobTrue(q, job[q]) /\ JobTrue(q, job'[q])
  BY <1>1 DEF Evident
<1>4. \A q \in Pilots : PilotTrue(q, job[q], pilot[q]) /\ PilotTrue(q, job'[q], pilot'[q])
  BY <1>1, <1>2 DEF Evident
<1>5. \A q \in Pilots : /\ Pends(job[q]) \in Nat /\ Pends(job'[q]) \in Nat
                        /\ CostOf(pilot[q].records) \in Nat /\ CostOf(pilot'[q].records) \in Nat
  BY <1>2, <1>3, <1>4, PilotNats
<1>6. told'["pilot"] = InRecords(pilot') + Pending(job')
  <2>1. \A q \in Pilots \ {r} : job'[q] = job[q] /\ pilot'[q] = pilot[q]
    BY <1>1, <1>2
  <2>2. told["pilot"] = InRecords(pilot) + Pending(job)
    BY DEF Evident
  <2>3. Tallied(r, job, job', pilot, pilot', told["pilot"], told'["pilot"])
    BY <1>5, <2>1 DEF Tallied, Evens
  <2>4. IsFiniteSet(Pilots)
    BY <1>2
  <2>. QED BY ONLY <2>2, <2>3, <2>4, TotalsStep
<1>7. Evident'
  <2>1. \A q \in Requests : JobTrue(q, job[q])'
    BY <1>3 DEF JobTrue, Claims, PilotJob
  <2>. QED BY <1>3, <1>4, <1>6 DEF Evident, JobTrue, PilotTrue, Claims, PilotJob, InRecords,
              Pending, Pends
<1>. QED BY <1>7

\* The evidence is kept by every step.
LEMMA EvidentStep ==
  ASSUME NL2SQLRequestsAssumption, LLMPilotAssumption, TaskModesAssumption,
         Keyed, Balanced, Balanced', Evident, [Next]_pilotVars
  PROVE  Evident'
<1>1. /\ Shape /\ DOMAIN job = Requests /\ DOMAIN pilot = Pilots
      /\ \A r \in Requests : JobKeyed(r, job[r]) /\ JobTrue(r, job[r])
      /\ \A r \in Pilots : PilotTrue(r, job[r], pilot[r])
      /\ \A r \in Tasks : r \in Requests /\ TaskKeyed(r)
  BY DEF Keyed, Shape, Tasks, Evident
<1>2. /\ told \in [Callers -> Nat]
      /\ told["pilot"] \in Nat /\ told'["pilot"] \in Nat
  BY DEF Balanced, Callers
<1>3. ASSUME UNCHANGED <<job, pilot, told>> PROVE Evident'
  <2>1. job' = job /\ pilot' = pilot /\ told' = told
    BY <1>3
  <2>2. Pending(job)' = Pending(job) /\ InRecords(pilot)' = InRecords(pilot)
    BY <2>1 DEF Pending, InRecords, Pends
  <2>3. \A r \in Requests : JobTrue(r, job[r])'
    BY <1>1, <2>1 DEF JobTrue, Claims, PilotJob
  <2>4. \A r \in Pilots : PilotTrue(r, job[r], pilot[r])'
    BY <1>1, <2>1 DEF PilotTrue
  <2>5. DOMAIN pilot' = Pilots /\ told'["pilot"] = InRecords(pilot)' + Pending(job)'
    BY <1>1, <2>1, <2>2 DEF Evident
  <2>. QED BY <2>3, <2>4, <2>5 DEF Evident
<1>4. CASE UNCHANGED pilotVars \/ Finished
  BY <1>3, <1>4 DEF Finished, pilotVars, taskVars, vars
<1>5. CASE Environment /\ UNCHANGED <<task, pilot, gate>>
  BY <1>3, <1>5 DEF Environment, shared
<1>6. ASSUME NEW q \in Requests, Frame(q), NoPilot(q, job'[q]), UNCHANGED Ledger, pilot' = pilot
      PROVE  Evident'
  <2>1. q \notin Pilots /\ JobTrue(q, job'[q])
    BY <1>6, NoPilotTrue DEF NoPilot
  <2>2. Evens(q)
    BY <1>6, <2>1 DEF Evens, Ledger
  <2>. QED BY <1>1, <1>2, <1>6, <2>1, <2>2, EvidentNext
<1>7. ASSUME NEW q \in Open, PipelineStep(q), pilot' = pilot PROVE Evident'
  <2>1. q \in Requests /\ JobKeyed(q, job[q]) /\ JobTrue(q, job[q]) /\ Frame(q)
    BY <1>1, <1>7, PipelineFrame DEF Open
  <2>2. q \in Pilots => PilotTrue(q, job[q], pilot[q]) /\ CostOf(pilot[q].records) \in Nat
    BY <1>1, <2>1, PilotNats
  <2>3. /\ JobTrue(q, job'[q]) /\ Evens(q)
        /\ q \in Pilots => PilotTrue(q, job'[q], pilot'[q])
    BY <1>1, <1>2, <1>7, <2>1, <2>2, PipelineTrue
  <2>. QED BY <1>1, <1>2, <1>7, <2>1, <2>3, EvidentNext
<1>8. ASSUME NEW q \in Open, EndpointStep(q), pilot' = pilot PROVE Evident'
  <2>1. q \in Requests /\ JobKeyed(q, job[q]) /\ JobTrue(q, job[q]) /\ Frame(q)
    BY <1>1, <1>8, EndpointFrame DEF Open
  <2>2. NoPilot(q, job'[q]) /\ UNCHANGED Ledger
    BY <1>1, <1>8, <2>1, EndpointTrue, EndpointQuiet
  <2>. QED BY <1>6, <1>8, <2>1, <2>2
<1>9. ASSUME NEW q \in Open, ArrivePreflight(q) \/ ArriveCheck(q) PROVE Evident'
  <2>1. q \in Requests /\ JobKeyed(q, job[q]) /\ JobTrue(q, job[q]) /\ Frame(q)
    BY <1>1, <1>9, PilotFrame DEF Open
  <2>2. NoPilot(q, job'[q]) /\ pilot' = pilot /\ UNCHANGED Ledger
    BY <1>1, <1>9, <2>1, ArrivalTrue, PilotQuiet
  <2>. QED BY <1>6, <2>1, <2>2
<1>10. ASSUME NEW q \in Open \cap Pilots, PilotStep(q) PROVE Evident'
  <2>1. q \in Requests /\ JobKeyed(q, job[q]) /\ JobTrue(q, job[q]) /\ Frame(q)
        /\ PilotTrue(q, job[q], pilot[q])
    BY <1>1, <1>10, PilotFrame DEF Open
  <2>2. /\ JobTrue(q, job'[q]) /\ PilotTrue(q, job'[q], pilot'[q]) /\ Evens(q)
        /\ DOMAIN pilot' = Pilots /\ \A r \in Pilots \ {q} : pilot'[r] = pilot[r]
    BY <1>1, <1>2, <1>10, <2>1, PilotStepTrue DEF PilotLeft
  <2>. QED BY <1>1, <1>2, <2>1, <2>2, EvidentNext
<1>11. ASSUME NEW q \in Open \cap Tasks, TaskStep(q), pilot' = pilot PROVE Evident'
  <2>1. q \in Requests /\ JobKeyed(q, job[q]) /\ JobTrue(q, job[q]) /\ TaskKeyed(q)
    BY <1>1, <1>11
  <2>2. Frame(q)
    BY <1>1, <1>11, TaskStepMeans, RunEndsMeans, RunRaisesMeans DEF RunStep
  <2>3. NoPilot(q, job'[q]) /\ UNCHANGED Ledger
    BY <1>1, <1>11, <2>1, TaskTrue, TaskQuiet
  <2>. QED BY <1>6, <1>11, <2>1, <2>2, <2>3
<1>. QED BY <1>4, <1>5, <1>7, <1>8, <1>9, <1>10, <1>11 DEF Next

\* At the beginning nothing is told, recorded or claimed.
LEMMA InitEvident ==
  ASSUME NL2SQLRequestsAssumption, LLMPilotAssumption, Init
  PROVE  Evident
<1>1. /\ pilot = [r \in Pilots |-> NewPilot] /\ told = [w \in Callers |-> 0]
      /\ \A r \in Requests : job[r] = NewJob \/ job[r] = [NewJob EXCEPT !.at = "absent"]
  BY DEF Init, InitPilots, InitTasks, InitRequests
<1>2. ASSUME NEW r \in Requests
      PROVE  /\ job[r].at \in {"new", "absent"} /\ job[r].who = "nl2sql"
             /\ job[r].via = "none" /\ job[r].answer = NoAnswer
  BY <1>1 DEF NewJob
<1>3. ASSUME NEW r \in Requests PROVE JobTrue(r, job[r]) /\ Pends(job[r]) = 0
  <2>1. Claims(job[r])
    BY <1>2, UnansweredClaims
  <2>2. PilotJob(r, job[r])
    BY <1>2 DEF PilotJob, PilotPoints
  <2>. QED BY <1>2, <2>1, <2>2 DEF JobTrue, Pends
<1>4. Pilots \subseteq Requests /\ IsFiniteSet(Pilots)
  <2>1. Pilots \subseteq Requests /\ IsFiniteSet(Requests)
    BY DEF Pilots, NL2SQLRequestsAssumption
  <2>. QED BY <2>1, FS_Subset
<1>5. /\ DOMAIN NewPilot = {"records", "files", "exit"}
      /\ NewPilot.records = <<>> /\ NewPilot.files = {}
  BY DEF NewPilot
<1>6. CostOf(<<>>) = 0
  BY CostOfAppend
<1>7. ASSUME NEW r \in Pilots PROVE PilotTrue(r, job[r], pilot[r])
  <2>1. Len(Sample(r)) \in Nat
    BY SampleLength
  <2>2. pilot[r] = NewPilot /\ job[r].at \in {"new", "absent"}
    BY <1>1, <1>2, <1>4
  <2>3. pilot[r].records \in Seq(CaseRecords(r)) /\ Len(pilot[r].records) = 0
    <3>1. pilot[r].records = <<>>
      BY <1>5, <2>2
    <3>2. ASSUME NEW R PROVE <<>> \in Seq(R) /\ Len(<<>>) = 0
      OBVIOUS
    <3>. QED BY <3>1, <3>2
  <2>4. DOMAIN pilot[r] = {"records", "files", "exit"} /\ pilot[r].files = {}
    BY <1>5, <2>2
  <2>. QED BY <2>1, <2>2, <2>3, <2>4 DEF PilotTrue
<1>8. Pending(job) = 0
  <2>. DEFINE h == [r \in Pilots |-> Pends(job[r])]
  <2>1. \A r \in Pilots : h[r] = 0
    BY <1>3, <1>4
  <2>. HIDE DEF h
  <2>2. SumFunctionOnSet(h, Pilots) = 0
    BY <1>4, <2>1, SumZero
  <2>. QED BY <2>2 DEF Pending, h
<1>9. InRecords(pilot) = 0
  <2>. DEFINE h == [r \in Pilots |-> CostOf(pilot[r].records)]
  <2>1. \A r \in Pilots : h[r] = 0
    BY <1>1, <1>5, <1>6
  <2>. HIDE DEF h
  <2>2. SumFunctionOnSet(h, Pilots) = 0
    BY <1>4, <2>1, SumZero
  <2>. QED BY <2>2 DEF InRecords, h
<1>10. told["pilot"] = 0
  BY <1>1 DEF Callers
<1>. QED BY <1>1, <1>3, <1>7, <1>8, <1>9, <1>10 DEF Evident

-----------------------------------------------------------------------------
(* EvidenceHonest.                                                         *)

\* The records of some pilots, added up, are what these pilots have added up.
LEMMA RecordsSum ==
  ASSUME IsFiniteSet(Pilots)
  PROVE  MapThenSumSet(LAMBDA r : CostOf(pilot[r].records), Pilots) = InRecords(pilot)
<1>. DEFINE S == Pilots
            cost == [r \in S |-> CostOf(pilot[r].records)]
            Iterates(g) ==
              g = [s \in SUBSET S |-> IF s = {} THEN 0
                                      ELSE CostOf(pilot[Pick(s)].records) + g[s \ {Pick(s)}]]
            f == CHOOSE g : Iterates(g)
<1>1. MapThenSumSet(LAMBDA r : CostOf(pilot[r].records), S) = f[S]
  BY DEF MapThenSumSet, MapThenFoldSet, Pick
<1>2. ASSUME NEW g PROVE Iterates(g) <=> Adds(g, cost, S)
  <2>1. \A s \in SUBSET S : s # {} => cost[Pick(s)] = CostOf(pilot[Pick(s)].records)
    BY PickIn
  <2>. HIDE DEF cost
  <2>2. [s \in SUBSET S |-> IF s = {} THEN 0
                            ELSE CostOf(pilot[Pick(s)].records) + g[s \ {Pick(s)}]]
        = [s \in SUBSET S |-> IF s = {} THEN 0 ELSE cost[Pick(s)] + g[s \ {Pick(s)}]]
    BY <2>1
  <2>. QED BY <2>2 DEF Adds
<1>3. \E g : Iterates(g)
  <2>1. PICK g : Adds(g, cost, S)
    BY AddsExists
  <2>. HIDE DEF cost, Iterates
  <2>. QED BY <1>2, <2>1
<1>4. Iterates(f)
  <2>. HIDE DEF Iterates
  <2>. QED BY <1>3
<1>5. Adds(f, cost, S)
  <2>. HIDE DEF Iterates, f, cost
  <2>. QED BY <1>2, <1>4
<1>6. InRecords(pilot) = SumFunctionOnSet(cost, S)
  BY DEF InRecords
<1>. HIDE DEF f, cost, Iterates
<1>7. SumFunctionOnSet(cost, S) = f[S]
  BY <1>5, SumIs
<1>. QED BY <1>1, <1>6, <1>7

\* What a report counts, and what it claims.
LEMMA ReportMeans ==
  ASSUME NEW r \in Pilots
  PROVE  /\ Report(r).total = Len(pilot[r].records)
         /\ Report(r).called
              = Cardinality({i \in 1..Len(pilot[r].records) : pilot[r].records[i].called})
         /\ Report(r).passed
              = Cardinality({i \in 1..Len(pilot[r].records) : pilot[r].records[i].passed})
         /\ Report(r).fallbacks
              = Cardinality({i \in 1..Len(pilot[r].records) : pilot[r].records[i].fallback})
         /\ Report(r).cost = CostOf(pilot[r].records)
         /\ Report(r).attempted = ~DryRun(r)
         /\ DryRun(r) => ~Report(r).succeeded
<1>1. /\ Report(r).total = Summary(r).total /\ Report(r).called = Summary(r).called
      /\ Report(r).passed = Summary(r).passed /\ Report(r).fallbacks = Summary(r).fallbacks
      /\ Report(r).cost = Summary(r).cost
      /\ Report(r).attempted = Evidence(r).attempted
      /\ Report(r).succeeded = Evidence(r).succeeded
  BY DEF Report, Evidence, Summary
<1>2. /\ Summary(r).total = Len(pilot[r].records)
      /\ Summary(r).called = Picked(r, LAMBDA c : c.called)
      /\ Summary(r).passed = Picked(r, LAMBDA c : c.passed)
      /\ Summary(r).fallbacks = Picked(r, LAMBDA c : c.fallback)
      /\ Summary(r).cost = CostOf(pilot[r].records)
  BY DEF Summary
<1>3. /\ Picked(r, LAMBDA c : c.called)
           = Cardinality({i \in 1..Len(pilot[r].records) : pilot[r].records[i].called})
      /\ Picked(r, LAMBDA c : c.passed)
           = Cardinality({i \in 1..Len(pilot[r].records) : pilot[r].records[i].passed})
      /\ Picked(r, LAMBDA c : c.fallback)
           = Cardinality({i \in 1..Len(pilot[r].records) : pilot[r].records[i].fallback})
  BY DEF Picked
<1>4. Evidence(r).attempted = ~DryRun(r) /\ (DryRun(r) => ~Evidence(r).succeeded)
  BY DEF Evidence
<1>. QED BY <1>1, <1>2, <1>3, <1>4

\* What a report claims is true.
LEMMA ReportTrue ==
  ASSUME NEW r \in Pilots, NEW j, PilotTrue(r, j, pilot[r]), pilot[r].files # {}
  PROVE  /\ Report(r).total = Len(Sample(r))
         /\ Report(r).passed <= Report(r).total /\ Report(r).fallbacks <= Report(r).called
         /\ Report(r).attempted => RefusalReasons(Settings[r]) = {}
         /\ DryRun(r) => ~Report(r).attempted /\ ~Report(r).succeeded /\ Report(r).cost = 0
<1>. DEFINE s == pilot[r].records
            all == 1..Len(s)
            called == {i \in all : s[i].called}
            passed == {i \in all : s[i].passed}
            fallback == {i \in all : s[i].fallback}
<1>1. s \in Seq(CaseRecords(r)) /\ Len(s) = Len(Sample(r)) /\ Len(s) \in Nat
  BY DEF PilotTrue
<1>2. \A i \in all : s[i] \in CaseRecords(r)
  BY <1>1
<1>3. /\ \A i \in all : s[i].fallback => s[i].called
      /\ DryRun(r) => \A i \in all : s[i].cost = 0
  BY <1>2 DEF CaseRecords
<1>4. IsFiniteSet(all) /\ Cardinality(all) = Len(s)
  <2>1. ASSUME NEW n \in Nat PROVE IsFiniteSet(1..n) /\ Cardinality(1..n) = n
    <3>1. /\ IsFiniteSet(1..n)
          /\ Cardinality(1..n) = IF 1 > n THEN 0 ELSE n - 1 + 1
      BY FS_Interval
    <3>. QED BY <3>1
  <2>. HIDE DEF s
  <2>. QED BY <1>1, <2>1
<1>5. Cardinality(passed) <= Cardinality(all)
  BY <1>4, FS_Subset
<1>6. Cardinality(fallback) <= Cardinality(called)
  <2>1. fallback \subseteq called /\ called \subseteq all
    BY <1>3
  <2>. HIDE DEF fallback, called, all
  <2>. QED BY <1>4, <2>1, FS_Subset
<1>7. DryRun(r) => CostOf(s) = 0
  <2>1. DOMAIN s = all
    BY <1>1
  <2>2. DryRun(r) => \A i \in DOMAIN s : CostsOf(s)[i] = 0
    BY <1>3, <2>1 DEF CostsOf
  <2>3. IsFiniteSet(DOMAIN s)
    BY <1>4, <2>1
  <2>. HIDE DEF s, all
  <2>. QED BY <2>2, <2>3, CostOfIs, SumZero
<1>8. ~DryRun(r) => RefusalReasons(Settings[r]) = {}
  BY DEF PilotTrue
<1>9. /\ Report(r).total = Len(s) /\ Report(r).called = Cardinality(called)
      /\ Report(r).passed = Cardinality(passed) /\ Report(r).fallbacks = Cardinality(fallback)
      /\ Report(r).cost = CostOf(s)
      /\ Report(r).attempted = ~DryRun(r) /\ (DryRun(r) => ~Report(r).succeeded)
  BY ReportMeans
<1>. HIDE DEF s, all, called, passed, fallback
<1>. QED BY <1>1, <1>4, <1>5, <1>6, <1>7, <1>8, <1>9

\* What a reply says of the call is no more than what is true of it.
LEMMA ReplyTrue ==
  ASSUME NEW r \in Requests, JobTrue(r, job[r]), At(r, "made"), job[r].who = "nl2sql"
  PROVE  /\ Acceptance(r).succeeded =>
              /\ job[r].via = "provider" /\ job[r].answer # NoAnswer
              /\ job[r].result.by = "llm" /\ Provider[r] # "fake"
         /\ Acceptance(r).cost
              = IF job[r].via = "provider" /\ job[r].answer # NoAnswer
                THEN job[r].answer.cost ELSE 0
<1>1. \/ job[r].via = "cache" \/ job[r].answer = NoAnswer
      \/ job[r].via = "provider" /\ job[r].result.by \in {"llm", "mock_fallback"}
  BY DEF JobTrue, Claims, At
<1>2. /\ Acceptance(r).succeeded <=>
           /\ Provider[r] \notin {"mock", "fake"} /\ job[r].result.by # "mock_fallback"
           /\ job[r].via # "cache" /\ job[r].answer # NoAnswer
      /\ Acceptance(r).cost
           = IF job[r].via = "cache" \/ job[r].answer = NoAnswer THEN 0 ELSE job[r].answer.cost
  BY DEF Acceptance, Summarize
<1>. QED BY <1>1, <1>2

\* What is pending is what the answers that are in no record yet have cost.
LEMMA PendingSum ==
  ASSUME NL2SQLRequestsAssumption, Evident
  PROVE  LET answered == {r \in Pilots : At(r, "answered") /\ job[r].who = "pilot"
                                         /\ job[r].answer # NoAnswer}
         IN Pending(job) = MapThenSumSet(LAMBDA r : job[r].answer.cost, answered)
<1>. DEFINE answered == {r \in Pilots : At(r, "answered") /\ job[r].who = "pilot"
                                        /\ job[r].answer # NoAnswer}
            h == [r \in Pilots |-> Pends(job[r])]
<1>1. Pilots \subseteq Requests /\ IsFiniteSet(Requests) /\ IsFiniteSet(Pilots)
  <2>1. Pilots \subseteq Requests /\ IsFiniteSet(Requests)
    BY DEF Pilots, NL2SQLRequestsAssumption
  <2>. QED BY <2>1, FS_Subset
<1>2. \A r \in Pilots : h[r] \in Nat
  BY <1>1, PilotNats DEF Evident
<1>3. /\ \A r \in answered : h[r] = job[r].answer.cost
      /\ \A r \in Pilots \ answered : h[r] = 0
      /\ answered \subseteq Pilots /\ answered \subseteq Requests
  BY <1>1 DEF Pends, At
<1>4. Pending(job) = SumFunctionOnSet(h, Pilots)
  BY DEF Pending
<1>. HIDE DEF h, answered
<1>5. SumFunctionOnSet(h, Pilots) = SumFunctionOnSet(h, answered)
  BY <1>1, <1>2, <1>3, SumPart
<1>6. MapThenSumSet(LAMBDA r : job[r].answer.cost, answered) = SumFunctionOnSet(h, answered)
  BY <1>1, <1>3, CostsSum
<1>7. Pending(job) = MapThenSumSet(LAMBDA r : job[r].answer.cost, answered)
  BY <1>4, <1>5, <1>6
<1>. QED BY <1>7 DEF answered

-----------------------------------------------------------------------------
(* A report that shows no cost.                                            *)

\* No answer is free, and no charge for a case is kept from the pilots.
AllTold == 0 \notin Costs /\ lost["pilot"] = 0

\* What a real pilot was answered then has a cost, in its job and in its records.
ShownJob(j) == Pends(j) # 0 \/ j.at # "answered" \/ j.who # "pilot" \/ j.answer = NoAnswer
ShownRecords(records) ==
  \A i \in DOMAIN records : records[i].called /\ ~records[i].fallback => records[i].cost # 0
Shown ==
  AllTold =>
    \A r \in Pilots : ~DryRun(r) => ShownJob(job[r]) /\ ShownRecords(pilot[r].records)

\* A charge that was not told stays so.
LEMMA LostStays ==
  ASSUME NL2SQLRequestsAssumption, lost \in [Accounts -> Nat], NEW r, NEW loses \in Costs \cup {0},
         Untold(r, loses)
  PROVE  /\ lost'["pilot"] = 0 => lost["pilot"] = 0
         /\ job[r].who = "pilot" /\ lost'["pilot"] = 0 => loses = 0
<1>1. lost["pilot"] \in Nat /\ loses \in Nat
  BY DEF Accounts, NL2SQLRequestsAssumption
<1>2. lost'["pilot"] = IF "pilot" = job[r].who THEN lost["pilot"] + loses ELSE lost["pilot"]
  BY DEF Untold, Accounts
<1>. QED BY <1>1, <1>2

\* What the pipeline does not tell only grows.
LEMMA PipelineLoses ==
  ASSUME NL2SQLRequestsAssumption, lost \in [Accounts -> Nat], NEW r, PipelineStep(r)
  PROVE  AllTold' => AllTold
<1>1. UNCHANGED lost \/ \E loses \in Costs \cup {0} : Untold(r, loses)
  <2>1. CASE \/ Generate(r) \/ GenerateRaises(r) \/ Check(r) \/ LookupHit(r) \/ LookupMiss(r)
             \/ Record(r) \/ Store(r)
    BY <2>1 DEF Generate, GenerateRaises, Check, LookupHit, LookupMiss, Record, Store
  <2>2. CASE FakeAnswers(r) \/ LiteLLMAnswers(r) \/ OpenAIAnswers(r) \/ CompatibleAnswers(r)
    <3>1. \E usable \in BOOLEAN, cost \in Costs \cup {0}, loses \in Costs \cup {0} :
            Answered(r, usable, cost, loses)
      BY <2>2, AnswersAre
    <3>. QED BY <3>1 DEF Answered, Charge
  <2>3. CASE LiteLLMErrs(r) \/ OpenAIErrs(r) \/ CompatibleErrs(r)
    <3>1. \E e : Wasted(r, e)
      BY <2>3 DEF LiteLLMErrs, OpenAIErrs, CompatibleErrs
    <3>. QED BY <3>1 DEF Wasted
  <2>. QED BY <2>1, <2>2, <2>3 DEF PipelineStep
<1>2. lost'["pilot"] = 0 => lost["pilot"] = 0
  BY <1>1, LostStays
<1>. QED BY <1>2 DEF AllTold

\* A pilot that is not refused asks a real provider.
LEMMA RealProvider ==
  ASSUME LLMPilotAssumption, NEW r \in Pilots, ~DryRun(r), ~IsRefused(r)
  PROVE  Provider[r] # "fake"
<1>. DEFINE s == Settings[r]
            a == PilotProvider(s) \in {"litellm", "openai_compatible"}
            checks == {<<"provider", a>>,
                       <<"model", PilotHas(s, "PILOT_MODEL", "real_llm_model")>>,
                       <<"base_url", PilotProvider(s) = "openai_compatible" =>
                                       PilotHas(s, "PILOT_BASE_URL", "real_llm_base_url")>>,
                       <<"key", PilotKey(s)>>}
<1>1. Failing(checks) = {}
  BY DEF IsRefused, RefusalReasons
<1>2. a \in BOOLEAN /\ <<"provider", a>> \in checks
  OBVIOUS
<1>3. Provider[r] = PilotProvider(s)
  BY DEF LLMPilotAssumption
<1>4. a
  <2>. HIDE DEF a, checks
  <2>. QED BY <1>1, <1>2, Passed
<1>. QED BY <1>3, <1>4

\* An answer of which nothing is kept from a real pilot tells its cost.
LEMMA AnswerShown ==
  ASSUME NL2SQLRequestsAssumption, LLMPilotAssumption, lost \in [Accounts -> Nat],
         DOMAIN job = Requests, NEW r \in Pilots, ~DryRun(r), JobKeyed(r, job[r]),
         PilotJob(r, job[r]), PilotTrue(r, job[r], pilot[r]), PipelineStep(r), AllTold'
  PROVE  ShownJob(job'[r])
<1>1. /\ job[r].at \in {"call", "compatible"} /\ job[r].who \in {"probe", "pilot"}
      /\ job'[r].who = job[r].who /\ (Unanswered(r) \/ Told(r))
  BY PilotCalls
<1>2. ~IsRefused(r)
  BY <1>1 DEF PilotTrue, IsRefused
<1>3. ~FakeAnswers(r)
  <2>1. Asked(r) = Provider[r]
    BY <1>1 DEF Asked
  <2>. QED BY <1>2, <2>1, RealProvider DEF FakeAnswers
<1>4. CASE Unanswered(r)
  BY <1>4 DEF Unanswered, ShownJob
<1>5. ASSUME NEW usable, NEW cost \in Costs \cup {0}, NEW loses \in Costs \cup {0},
             Answered(r, usable, cost, loses), cost \in Costs \/ loses \in Costs
      PROVE  ShownJob(job'[r])
  <2>. DEFINE at == NextOfAnswer(r, usable)
              answer == [usable |-> usable, cost |-> cost]
              result == IF job[r].who # "nl2sql" THEN job[r].result
                        ELSE IF usable THEN Result("llm", TRUE, r, job[r].schema)
                        ELSE Unavailable(r, job[r].schema)
  <2>1. Untold(r, loses)
    BY <1>5 DEF Answered, Charge
  <2>2. job[r].who = "pilot" => cost # 0
    <3>1. 0 \notin Costs /\ lost'["pilot"] = 0
      BY DEF AllTold
    <3>. QED BY <1>5, <2>1, <3>1, LostStays
  <2>3. DOMAIN job[r] = JobFields /\ r \in Requests
    BY DEF JobKeyed, Pilots
  <2>4. job'[r] = [job[r] EXCEPT !.at = at, !.answer = answer, !.via = "provider",
                                 !.result = result]
    BY <1>5, <2>3, Gets DEF Answered
  <2>5. answer.cost = cost
    OBVIOUS
  <2>. HIDE DEF at, answer, result
  <2>6. job'[r].answer = answer /\ job'[r].who = job[r].who
    BY <2>3, <2>4 DEF JobFields
  <2>. QED BY <2>2, <2>5, <2>6 DEF ShownJob, Pends
<1>6. CASE LiteLLMAnswers(r) \/ OpenAIAnswers(r) \/ CompatibleAnswers(r)
  <2>1. \E usable : \E charge \in Costs :
          Answered(r, usable, charge, 0) \/ Answered(r, usable, 0, charge)
    <3>1. CASE LiteLLMAnswers(r)
      BY <3>1 DEF LiteLLMAnswers, AnyAnswer
    <3>2. CASE OpenAIAnswers(r)
      BY <3>2 DEF OpenAIAnswers, UnpricedAnswer, AnyAnswer
    <3>3. CASE CompatibleAnswers(r)
      BY <3>3 DEF CompatibleAnswers, UnpricedAnswer, AnyAnswer
    <3>. QED BY <1>6, <3>1, <3>2, <3>3
  <2>2. PICK usable : \E charge \in Costs :
          Answered(r, usable, charge, 0) \/ Answered(r, usable, 0, charge)
    BY <2>1
  <2>3. PICK charge \in Costs : Answered(r, usable, charge, 0) \/ Answered(r, usable, 0, charge)
    BY <2>2
  <2>4. 0 \in Costs \cup {0} /\ charge \in Costs \cup {0}
    OBVIOUS
  <2>. QED BY <1>5, <2>3, <2>4
<1>7. CASE LiteLLMErrs(r) \/ OpenAIErrs(r) \/ CompatibleErrs(r)
  <2>1. ~Told(r) \/ Unanswered(r)
    <3>1. /\ \/ job'[r] = Failed(r)
             \/ job'[r] = [job[r] EXCEPT !.attempt = @ + 1]
             \/ job'[r] = [job[r] EXCEPT !.at = "compatible"]
          /\ r \in Requests /\ DOMAIN job[r] = JobFields
      BY <1>7, Gets DEF LiteLLMErrs, OpenAIErrs, CompatibleErrs, Erred, JobKeyed, Pilots
    <3>2. Failed(r) = [job[r] EXCEPT !.at = "answered"] /\ job[r].answer = NoAnswer
      BY <1>1 DEF Failed, Without, PilotJob
    <3>3. job'[r].answer = NoAnswer
      BY <3>1, <3>2 DEF JobFields
    <3>. QED BY <3>3 DEF Told
  <2>. QED BY <1>1, <1>4, <2>1
<1>8. /\ ~Generate(r) /\ ~GenerateRaises(r) /\ ~Check(r) /\ ~LookupHit(r) /\ ~LookupMiss(r)
      /\ ~Record(r) /\ ~Store(r)
  BY <1>1 DEF Generate, GenerateRaises, Check, LookupHit, LookupMiss, Record, Store, At
<1>. QED BY <1>3, <1>6, <1>7, <1>8 DEF PipelineStep

\* A pilot's own steps answer nothing, and a case that the model has served is
\* recorded with the cost of the answer.
LEMMA RecordsShown ==
  ASSUME NL2SQLRequestsAssumption, DOMAIN job = Requests, DOMAIN pilot = Pilots,
         NEW r \in Pilots, JobKeyed(r, job[r]), PilotTrue(r, job[r], pilot[r]),
         ShownJob(job[r]), ShownRecords(pilot[r].records), PilotStep(r)
  PROVE  ShownJob(job'[r]) /\ ShownRecords(pilot'[r].records)
<1>0. /\ r \in Requests /\ DOMAIN job[r] = JobFields /\ DOMAIN pilot[r] = PilotFields
      /\ pilot[r].records \in Seq(CaseRecords(r))
  BY DEF JobKeyed, PilotTrue, PilotFields, Pilots
<1>01. DOMAIN pilot = Pilots /\ DOMAIN pilot[r] = PilotFields
  BY <1>0
<1>1. ASSUME Stays(r) PROVE pilot'[r].records = pilot[r].records
  BY <1>0, <1>1, PilotChanges
<1>2. ASSUME NEW p \in {"load", "case", "json", "markdown", "done"}, NEW j, GoesTo(r, p, j)
      PROVE  ShownJob(j)
  <2>1. j.at = p
    BY <1>0, <1>2, PilotGoes
  <2>. QED BY <1>2, <2>1 DEF ShownJob
<1>3. ASSUME NEW who, job'[r] = Calling(r, who) PROVE ShownJob(job'[r])
  <2>1. job'[r].at = "call"
    BY <1>0, <1>3 DEF Calling, JobFields
  <2>. QED BY <2>1 DEF ShownJob
<1>4. ASSUME NEW c, Put(r, c), c.called /\ ~c.fallback => c.cost # 0
      PROVE  ShownJob(job'[r]) /\ ShownRecords(pilot'[r].records)
  <2>1. job'[r] = [job[r] EXCEPT !.at = "case"]
        /\ pilot' = [pilot EXCEPT ![r].records = Append(@, c)]
    BY <1>0, <1>4, Gets DEF Put
  <2>2. pilot'[r].records = Append(pilot[r].records, c)
    <3>1. PilotLeft(r) /\ pilot'[r] = [pilot[r] EXCEPT !.records = Append(@, c)]
      BY ONLY <1>01, <2>1, PilotChanges, Zenon
    <3>. QED BY <1>0, <3>1 DEF PilotFields
  <2>. DEFINE s == pilot[r].records
  <2>3. ShownRecords(Append(s, c))
    <3>1. s \in Seq(CaseRecords(r)) /\ ShownRecords(s)
      BY <1>0
    <3>. HIDE DEF s
    <3>2. /\ DOMAIN Append(s, c) = 1..(Len(s) + 1) /\ DOMAIN s = 1..Len(s) /\ Len(s) \in Nat
          /\ \A i \in 1..Len(s) : Append(s, c)[i] = s[i]
          /\ Append(s, c)[Len(s) + 1] = c
      BY <3>1
    <3>3. \A i \in 1..(Len(s) + 1) : i \in 1..Len(s) \/ i = Len(s) + 1
      BY <3>2
    <3>. QED BY <1>4, <3>1, <3>2, <3>3 DEF ShownRecords
  <2>4. ShownJob(job'[r])
    <3>1. GoesTo(r, "case", job'[r])
      BY <2>1 DEF GoesTo
    <3>. QED BY <1>2, <3>1
  <2>. HIDE DEF s
  <2>. QED BY <2>2, <2>3, <2>4 DEF s
<1>5. ASSUME NEW code, Exit(r, code)
      PROVE  ShownJob(job'[r]) /\ pilot'[r].records = pilot[r].records
  <2>1. job'[r] = [NewJob EXCEPT !.at = "done"] /\ Stays(r)
    BY <1>0, <1>5, Gets DEF Exit, Stays
  <2>2. GoesTo(r, "done", job'[r])
    BY <2>1 DEF GoesTo
  <2>. QED BY <1>1, <1>2, <2>1, <2>2
<1>6. CASE StartPilot(r) \/ ProbeEnds(r) \/ Load(r) \/ NormalCase(r) \/ Evaluated(r)
  <2>1. \/ \E code : Exit(r, code)
        \/ /\ Stays(r)
           /\ \/ \E who : job'[r] = Calling(r, who)
              \/ \E p \in {"load", "case", "json"} : GoesTo(r, p, job'[r])
    <3>1. CASE \E code : Exit(r, code)
      BY <3>1
    <3>2. CASE ~\E code : Exit(r, code)
      <4>1. pilot' = pilot
        BY <1>6, <3>2 DEF StartPilot, ProbeEnds, Load, NormalCase, Evaluated
      <4>2. \/ \E who : job'[r] = Calling(r, who)
            \/ \E p \in {"load", "json"} : job'[r] = [job[r] EXCEPT !.at = p]
            \/ job'[r] = [job[r] EXCEPT !.at = "case", !.schema = schema]
        BY <1>0, <1>6, <3>2, Gets DEF StartPilot, ProbeEnds, Load, NormalCase, AskModel, Evaluated
      <4>. QED BY <4>1, <4>2, Zenon DEF Stays, GoesTo
    <3>. QED BY <3>1, <3>2
  <2>2. CASE \E code : Exit(r, code)
    BY <1>5, <2>2
  <2>3. ASSUME Stays(r), ShownJob(job'[r])
        PROVE  ShownJob(job'[r]) /\ ShownRecords(pilot'[r].records)
    BY <1>1, <2>3
  <2>. QED BY <1>2, <1>3, <2>1, <2>2, <2>3
<1>7. CASE DangerousCase(r)
  <2>1. PICK passed \in BOOLEAN : Put(r, Case(FALSE, FALSE, passed, 0))
    BY <1>7 DEF DangerousCase
  <2>2. ~Case(FALSE, FALSE, passed, 0).called
    BY DEF Case
  <2>. QED BY <1>4, <2>1, <2>2
<1>8. CASE CaseEnds(r)
  <2>. DEFINE cost == IF job[r].answer = NoAnswer THEN 0 ELSE job[r].answer.cost
  <2>1. PICK passed \in BOOLEAN : Put(r, Case(TRUE, ~Served(r), passed, cost))
    BY <1>8 DEF CaseEnds
  <2>2. Served(r) => cost # 0
    BY <1>8 DEF CaseEnds, At, Served, ShownJob, Pends
  <2>. HIDE DEF cost
  <2>. DEFINE c == Case(TRUE, ~Served(r), passed, cost)
  <2>3. c.fallback = ~Served(r) /\ c.cost = cost
    BY DEF Case
  <2>. HIDE DEF c
  <2>4. Put(r, c)
    BY <2>1 DEF c
  <2>. QED BY <1>4, <2>2, <2>3, <2>4
<1>9. ASSUME NEW at, NEW file, NEW next \in {"markdown", "done"}, Writes(r, at, file, next)
      PROVE  ShownJob(job'[r]) /\ pilot'[r].records = pilot[r].records
  <2>1. CASE Exit(r, "raised")
    BY <1>5, <2>1
  <2>2. CASE ~Exit(r, "raised")
    <3>. DEFINE code == IF next = "done" THEN "ok" ELSE pilot[r].exit
    <3>1. /\ pilot' = [pilot EXCEPT ![r].files = @ \cup {file}, ![r].exit = code]
          /\ IF next = "done" THEN End(r, "done") ELSE Goto(r, next)
      BY <1>9, <2>2 DEF Writes
    <3>. HIDE DEF code
    <3>2. PilotLeft(r) /\ pilot'[r].records = pilot[r].records
      BY ONLY <1>01, <3>1, PilotChanges, Zenon
    <3>3. GoesTo(r, next, job'[r])
      <4>1. job'[r] = [NewJob EXCEPT !.at = next] \/ job'[r] = [job[r] EXCEPT !.at = next]
        BY <1>0, <3>1, Gets
      <4>. QED BY <4>1, Zenon DEF GoesTo
    <3>. QED BY <1>2, <3>2, <3>3
  <2>. QED BY <2>1, <2>2
<1>10. CASE WriteJson(r) \/ WriteMarkdown(r)
  BY <1>9, <1>10 DEF WriteJson, WriteMarkdown
<1>. QED BY <1>6, <1>7, <1>8, <1>10 DEF PilotStep

\* Every step keeps what was told in sight.
LEMMA ShownStep ==
  ASSUME NL2SQLRequestsAssumption, LLMPilotAssumption, TaskModesAssumption,
         told \in [Callers -> Nat], lost \in [Accounts -> Nat], Keyed, Evident, Shown,
         [Next]_pilotVars
  PROVE  Shown'
<1>1. /\ Shape /\ DOMAIN job = Requests /\ DOMAIN pilot = Pilots
      /\ \A r \in Requests : JobKeyed(r, job[r]) /\ JobTrue(r, job[r])
      /\ \A r \in Pilots : PilotTrue(r, job[r], pilot[r]) /\ r \in Requests
      /\ \A r \in Tasks : r \in Requests /\ TaskKeyed(r)
  BY DEF Keyed, Shape, Tasks, Evident, Pilots
<1>2. ASSUME AllTold' => AllTold,
             \A r \in Pilots : ~DryRun(r) /\ AllTold' /\ AllTold
                                 /\ ShownJob(job[r]) /\ ShownRecords(pilot[r].records)
                               => ShownJob(job'[r]) /\ ShownRecords(pilot'[r].records)
      PROVE  Shown'
  <2>. SUFFICES ASSUME AllTold', NEW r \in Pilots, ~DryRun(r)
                PROVE  ShownJob(job'[r]) /\ ShownRecords(pilot'[r].records)
    BY DEF Shown, ShownJob, ShownRecords, Pends
  <2>1. AllTold /\ ShownJob(job[r]) /\ ShownRecords(pilot[r].records)
    BY <1>2 DEF Shown
  <2>. QED BY <1>2, <2>1
<1>3. ASSUME UNCHANGED lost, \A r \in Pilots : job'[r] = job[r], pilot' = pilot PROVE Shown'
  BY <1>2, <1>3 DEF AllTold
<1>4. CASE UNCHANGED pilotVars \/ Finished
  BY <1>3, <1>4 DEF Finished, pilotVars, taskVars, vars
<1>5. CASE Environment /\ UNCHANGED <<task, pilot, gate>>
  BY <1>3, <1>5 DEF Environment
<1>6. ASSUME NEW q \in Requests \ Pilots, Frame(q), UNCHANGED lost, pilot' = pilot PROVE Shown'
  <2>1. \A r \in Pilots : job'[r] = job[r]
    BY <1>1, <1>6 DEF Frame
  <2>. QED BY <1>3, <1>6, <2>1
<1>7. ASSUME NEW q \in Open, PipelineStep(q), pilot' = pilot PROVE Shown'
  <2>1. q \in Requests /\ Frame(q) /\ (AllTold' => AllTold)
    BY <1>7, PipelineFrame, PipelineLoses DEF Open
  <2>2. ASSUME NEW r \in Pilots, ~DryRun(r), AllTold', ShownJob(job[r]) PROVE ShownJob(job'[r])
    <3>1. CASE r = q
      BY <1>1, <1>7, <2>2, <3>1, AnswerShown DEF JobTrue
    <3>2. CASE r # q
      BY <1>1, <2>1, <2>2, <3>2 DEF Frame
    <3>. QED BY <3>1, <3>2
  <2>. QED BY <1>2, <1>7, <2>1, <2>2
<1>8. ASSUME NEW q \in Open, EndpointStep(q), pilot' = pilot PROVE Shown'
  <2>1. q \in Requests /\ JobKeyed(q, job[q]) /\ JobTrue(q, job[q]) /\ Frame(q)
    BY <1>1, <1>8, EndpointFrame DEF Open
  <2>2. NoPilot(q, job'[q]) /\ UNCHANGED lost
    BY <1>1, <1>8, <2>1, EndpointTrue, NoLedger
  <2>. QED BY <1>6, <1>8, <2>1, <2>2 DEF NoPilot
<1>9. ASSUME NEW q \in Open, ArrivePreflight(q) \/ ArriveCheck(q) PROVE Shown'
  <2>1. q \in Requests /\ JobKeyed(q, job[q]) /\ JobTrue(q, job[q]) /\ Frame(q)
    BY <1>1, <1>9, PilotFrame DEF Open
  <2>2. NoPilot(q, job'[q]) /\ pilot' = pilot /\ UNCHANGED lost
    BY <1>1, <1>9, <2>1, ArrivalTrue, NoLedger
  <2>. QED BY <1>6, <2>1, <2>2 DEF NoPilot
<1>10. ASSUME NEW q \in Open \cap Pilots, PilotStep(q) PROVE Shown'
  <2>1. /\ JobKeyed(q, job[q]) /\ JobTrue(q, job[q]) /\ Frame(q) /\ q \in Requests
        /\ PilotTrue(q, job[q], pilot[q]) /\ UNCHANGED lost
    BY <1>1, <1>10, PilotFrame, NoLedger
  <2>2. ASSUME NEW r \in Pilots, ShownJob(job[r]), ShownRecords(pilot[r].records)
        PROVE  ShownJob(job'[r]) /\ ShownRecords(pilot'[r].records)
    <3>1. CASE r = q
      BY <1>1, <1>10, <2>1, <2>2, <3>1, RecordsShown
    <3>2. CASE r # q
      <4>1. \A p \in Pilots \ {q} : pilot'[p] = pilot[p]
        BY <1>1, <1>10, <2>1, PilotStepTrue DEF PilotLeft
      <4>. QED BY <1>1, <2>1, <2>2, <3>2, <4>1 DEF Frame
    <3>. QED BY <3>1, <3>2
  <2>. QED BY <1>2, <2>1, <2>2 DEF AllTold
<1>11. ASSUME NEW q \in Open \cap Tasks, TaskStep(q), pilot' = pilot PROVE Shown'
  <2>1. q \in Requests /\ JobKeyed(q, job[q]) /\ JobTrue(q, job[q]) /\ TaskKeyed(q)
    BY <1>1, <1>11
  <2>2. Frame(q)
    BY <1>1, <1>11, TaskStepMeans, RunEndsMeans, RunRaisesMeans DEF RunStep
  <2>3. NoPilot(q, job'[q]) /\ UNCHANGED lost
    BY <1>1, <1>11, <2>1, TaskTrue, NoLedger
  <2>. QED BY <1>6, <1>11, <2>1, <2>2, <2>3 DEF NoPilot
<1>. QED BY <1>4, <1>5, <1>7, <1>8, <1>9, <1>10, <1>11 DEF Next

\* At the beginning there is nothing to show.
LEMMA InitShown == ASSUME Init PROVE Shown
<1>1. ASSUME NEW r \in Pilots PROVE ShownJob(job[r]) /\ ShownRecords(pilot[r].records)
  <2>1. pilot[r] = NewPilot /\ (job[r] = NewJob \/ job[r] = [NewJob EXCEPT !.at = "absent"])
    BY DEF Init, InitPilots, InitTasks, InitRequests, Pilots
  <2>2. job[r].at # "answered" /\ pilot[r].records = <<>>
    BY <2>1 DEF NewJob, NewPilot
  <2>. QED BY <2>2 DEF ShownJob, ShownRecords
<1>. QED BY <1>1 DEF Shown

\* A report of success that shows no cost is one of charges that were not told.
LEMMA ReportShown ==
  ASSUME NEW r \in Pilots, PilotTrue(r, job[r], pilot[r]), Shown, lost["pilot"] \in Nat,
         0 \notin Costs, Report(r).succeeded, Report(r).cost = 0
  PROVE  lost["pilot"] > 0
<1>. SUFFICES ASSUME lost["pilot"] = 0 PROVE FALSE
  OBVIOUS
<1>. DEFINE s == pilot[r].records
            served == {i \in 1..Len(s) : s[i].called /\ ~s[i].fallback}
<1>1. ~DryRun(r) /\ Cardinality(served) > 0 /\ CostOf(s) = 0
  <2>1. Report(r).succeeded = Evidence(r).succeeded /\ Report(r).cost = CostOf(s)
    BY ReportMeans DEF Report, Evidence, Summary
  <2>2. Evidence(r).succeeded <=> ~DryRun(r) /\ Cardinality(served) > 0
    BY DEF Evidence, Picked
  <2>. QED BY <2>1, <2>2
<1>2. ShownRecords(s)
  BY <1>1 DEF Shown, AllTold
<1>3. s \in Seq(CaseRecords(r)) /\ DOMAIN s = 1..Len(s) /\ Len(s) \in Nat
  BY DEF PilotTrue
<1>4. IsFiniteSet(DOMAIN s) /\ \A i \in DOMAIN s : CostsOf(s)[i] = s[i].cost /\ s[i].cost \in Nat
  <2>1. \A i \in DOMAIN s : s[i] \in CaseRecords(r)
    BY <1>3
  <2>2. IsFiniteSet(DOMAIN s)
    BY <1>3, FS_Interval
  <2>. HIDE DEF s
  <2>. QED BY <2>1, <2>2 DEF CostsOf, CaseRecords
<1>5. PICK i \in served : TRUE
  <2>. HIDE DEF served
  <2>1. served # {}
    BY <1>1, FS_EmptySet
  <2>. QED BY <2>1
<1>6. i \in DOMAIN s /\ s[i].cost # 0
  BY <1>2, <1>3, <1>5 DEF ShownRecords
<1>. DEFINE h == CostsOf(s)
            S == DOMAIN s
<1>7. /\ IsFiniteSet(S) /\ IsFiniteSet(S \ {i}) /\ i \in S /\ h[i] # 0
      /\ \A x \in S : h[x] \in Nat
      /\ SumFunctionOnSet(h, S) = 0
  BY <1>1, <1>4, <1>6, CostOfIs, FS_RemoveElement
<1>. HIDE DEF h, S
<1>8. SumFunctionOnSet(h, S) = h[i] + SumFunctionOnSet(h, S \ {i})
  BY <1>7, SumRemove
<1>9. SumFunctionOnSet(h, S \ {i}) \in Nat
  BY <1>7, SumNat
<1>. QED BY <1>7, <1>8, <1>9

\* The report of a pilot is evidence of what it did, what the pilots were told of
\* their charges is in their records or about to be, and no reply claims a call, or
\* a cost, that is not its own: however pilots, requests and tasks interleave, and
\* wherever a call fails.  A report of success that shows no cost is one of
\* charges that the provider's class has not told, if no answer is free.
THEOREM EvidenceHonestAlways == Spec => []EvidenceHonest
<1>0. TypeOK => /\ told \in [Callers -> Nat]
                /\ lost \in [Accounts -> Nat] /\ lost["pilot"] \in Nat
  BY DEF TypeOK, Accounts
<1>1. Init => Accounted /\ Balanced /\ Evident /\ Shown
  BY InitAccounted, InitBalanced, InitEvident, InitShown, NL2SQLRequestsAssumption,
     LLMBudgetAssumption, LLMPilotAssumption
<1>2. TypeOK /\ Accounted /\ Balanced /\ Evident /\ Shown /\ [Next]_pilotVars
        => (Accounted /\ Balanced /\ Evident /\ Shown)'
  <2>. SUFFICES ASSUME TypeOK, Accounted, Balanced, Evident, Shown, [Next]_pilotVars
                PROVE  (Accounted /\ Balanced /\ Evident /\ Shown)'
    OBVIOUS
  <2>1. Accounted' /\ Balanced'
    BY AccountedStep, BalancedStep, KeysAssumption, NL2SQLRequestsAssumption,
       LLMBudgetAssumption, TaskModesAssumption
  <2>2. Keyed
    BY DEF Accounted
  <2>3. Evident'
    BY <2>1, <2>2, EvidentStep, NL2SQLRequestsAssumption, LLMPilotAssumption,
       TaskModesAssumption
  <2>4. Shown'
    BY <1>0, <2>2, ShownStep, NL2SQLRequestsAssumption, LLMPilotAssumption, TaskModesAssumption
  <2>. QED BY <2>1, <2>3, <2>4
<1>3. TypeOK /\ Evident /\ Shown => EvidenceHonest
  <2>. SUFFICES ASSUME TypeOK, Evident, Shown PROVE EvidenceHonest
    OBVIOUS
  <2>1. ASSUME NEW r \in Pilots, pilot[r].files # {}
        PROVE  /\ Report(r).total = Len(Sample(r))
               /\ Report(r).passed <= Report(r).total /\ Report(r).fallbacks <= Report(r).called
               /\ Report(r).attempted => RefusalReasons(Settings[r]) = {}
               /\ DryRun(r) => ~Report(r).attempted /\ ~Report(r).succeeded /\ Report(r).cost = 0
               /\ 0 \notin Costs /\ Report(r).succeeded /\ Report(r).cost = 0
                    => lost["pilot"] > 0
    BY <1>0, <2>1, ReportTrue, ReportShown DEF Evident
  <2>2. LET answered == {r \in Pilots : At(r, "answered") /\ job[r].who = "pilot"
                                        /\ job[r].answer # NoAnswer}
        IN told["pilot"] = MapThenSumSet(LAMBDA r : CostOf(pilot[r].records), Pilots)
                           + MapThenSumSet(LAMBDA r : job[r].answer.cost, answered)
    <3>1. IsFiniteSet(Pilots)
      <4>1. Pilots \subseteq Requests /\ IsFiniteSet(Requests)
        BY NL2SQLRequestsAssumption DEF Pilots, NL2SQLRequestsAssumption
      <4>. QED BY <4>1, FS_Subset
    <3>2. told["pilot"] = InRecords(pilot) + Pending(job)
      BY DEF Evident
    <3>. QED BY <3>1, <3>2, RecordsSum, PendingSum, NL2SQLRequestsAssumption
  <2>3. ASSUME NEW r \in Requests, At(r, "made"), job[r].who = "nl2sql"
        PROVE  /\ Acceptance(r).succeeded =>
                    /\ job[r].via = "provider" /\ job[r].answer # NoAnswer
                    /\ job[r].result.by = "llm" /\ Provider[r] # "fake"
               /\ Acceptance(r).cost
                    = IF job[r].via = "provider" /\ job[r].answer # NoAnswer
                      THEN job[r].answer.cost ELSE 0
    BY <2>3, ReplyTrue DEF Evident
  <2>. QED BY <2>1, <2>2, <2>3 DEF EvidenceHonest
<1>4. Spec => []TypeOK
  BY LLMServiceTyped
<1>. QED BY <1>1, <1>2, <1>3, <1>4, PTL DEF Spec

=============================================================================
