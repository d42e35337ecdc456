--------------------------- MODULE PlanApprovals ---------------------------
(***************************************************************************)
(* The approval flow of a task that is a plan of several tool calls.       *)
(* MultiToolPipeline.run works through the plan until a step needs an      *)
(* approval; ApprovalResumeService._resume_multitool runs the approved     *)
(* step and then the rest, up to the next step that needs one.             *)
(*                                                                         *)
(* The kernel enters the pipeline in three modes: "multitool" proper, the  *)
(* fallback of "auto", and "multi_agent".  Only the first looks at         *)
(* requires_approval; the queries modelled are those whose keyword         *)
(* fallback in "auto" asks for no approval of its own.                     *)
(*                                                                         *)
(* runs is a history variable: how often each step succeeded.              *)
(***************************************************************************)
EXTENDS ApprovalDecisions

CONSTANTS
  Mode,        \* Mode[t]: the mode t was created in
  Length,      \* steps of the plan, taken in order
  HighRisk,    \* steps whose tool the policy engine lets run only approved
  Unresolved   \* Unresolved[t]: steps whose arguments name something the
               \* results of t do not have (or, for low-risk steps, whose tool
               \* is not registered)

ASSUME PlanAssumption ==
  /\ Mode \in [Tasks -> {"multitool", "auto", "multi_agent"}]
  /\ Length \in Nat
  /\ HighRisk \subseteq 1..Length
  /\ Unresolved \in [Tasks -> SUBSET (1..Length)]

VARIABLES created, runs

vars == <<stores, job, faults, created, runs>>

Many == 2
Count(n) == IF n < Many THEN n + 1 ELSE Many

Init ==
  /\ DecisionsInit
  /\ created = {}
  /\ runs = [t \in Tasks |-> [k \in 1..Length |-> 0]]

history == <<created, runs>>

\* The step a request has come to.
Here(w) == job[w].step
InPlan(w) == Here(w) \in 1..Length

\* Where a plan cannot go on by calling the tool: at its end, and at a step
\* that needs no approval but cannot be called either.
Over(w) == ~InPlan(w) \/ Here(w) \in Unresolved[job[w].task] \ HighRisk
Blocked(w) == InPlan(w) /\ Here(w) \in HighRisk
Callable(w) ==
  InPlan(w) /\ Here(w) \notin HighRisk \cup Unresolved[job[w].task]

\* ToolGateway.call of step k; it never raises.
Called(t, k, success) ==
  runs' = IF success THEN [runs EXCEPT ![t][k] = Count(@)] ELSE runs

-----------------------------------------------------------------------------
(* create_task and MultiToolPipeline.run.                                  *)

\* What the kernel reports once the pipeline has not succeeded.
AfterFailure(t) ==
  IF Mode[t] = "auto" THEN {"completed", "failed"} ELSE {"completed"}

\* Faulty: no mode looks at requires_approval.
AfterBlockDeaf(t) == AfterFailure(t)

\* Faulty: a status no task has.
AfterBlockUnknown(t) ==
  IF Mode[t] = "multitool" THEN {"requires_approval"} ELSE AfterFailure(t)

\* What the kernel reports for a plan that waits for an approval.
AfterBlock(t) ==
  IF Mode[t] = "multitool" THEN {"waiting_approval"} ELSE AfterFailure(t)

CreateTask(w, t) ==
  /\ At(w, "idle") /\ t \notin created
  /\ created' = created \cup {t}
  /\ PutJob(w, [NoRequest EXCEPT !.at = "plan", !.task = t, !.step = 1])
  /\ UNCHANGED <<stores, faults, runs>>

PlanCall(w) ==
  /\ At(w, "plan") /\ Callable(w)
  /\ \E success \in BOOLEAN :
       /\ Called(job[w].task, Here(w), success)
       /\ IF success
          THEN PutJob(w, [job[w] EXCEPT !.step = Here(w) + 1])
          ELSE \E v \in AfterFailure(job[w].task) :
                 PutJob(w, [job[w] EXCEPT !.at = "save", !.verdict = v])
  /\ UNCHANGED <<stores, faults, created>>

PlanBlock(w) ==
  /\ At(w, "plan") /\ Blocked(w)
  /\ \E a \in ApprovalIds, v \in AfterBlock(job[w].task) :
       /\ CreateApproval(a, job[w].task, "multitool", Here(w))
       /\ PutJob(w, [job[w] EXCEPT !.at = "save", !.appr = a, !.verdict = v])
  /\ UNCHANGED <<tasks, checkpoints, audited, faults, history>>

PlanOver(w) ==
  /\ At(w, "plan") /\ Over(w)
  /\ \E v \in IF InPlan(w) THEN AfterFailure(job[w].task) ELSE {"completed"} :
       PutJob(w, [job[w] EXCEPT !.at = "save", !.verdict = v])
  /\ UNCHANGED <<stores, faults, history>>

\* create_approval raises; the kernel reports it like any failed plan.
PlanFault(w) ==
  /\ At(w, "plan") /\ Blocked(w)
  /\ \E v \in AfterFailure(job[w].task) :
       PutJob(w, [job[w] EXCEPT !.at = "save", !.verdict = v])
  /\ Fault
  /\ UNCHANGED <<stores, history>>

Save(w) ==
  /\ At(w, "save")
  /\ Done(w)
  /\ SaveTask(job[w].task, job[w].verdict)
  /\ UNCHANGED <<approvals, checkpoints, audited, faults, history>>

-----------------------------------------------------------------------------
(* _resume_multitool: the approved step, then the rest of the plan, then   *)
(* the task, then (in resume) the approval.                                *)

Resume(w) ==
  /\ ResumeEntry(w, [multitool |-> "approved_step"])
  /\ UNCHANGED history

\* Arguments that cannot be resolved end the resume with the task as it was.
ApprovedStepUnresolved(w) ==
  /\ At(w, "approved_step")
  /\ approvals[job[w].appr].step \in Unresolved[job[w].task]
  /\ PutJob(w, [job[w] EXCEPT !.at = "payload_read", !.consumed = FALSE])
  /\ UNCHANGED <<stores, faults, history>>

\* Faulty: starts over at the first step of the plan.
ApprovedStepRestarts(w) ==
  LET k == approvals[job[w].appr].step IN
  /\ At(w, "approved_step") /\ k \notin Unresolved[job[w].task]
  /\ \E success \in BOOLEAN :
       /\ Called(job[w].task, k, success)
       /\ PutJob(w, IF success
                    THEN [job[w] EXCEPT !.at = "rest", !.step = 1,
                                        !.consumed = TRUE]
                    ELSE [job[w] EXCEPT !.at = "task", !.verdict = "failed",
                                        !.consumed = FALSE])
  /\ UNCHANGED <<stores, faults, created>>

\* Faulty: goes on with the rest of the plan after a failed step.
ApprovedStepIgnored(w) ==
  LET k == approvals[job[w].appr].step IN
  /\ At(w, "approved_step") /\ k \notin Unresolved[job[w].task]
  /\ \E success \in BOOLEAN :
       /\ Called(job[w].task, k, success)
       /\ PutJob(w, [job[w] EXCEPT !.at = "rest", !.step = k + 1,
                                   !.consumed = TRUE])
  /\ UNCHANGED <<stores, faults, created>>

\* A failed step fails the task and leaves the approval to be resumed again.
ApprovedStep(w) ==
  LET k == approvals[job[w].appr].step IN
  /\ At(w, "approved_step") /\ k \notin Unresolved[job[w].task]
  /\ \E success \in BOOLEAN :
       /\ Called(job[w].task, k, success)
       /\ PutJob(w, IF success
                    THEN [job[w] EXCEPT !.at = "rest", !.step = k + 1,
                                        !.consumed = TRUE]
                    ELSE [job[w] EXCEPT !.at = "task", !.verdict = "failed",
                                        !.consumed = FALSE])
  /\ UNCHANGED <<stores, faults, created>>

\* One turn of _execute_subsequent_steps.  From here on the approval counts as
\* consumed, whatever becomes of the rest.
RestCall(w) ==
  /\ At(w, "rest") /\ Callable(w)
  /\ \E success \in BOOLEAN :
       /\ Called(job[w].task, Here(w), success)
       /\ PutJob(w, IF success
                    THEN [job[w] EXCEPT !.step = Here(w) + 1]
                    ELSE [job[w] EXCEPT !.at = "task", !.verdict = "failed"])
  /\ UNCHANGED <<stores, faults, created>>

\* Faulty: an approval covers the high-risk steps after it.
RestBlockLenient(w) ==
  /\ At(w, "rest") /\ Blocked(w)
  /\ Called(job[w].task, Here(w), TRUE)
  /\ PutJob(w, [job[w] EXCEPT !.step = Here(w) + 1])
  /\ UNCHANGED <<stores, faults, created>>

\* The new approval is there before the task waits for it and before the one
\* being resumed is consumed.
RestBlock(w) ==
  /\ At(w, "rest") /\ Blocked(w)
  /\ \E a \in ApprovalIds :
       CreateApproval(a, job[w].task, "multitool", Here(w))
  /\ PutJob(w, [job[w] EXCEPT !.at = "task", !.verdict = "waiting_approval"])
  /\ UNCHANGED <<tasks, checkpoints, audited, faults, history>>

RestOver(w) ==
  /\ At(w, "rest") /\ Over(w)
  /\ PutJob(w, [job[w] EXCEPT !.at = "task",
                  !.verdict = IF InPlan(w) THEN "failed" ELSE "completed"])
  /\ UNCHANGED <<stores, faults, history>>

UpdateTask(w) ==
  /\ At(w, "task")
  /\ Goto(w, "payload_read")
  /\ UpdateTaskStatus(job[w].task, job[w].verdict)
  /\ UNCHANGED <<approvals, checkpoints, audited, faults, history>>

-----------------------------------------------------------------------------
CreateSteps(w) == PlanCall(w) \/ PlanBlock(w) \/ PlanOver(w) \/ Save(w)

ResumeSteps(w) ==
  \/ Resume(w) \/ ApprovedStepUnresolved(w) \/ ApprovedStep(w)
  \/ RestCall(w) \/ RestBlock(w) \/ RestOver(w) \/ UpdateTask(w)

Serve(w) ==
  \/ DecisionSteps(w) /\ UNCHANGED history
  \/ CreateSteps(w)
  \/ ResumeSteps(w)

Step(w) ==
  \/ Serve(w)
  \/ DecisionRequests(w) /\ UNCHANGED history
  \/ \E t \in Tasks : CreateTask(w, t)
  \/ DecisionFaults(w) /\ UNCHANGED history
  \/ PlanFault(w)

Next == \E w \in Workers : Step(w)

Spec == Init /\ [][Next]_vars

\* A process keeps running the request it serves; clients owe nothing.
FairSpec == Spec /\ \A w \in Workers : WF_vars(Serve(w))

-----------------------------------------------------------------------------
(* Properties.                                                             *)

Points == {"idle", "decide", "decide_select", "decide_write", "audit",
           "cancel_task", "cancel_checkpoint", "resume", "payload_read",
           "payload_write", "plan", "save", "approved_step", "rest", "task"}

Rows == [status : RowStatus, task : Tasks \cup {NoTask},
         mode : {"none", "multitool"}, step : 0..Length, resumed : BOOLEAN]
Requests == [at : Points, appr : ApprovalIds \cup {NoApproval},
             task : Tasks \cup {NoTask}, verb : Decisions,
             verdict : TaskStatus, consumed : BOOLEAN, seen : BOOLEAN,
             step : 0..(Length + 1)]

\* The rows of the stores and the requests under way are well formed.
TypeOK ==
  /\ approvals \in [ApprovalIds -> Rows]
  /\ tasks \in [Tasks -> TaskStatus]
  /\ checkpoints = [t \in Tasks |-> NoCheckpoint]
  /\ audited \in [ApprovalIds -> SUBSET Decisions]
  /\ job \in [Workers -> Requests]
  /\ faults \in 0..MaxFaults
  /\ created \subseteq Tasks
  /\ runs \in [Tasks -> [1..Length -> 0..Many]]

Asked(a) == approvals[a].status # "absent"
Open(a) == approvals[a].status \in {"pending", "approved"}
           /\ ~approvals[a].resumed
Ran(t, k) == runs[t][k] > 0
Quiet == \A w \in Workers : At(w, "idle")

\* depends_on: no step runs before all the steps ahead of it have succeeded,
\* over any number of approvals, retries, crashes and racing workers.
StepsInOrder ==
  \A t \in Tasks, k \in 1..Length :
    Ran(t, k) => \A j \in 1..(k - 1) : Ran(t, j)

\* A high-risk step runs only under an approval of that very step: the approval
\* of an earlier step does not carry over to it.
HighRiskApproved ==
  \A t \in Tasks, k \in HighRisk : Ran(t, k) =>
    \E a \in ApprovalIds : /\ approvals[a].task = t /\ approvals[a].step = k
                           /\ approvals[a].status = "approved"

\* What the stores claim of a plan has happened: an approval is consumed only
\* once its own step has succeeded, and a multitool task that asked for an
\* approval is completed only when every step of its plan has.
ProgressIsReal ==
  \A a \in ApprovalIds :
    LET t == approvals[a].task IN
    /\ approvals[a].resumed => Ran(t, approvals[a].step)
    /\ Asked(a) /\ Mode[t] = "multitool" /\ tasks[t] = "completed" =>
         \A k \in 1..Length : Ran(t, k)

\* No step succeeds twice: resuming does not repeat what is done.
StepOnce == \A t \in Tasks, k \in 1..Length : runs[t][k] <= 1

\* Between requests a task has at most one approval that can still lead to a
\* call.
OneOpenApproval ==
  Quiet => \A a, b \in ApprovalIds :
    Open(a) /\ Open(b) /\ approvals[a].task = approvals[b].task => a = b

\* Between requests, the approvals of a multitool task and its status agree: the
\* task waits for a pending approval and is cancelled by a rejected one; it is
\* not completed while an approved step is still to run; and when it waits
\* although an approval has been consumed, a later one is open.
PlanAgrees ==
  Quiet => \A a \in ApprovalIds :
    Asked(a) /\ Mode[approvals[a].task] = "multitool" =>
    LET row == approvals[a]
        task == tasks[row.task]
    IN /\ row.status = "pending" => task = "waiting_approval"
       /\ row.status = "rejected" => task = "cancelled"
       /\ row.status = "approved" /\ ~row.resumed =>
            task \in {"waiting_approval", "failed"} /\ ~Ran(row.task, row.step)
       /\ row.resumed /\ task = "waiting_approval" =>
            \E b \in ApprovalIds : /\ Open(b) /\ approvals[b].task = row.task
                                   /\ approvals[b].step > row.step

\* A task whose approval is pending is waiting for it.
PendingWaits ==
  Quiet => \A a \in ApprovalIds :
    approvals[a].status = "pending" => tasks[approvals[a].task] = "waiting_approval"

\* A resume that was let in ends: the approval is consumed, or the task has
\* failed, or the arguments of the step could not be resolved.
PlanResumeConcludes ==
  \A a \in ApprovalIds, t \in Tasks :
    (\E w \in Workers : /\ At(w, "resume") /\ job[w].appr = a /\ job[w].task = t
                        /\ a \notin Refused
                        /\ approvals[a].step \notin Unresolved[t])
      ~> (approvals[a].resumed \/ tasks[t] = "failed")
=============================================================================
